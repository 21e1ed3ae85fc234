\* Two pods; edits, rotated secrets, re-creation, a release; one failure or crash.
SPECIFICATION LiveSpec
CONSTANTS
  p1 = p1  p2 = p2
  c1 = c1
  s1 = s1  s2 = s2
  e1 = e1  e2 = e2
  None = None
  Pods = {p1, p2}
  Configs = {c1}
  Settings = {s1, s2}
  Envs = {e1, e2}
  Specs <- TwoSpecs
  Starts <- OneStart
  Pinned = TRUE
  Interval = 1
  Delay = 1
  Losable = {"fingerprint", "marker"}
  MaxEdits = 2
  MaxReleases = 1
  MaxFaults = 1
INVARIANTS TypeOK UsesLatestInit UsesItsInputs
PROPERTIES LacksNoOldRelease UpgradesInTheEnd
