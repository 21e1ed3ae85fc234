\* A released dependency changes the plan, and its apply fails once.
SPECIFICATION LiveSpec
CONSTANTS
  c1 = c1  c2 = c2
  None = None
  Partial = Partial
  Specs <- Automatic
  UserAnnotations = {}
  Interrupts = FALSE
  Pinned = FALSE
  Surprises = {"release"}
  MaxGeneration = 1
  MaxRequests = 0
  MaxSurprises = 1
  MaxFaults = 1
PROPERTIES SyncedInTheEnd
