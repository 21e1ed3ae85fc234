\* Three chunks on each pipe, a channel of two places, a failed update, a context
\* that may end.
SPECIFICATION LiveSpec
CONSTANTS
  Capacity = 2
  Chunks = 3
  MaxFaults = 1
  Cancels = TRUE
INVARIANTS TypeOK AllShown SomeoneGoesOn
PROPERTIES NeverShrinks ImplementsLog GetsOn
