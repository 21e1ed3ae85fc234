\* Edits, requests to apply and interruptions at any time.
SPECIFICATION Spec
CONSTANTS
  Limits = {1, 2, 3}
  MaxGeneration = 6
INVARIANTS TypeOK
PROPERTIES KeepsTheLimit CurrentKept ImplementsRetention
