\* Pinned modules: drift, two failures or crashes, edits, requests and deletion
\* between reconciles.
SPECIFICATION LiveSpec
CONSTANTS
  c1 = c1  c2 = c2
  None = None
  Partial = Partial
  Specs <- Automatic
  UserAnnotations = {"destroy", "retry"}
  Interrupts = FALSE
  Pinned = TRUE
  Surprises = {"drift"}
  MaxGeneration = 2
  MaxRequests = 1
  MaxSurprises = 1
  MaxFaults = 2
PROPERTIES SyncedInTheEnd DeletionEnds
