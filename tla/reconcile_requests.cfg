\* Requests to apply, made at any time; nothing fails.
SPECIFICATION Spec
CONSTANTS
  c1 = c1  c2 = c2
  None = None
  Partial = Partial
  Specs <- SometimesApproved
  UserAnnotations = {"apply"}
  Interrupts = TRUE
  Pinned = FALSE
  Surprises = {}
  MaxGeneration = 3
  MaxRequests = 2
  MaxSurprises = 0
  MaxFaults = 0
INVARIANTS AppliesThePlan
PROPERTIES OneApplyPerRequest
