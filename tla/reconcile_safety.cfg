\* Users change the policy, annotate and delete at any time, what a plan needs
\* is released or gone, one call or tool run fails or the pod crashes.
SPECIFICATION Spec
CONSTANTS
  c1 = c1  c2 = c2
  None = None
  Partial = Partial
  Specs <- Varied
  UserAnnotations = {"destroy"}
  Interrupts = TRUE
  Pinned = FALSE
  Surprises = {"release", "outage"}
  MaxGeneration = 3
  MaxRequests = 1
  MaxSurprises = 1
  MaxFaults = 1
INVARIANTS TypeOK NothingLeftBehind ObservedIsPlanned NeverForgotten
PROPERTIES DestroysOnRequest ImplementsLifecycle
