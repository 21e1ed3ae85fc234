---------------------------- MODULE InitSkipProofs ----------------------------
(***************************************************************************)
(* Theorems about InitSkip, for every number of pods, configurations,      *)
(* edits, releases and failures.                                           *)
(*                                                                         *)
(* Vouched says that a marker speaks of the installation beside it, and    *)
(* that the worker's steps keep what the decision found; it needs markers  *)
(* to be removed before an init.  Latest says that a fingerprint in the    *)
(* status is that of the last init, but while the phase says that a newer  *)
(* one may be under way or unstored that storing it failed; it needs the   *)
(* phase to be stored.  Aged compares the age of a marker with that of the *)
(* versions that came out after its init, and needs neither.               *)
(***************************************************************************)
EXTENDS InitSkip, TLAPS

\* RemoveInitMarker does not fail.
MarkersRemoved == "removal" \notin Losable

\* The update of the phase before an init does not fail.
PhaseStored == "phase" \notin Losable

\* Only edits make new generations; the bound on edits then bounds generations.
Bounded == object.generation <= edits + 1

\* What p has in its directory is whole, and was made from the main.tf and the
\* environment of inputs; MadeFor: for its settings, too.
Holds(p, inputs) ==
  /\ dir[p].intact
  /\ dir[p].inputs.main = inputs.main /\ dir[p].inputs.env = inputs.env
MadeFor(p, inputs) == Holds(p, inputs) /\ dir[p].inputs.settings = inputs.settings

Vouched ==
  /\ \A p \in Pods : marker[p] # None =>
       /\ Holds(p, marker[p].fingerprint.inputs)
       /\ MadeFor(p, marker[p].fingerprint.inputs) \/ Swapped(p)
       /\ dir[p].lock = marker[p].fingerprint.lock
  /\ worker # None =>
       LET p == worker.pod IN
       /\ worker.step = "initializing" \/ Recording => marker[p] = None
       /\ Recording => MadeFor(p, worker.inputs)
       /\ worker.step \in {"skip", "using"} =>
            Holds(p, worker.inputs) /\ (MadeFor(p, worker.inputs) \/ Swapped(p))

\* The fingerprint in the status, if there is one, is that of the last init.
Current ==
  unstored \/ (object.fingerprint # None => object.fingerprint.lock = lastInit)

Latest ==
  /\ object.completed => Current
  /\ worker # None =>
       /\ worker.step \in {"initializing", "installed", "validated"} => ~object.completed
       /\ worker.step \in {"installed", "validated"} => dir[worker.pod].lock = lastInit
       /\ worker.step \in {"skip", "recorded", "using"} =>
            (dir[worker.pod].lock = lastInit \/ unstored) /\ Current

-----------------------------------------------------------------------------
(* Type correctness *)

\* The clock keeps a marker one, about the same installation.
LEMMA OlderMarker ==
  ASSUME NEW m \in Markers
  PROVE  /\ Older(m) \in Markers
         /\ Older(m) # None => /\ m # None /\ Older(m).fingerprint = m.fingerprint
                               /\ Older(m).tool = m.tool
BY NumbersAssumption DEF Older, Markers, InitMarkers

\* And it stays one.
LEMMA MarkerStays ==
  ASSUME NEW m \in Markers, m # None
  PROVE  Older(m) # None /\ Older(m).fingerprint = m.fingerprint /\ Older(m).tool = m.tool
<1> DEFINE next == [m EXCEPT !.age = @ + 1]
<1>1. m \in InitMarkers
  BY DEF Markers, InitMarkers
<1>2. m.age <= Interval => next \in InitMarkers /\ next.fingerprint = m.fingerprint /\ next.tool = m.tool
  BY <1>1, NumbersAssumption DEF InitMarkers
<1> QED
  BY <1>2, NoRecordAssumption DEF Older

\* The types hold at first.
LEMMA InitType == Init => TypeOK
<1> SUFFICES ASSUME Init
             PROVE  TypeOK
  OBVIOUS
<1>1. object \in Objects /\ env \in Envs
  BY SettingAssumption, NumbersAssumption DEF Init, Objects, NewObject
<1>2. dir \in [Pods -> Directories] /\ marker \in [Pods -> Markers] /\ worker \in Workers
  BY DEF Init, Directories, NoDirectory, Markers, InitMarkers, Workers
<1>3. unstored \in BOOLEAN
  BY DEF Init
<1> QED
  BY <1>1, <1>2, <1>3, NumbersAssumption DEF Init, TypeOK, Versions, Lag

\* Every step keeps the types.
LEMMA TypeStep ==
  ASSUME TypeOK, Bounded, [Next]_vars
  PROVE  TypeOK'
<1> USE SettingAssumption, NumbersAssumption DEF worldVars, initVars
<1>0. Now \in Inputs
  BY DEF TypeOK, Objects, Now, Inputs
<1>w. \A s \in Steps : worker # None /\ GoTo(s) => worker' \in Workers
  <2>1. 0 \in 0 .. Delay
    OBVIOUS
  <2> QED
    BY <2>1 DEF TypeOK, Workers, GoTo
<1>s. {"init", "skip", "initializing", "installed", "validated", "recorded", "using",
       "errored", "backoff"} \subseteq Steps
  BY DEF Steps
<1>o. /\ \A c \in BOOLEAN : [object EXCEPT !.completed = c] \in Objects
      /\ \A r \in BOOLEAN : [object EXCEPT !.retrying = r] \in Objects
      /\ \A v \in BOOLEAN : [object EXCEPT !.valid = v] \in Objects
      /\ \A c, r \in BOOLEAN : [object EXCEPT !.completed = c, !.retrying = r] \in Objects
  BY DEF TypeOK, Objects
<1>v. \A o \in Objects : Observed(o) \in Objects
  BY DEF Objects, Observed
<1>k. Worked \subseteq Objects
  BY <1>o DEF Worked
<1>d. ASSUME NEW p \in Pods, worker # None
      PROVE  Installed \in Directories /\ LeftBehind(p) \subseteq Directories
  <2>1. Installed \in Directories
    <3>1. worker.inputs \in Inputs /\ upstream \in Versions
      BY <1>d DEF TypeOK, Workers
    <3> QED
      BY <3>1 DEF Installed, Directories
  <2>2. \A d \in Directories : [d EXCEPT !.intact = FALSE] \in Directories
    BY DEF Directories
  <2> QED
    BY <2>1, <2>2 DEF LeftBehind, TypeOK
<1>f. Fail => faults' \in 0 .. MaxFaults
  BY DEF Fail, TypeOK
<1>t. \A o \in Objects : TryWrite(o) => object' \in Objects /\ faults' \in 0 .. MaxFaults
  BY <1>f DEF TryWrite, TypeOK
<1>1. ASSUME NEW p \in Pods, NEW force \in BOOLEAN, Begin(p, force)
      PROVE  TypeOK'
  <2>1. worker' \in Workers
    <3>1. 0 \in 0 .. Delay /\ object.generation \in 1 .. (MaxEdits + 1) /\ Now.settings \in Settings
      BY <1>0 DEF TypeOK, Objects, Inputs
    <3>2. (IF SkipDecision(p, force) THEN "skip" ELSE "init") \in Steps
      BY DEF Steps
    <3> QED
      BY <1>0, <1>1, <3>1, <3>2 DEF Begin, Workers
  <2>2. object' \in Objects
    BY <1>1 DEF Begin, TypeOK, Objects
  <2> QED
    BY <1>1, <2>1, <2>2 DEF Begin, TypeOK, diskVars
<1>2. CASE ManualRetryFails
  BY <1>2, <1>o, <1>f DEF ManualRetryFails, TypeOK, diskVars
<1>3. ASSUME NEW p \in Pods, SetupFails(p)
      PROVE  TypeOK'
  BY <1>3, <1>w, <1>s, <1>f DEF SetupFails, At, TypeOK, objectVars, diskVars
<1>4. ASSUME NEW p \in Pods, SkipInit(p)
      PROVE  TypeOK'
  <2>1. worker' \in Workers
    BY <1>4, <1>w, <1>s DEF SkipInit, At
  <2>2. object' \in Objects /\ faults' \in 0 .. MaxFaults
    BY <1>4, <1>o, <1>t DEF SkipInit
  <2> QED
    BY <1>4, <2>1, <2>2 DEF SkipInit, TypeOK, diskVars
<1>5. ASSUME NEW p \in Pods, InitBegins(p)
      PROVE  TypeOK'
  <2>1. marker' \in [Pods -> Markers]
    BY <1>5 DEF InitBegins, TypeOK, Markers, InitMarkers
  <2>2. worker' \in Workers
    BY <1>5, <1>w, <1>s DEF InitBegins, At
  <2>3. object' \in Objects /\ faults' \in 0 .. MaxFaults
    BY <1>5, <1>o, <1>f DEF InitBegins, TypeOK
  <2> QED
    BY <1>5, <2>1, <2>2, <2>3 DEF InitBegins, TypeOK
<1>6. ASSUME NEW p \in Pods, InitEnds(p)
      PROVE  TypeOK'
  <2>1. dir' \in [Pods -> Directories]
    BY <1>6, <1>d DEF InitEnds, At, TypeOK
  <2> QED
    BY <1>6, <1>w, <1>s, <2>1 DEF InitEnds, At, TypeOK, objectVars
<1>n. ASSUME NEW p \in Pods, worker # None
      PROVE  NewFingerprint(p) \in Fingerprints
  <2>1. worker.inputs \in Inputs /\ worker.settings \in Settings
    BY <1>n DEF TypeOK, Workers
  <2>3. dir[p].lock \in Versions \cup {0}
    BY DEF TypeOK, Directories
  <2>2. [worker.inputs EXCEPT !.settings = worker.settings] \in Inputs
    BY <2>1 DEF Inputs
  <2> QED
    BY <2>2, <2>3 DEF NewFingerprint, Fingerprint, Fingerprints
<1>19. ASSUME NEW p \in Pods, Validate(p)
       PROVE  TypeOK'
  <2>1. object' \in Objects
    BY <1>19, <1>o DEF Validate
  <2>2. object.spec.settings \in Settings
    BY DEF TypeOK, Objects
  <2>3. worker' \in Workers
    BY <1>19, <2>2 DEF Validate, At, TypeOK, Workers, Steps
  <2> QED
    BY <1>19, <2>1, <2>3 DEF Validate, TypeOK, diskVars
<1>20. ASSUME NEW p \in Pods, ValidateFails(p)
       PROVE  TypeOK'
  <2>1. object' \in Objects
    BY <1>20, <1>o DEF ValidateFails, TypeOK
  <2> QED
    BY <1>20, <1>w, <1>s, <1>f, <2>1 DEF ValidateFails, At, TypeOK, diskVars
<1>21. ASSUME NEW p \in Pods, StoreFingerprint(p)
       PROVE  TypeOK'
  <2>1. NewFingerprint(p) \in Fingerprints
    BY <1>21, <1>n DEF StoreFingerprint, At
  <2>2. object' \in Objects
    BY <1>21, <2>1 DEF StoreFingerprint, TypeOK, Objects
  <2>3. object.generation \in 1 .. (MaxEdits + 1)
    BY DEF TypeOK, Objects
  <2>4. worker' \in Workers
    BY <1>21, <2>3 DEF StoreFingerprint, At, TypeOK, Workers, Steps
  <2> QED
    BY <1>21, <2>2, <2>4 DEF StoreFingerprint, TypeOK, diskVars
<1>22. ASSUME NEW p \in Pods, StoreFingerprintFails(p)
       PROVE  TypeOK'
  BY <1>22, <1>w, <1>s, <1>f DEF StoreFingerprintFails, At, TypeOK, objectVars, diskVars
<1>23. ASSUME NEW p \in Pods, WriteMarker(p)
       PROVE  TypeOK'
  <2>1. NewFingerprint(p) \in Fingerprints
    BY <1>23, <1>n DEF WriteMarker, At
  <2>2. worker.generation \in 1 .. (MaxEdits + 1) /\ worker.inputs.settings \in Settings
    BY <1>23 DEF Inputs, WriteMarker, At, TypeOK, Workers
  <2>3. [fingerprint |-> NewFingerprint(p), generation |-> worker.generation,
         thisBoot |-> TRUE, age |-> 0, tool |-> worker.inputs.settings] \in Markers
    BY <2>1, <2>2 DEF Markers, InitMarkers
  <2>4. marker' \in [Pods -> Markers]
    BY <1>23, <2>3 DEF WriteMarker, TypeOK
  <2>5. faults' \in 0 .. MaxFaults
    BY <1>23, <1>f DEF WriteMarker, TypeOK
  <2> QED
    BY <1>23, <1>w, <1>s, <2>4, <2>5 DEF WriteMarker, At, TypeOK, objectVars
<1>7. ASSUME NEW p \in Pods, InitFails(p)
      PROVE  TypeOK'
  <2>1. dir' \in [Pods -> Directories]
    BY <1>7, <1>d DEF InitFails, At, TypeOK
  <2> QED
    BY <1>7, <1>w, <1>s, <1>f, <2>1 DEF InitFails, At, TypeOK, objectVars
<1>8. ASSUME NEW p \in Pods, Finish(p)
      PROVE  TypeOK'
  <2>1. object' \in Objects
    BY <1>8, <1>k, <1>v DEF Finish
  <2> QED
    BY <1>8, <2>1 DEF Finish, Workers, TypeOK, diskVars
<1>9. ASSUME NEW p \in Pods, UseFails(p)
      PROVE  TypeOK'
  <2>1. object' \in Objects
    BY <1>9, <1>k, <1>v DEF UseFails
  <2> QED
    BY <1>9, <1>w, <1>s, <1>f, <2>1 DEF UseFails, At, TypeOK, diskVars
<1>10. ASSUME NEW p \in Pods, Errored(p)
       PROVE  TypeOK'
  <2>1. worker' \in Workers
    BY <1>10, <1>w, <1>s DEF Errored, At
  <2>2. object' \in Objects /\ faults' \in 0 .. MaxFaults
    BY <1>10, <1>o, <1>t DEF Errored
  <2> QED
    BY <1>10, <2>1, <2>2 DEF Errored, TypeOK, diskVars
<1>11. ASSUME NEW p \in Pods, Backoff(p)
       PROVE  TypeOK'
  <2>1. object' \in Objects /\ faults' \in 0 .. MaxFaults
    BY <1>11, <1>o, <1>t DEF Backoff
  <2> QED
    BY <1>11, <2>1 DEF Backoff, Workers, TypeOK, diskVars
<1>12. ASSUME NEW p \in Pods, Crash(p)
       PROVE  TypeOK'
  <2>1. dir' \in [Pods -> Directories]
    <3>1. CASE At(p, "initializing")
      BY <1>12, <1>d, <3>1 DEF Crash, At, TypeOK
    <3>2. CASE ~At(p, "initializing")
      BY <1>12, <3>2 DEF Crash, TypeOK
    <3> QED
      BY <3>1, <3>2
  <2>2. marker' \in [Pods -> Markers]
    BY <1>12 DEF Crash, TypeOK, Markers, InitMarkers
  <2> QED
    BY <1>12, <1>f, <2>1, <2>2 DEF Crash, Workers, TypeOK, objectVars
<1>13. ASSUME NEW s \in Specs, Edit(s)
       PROVE  TypeOK'
  <2>1. edits' \in 0 .. MaxEdits
    BY <1>13 DEF Edit, TypeOK
  <2>2. object.generation + 1 \in 1 .. (MaxEdits + 1)
    BY <1>13 DEF Edit, TypeOK, Objects, Bounded
  <2>3. object' \in Objects
    BY <1>13, <2>2 DEF Edit, TypeOK, Objects
  <2> QED
    BY <1>13, <2>1, <2>3 DEF Edit, TypeOK, diskVars
<1>14. ASSUME NEW e \in Envs, Rotate(e)
       PROVE  TypeOK'
  BY <1>14 DEF Rotate, TypeOK, diskVars
<1>15. ASSUME NEW p \in Pods, Recreate(p)
       PROVE  TypeOK'
  <2>1. \A i \in Starts : NewObject(i.spec) \in Objects
    BY DEF NewObject, Objects
  <2>2. NoDirectory \in Directories
    BY DEF NoDirectory, Directories
  <2>3. dir' \in [Pods -> Directories] /\ marker' \in [Pods -> Markers]
    BY <1>15, <2>2 DEF Recreate, TypeOK, Markers, InitMarkers
  <2>4. unstored' \in BOOLEAN
    BY <1>15 DEF Recreate
  <2> QED
    BY <1>15, <2>1, <2>3, <2>4 DEF Recreate, TypeOK
<1>16. CASE Release
  BY <1>16 DEF Release, TypeOK, Versions, objectVars, diskVars
<1>17. CASE Tick
  <2>1. \A v \in Updates : Out(v) \in 0 .. (Lag + 1)
    BY DEF Out, TypeOK, Lag
  <2>2. worker' \in Workers
    BY <1>17 DEF Tick, Recording, TypeOK, Workers
  <2> QED
    BY <1>17, <2>1, <2>2, OlderMarker DEF Tick, TypeOK, objectVars
<1>18. CASE UNCHANGED vars
  BY <1>18 DEF vars, TypeOK, objectVars, diskVars
<1> QED
  BY <1>1, <1>2, <1>3, <1>4, <1>5, <1>6, <1>7, <1>8, <1>9, <1>10, <1>11, <1>12, <1>13, <1>14,
     <1>15, <1>16, <1>17, <1>18, <1>19, <1>20, <1>21, <1>22, <1>23 DEF Next, Reconcile

\* Every step keeps generations within the edits.
LEMMA BoundStep ==
  ASSUME TypeOK, Bounded, [Next]_vars
  PROVE  Bounded'
<1> USE SettingAssumption, NumbersAssumption
<1>1. CASE UNCHANGED object /\ edits' \in {edits, edits + 1}
  BY <1>1 DEF Bounded, TypeOK, Objects
<1>2. CASE object'.generation = object.generation /\ UNCHANGED edits
  BY <1>2 DEF Bounded
<1>3. CASE object'.generation \in {1, object.generation + 1} /\ edits' = edits + 1
  BY <1>3 DEF Bounded, TypeOK, Objects
<1>t. \A o : o.generation = object.generation /\ TryWrite(o)
              => object'.generation = object.generation
  BY DEF TryWrite
<1>e. /\ \A c : [object EXCEPT !.completed = c].generation = object.generation
      /\ \A r : [object EXCEPT !.retrying = r].generation = object.generation
      /\ \A v : [object EXCEPT !.valid = v].generation = object.generation
      /\ \A c, r : [object EXCEPT !.completed = c, !.retrying = r].generation
                  = object.generation
      /\ \A f : [object EXCEPT !.fingerprint = f].generation = object.generation
  BY DEF TypeOK, Objects
<1>k. ASSUME NEW o \in Worked
      PROVE  o.generation = object.generation /\ Observed(o).generation = object.generation
  <2>1. \E c \in BOOLEAN : \/ o = [object EXCEPT !.completed = c]
                           \/ o = [object EXCEPT !.completed = c, !.retrying = FALSE]
    BY DEF Worked
  <2> QED
    BY <2>1 DEF Observed, TypeOK, Objects
<1>4. ASSUME NEW p \in Pods, Reconcile(p)
      PROVE  object'.generation = object.generation /\ UNCHANGED edits
  <2>1. CASE \E force \in BOOLEAN : Begin(p, force)
    BY <2>1 DEF Begin, TypeOK, Objects
  <2>2. CASE SetupFails(p)
    BY <2>2 DEF SetupFails, objectVars
  <2>3. CASE SkipInit(p)
    BY <2>3, <1>e, <1>t DEF SkipInit
  <2>4. CASE InitBegins(p)
    BY <2>4, <1>e, <1>t DEF InitBegins
  <2>5. CASE InitEnds(p)
    BY <2>5 DEF InitEnds, objectVars
  <2>6. CASE InitFails(p)
    BY <2>6 DEF InitFails, objectVars
  <2>7. CASE Finish(p)
    BY <2>7, <1>k DEF Finish
  <2>8. CASE UseFails(p)
    BY <2>8, <1>k DEF UseFails
  <2>9. CASE Errored(p)
    BY <2>9, <1>e, <1>t DEF Errored
  <2>10. CASE Backoff(p)
    BY <2>10, <1>e, <1>t DEF Backoff
  <2>11. CASE Validate(p) \/ ValidateFails(p)
    BY <2>11, <1>e DEF Validate, ValidateFails
  <2>12. CASE StoreFingerprint(p)
    BY <2>12, <1>e DEF StoreFingerprint
  <2>13. CASE StoreFingerprintFails(p) \/ WriteMarker(p)
    BY <2>13 DEF StoreFingerprintFails, WriteMarker, objectVars
  <2> QED
    BY <1>4, <2>1, <2>2, <2>3, <2>4, <2>5, <2>6, <2>7, <2>8, <2>9, <2>10, <2>11, <2>12, <2>13
    DEF Reconcile
<1>5. ASSUME NEW s \in Specs, Edit(s)
      PROVE  object'.generation = object.generation + 1 /\ edits' = edits + 1
  BY <1>5 DEF Edit, TypeOK, Objects
<1>6. ASSUME NEW p \in Pods, Recreate(p)
      PROVE  object'.generation = 1 /\ edits' = edits + 1
  BY <1>6 DEF Recreate, NewObject
<1>7. ManualRetryFails => object'.generation = object.generation /\ UNCHANGED edits
  BY <1>e DEF ManualRetryFails
<1>8. (\E e \in Envs : Rotate(e)) => UNCHANGED object /\ edits' = edits + 1
  BY DEF Rotate
<1>9. (\E p \in Pods : Crash(p)) \/ Release \/ Tick \/ UNCHANGED vars => UNCHANGED <<object, edits>>
  BY DEF Crash, Release, Tick, vars, objectVars
<1> QED
  BY <1>1, <1>2, <1>3, <1>4, <1>5, <1>6, <1>7, <1>8, <1>9 DEF Next

\* Every variable keeps its type: ages stay within the interval and one tick.
\* [InitMarker, WorkspaceStatus]
THEOREM TypeInvariant == Spec => []TypeOK
<1>1. Init => TypeOK /\ Bounded
  <2>1. Init => Bounded
    BY DEF Init, NewObject, Bounded
  <2> QED
    BY <2>1, InitType
<1>2. TypeOK /\ Bounded /\ [Next]_vars => TypeOK' /\ Bounded'
  BY TypeStep, BoundStep
<1> QED
  BY <1>1, <1>2, PTL DEF Spec

-----------------------------------------------------------------------------
(* What an installation was made from *)

\* A step of p's worker, by its fields.
LEMMA Gone ==
  ASSUME TypeOK, NEW p \in Pods, NEW s, NEW t \in Steps, At(p, s), GoTo(t)
  PROVE  /\ worker # None /\ worker.pod = p /\ worker.step = s /\ worker.inputs \in Inputs
         /\ worker'.pod = p /\ worker'.step = t /\ worker'.inputs = worker.inputs
         /\ worker'.delay = 0
<1>1. worker \in [pod : Pods, step : Steps, inputs : Inputs, settings : Settings,
                  generation : 1 .. (MaxEdits + 1), delay : 0 .. Delay]
  BY DEF TypeOK, Workers, At
<1> QED
  BY <1>1 DEF At, GoTo

\* The steps between an init and its marker leave the worker on its pod.
LEMMA Recorded ==
  ASSUME TypeOK, NEW p \in Pods, Validate(p) \/ StoreFingerprint(p)
  PROVE  /\ worker # None /\ worker.pod = p
         /\ worker'.pod = p /\ worker'.inputs = worker.inputs /\ worker'.delay = worker.delay
         /\ Validate(p) => worker.step = "installed" /\ worker'.step = "validated"
         /\ StoreFingerprint(p) => worker.step = "validated" /\ worker'.step = "recorded"
<1>1. worker \in [pod : Pods, step : Steps, inputs : Inputs, settings : Settings,
                  generation : 1 .. (MaxEdits + 1), delay : 0 .. Delay]
  BY DEF TypeOK, Workers, At, Validate, StoreFingerprint
<1> QED
  BY <1>1 DEF At, Validate, StoreFingerprint

\* Time passes for the worker, and leaves it where it is.
LEMMA Ticked ==
  ASSUME TypeOK, Tick, worker # None
  PROVE  /\ worker'.pod = worker.pod /\ worker'.step = worker.step
         /\ worker'.inputs = worker.inputs /\ worker.pod \in Pods
         /\ Recording => worker'.delay = worker.delay + 1
<1>1. worker \in [pod : Pods, step : Steps, inputs : Inputs, settings : Settings,
                  generation : 1 .. (MaxEdits + 1), delay : 0 .. Delay]
  BY DEF TypeOK, Workers
<1>2. worker' = worker \/ worker' = [worker EXCEPT !.delay = @ + 1]
  BY DEF Tick
<1> QED
  BY <1>1, <1>2 DEF Tick

\* Every step keeps what markers and the worker's step say of the installations:
\* between the removal of a marker and the next one, only init touches them.
LEMMA VouchedStep ==
  ASSUME MarkersRemoved, TypeOK, Vouched, [Next]_vars
  PROVE  Vouched'
<1> DEFINE Fits(q, inputs) == Holds(q, inputs) /\ (MadeFor(q, inputs) \/ Swapped(q))
<1> DEFINE Speaks(q) ==
      marker[q] # None => /\ Fits(q, marker[q].fingerprint.inputs)
                          /\ dir[q].lock = marker[q].fingerprint.lock
<1> DEFINE Keeps ==
      worker # None =>
        /\ worker.step = "initializing" \/ Recording => marker[worker.pod] = None
        /\ Recording => MadeFor(worker.pod, worker.inputs)
        /\ worker.step \in {"skip", "using"} => Fits(worker.pod, worker.inputs)
<1>a. (\A q \in Pods : Speaks(q)) /\ Keeps
  BY DEF Vouched
<1>b. SUFFICES (\A q \in Pods : Speaks(q)') /\ Keeps'
  BY DEF Vouched
<1>s. {"init", "skip", "initializing", "installed", "validated", "recorded", "using",
       "errored", "backoff"} \subseteq Steps
  BY DEF Steps
<1>c. UNCHANGED diskVars => \A q \in Pods : Speaks(q)'
  BY <1>a DEF diskVars, Holds, MadeFor, Swapped
<1>d. UNCHANGED <<diskVars, worker>> => Keeps'
  BY <1>a DEF diskVars, Holds, MadeFor, Swapped, Recording
<1>e. worker' = None => Keeps'
  OBVIOUS
<1>f. worker'.step \in {"init", "errored", "backoff"} => Keeps'
  BY DEF Recording
<1>h. \A q \in Pods : UNCHANGED <<dir[q], marker[q]>> => Speaks(q)'
  BY <1>a DEF Holds, MadeFor, Swapped
<1> HIDE DEF Speaks, Keeps
<1>g. ASSUME NEW p \in Pods, NEW s, NEW t \in {"errored", "backoff"}, At(p, s), GoTo(t)
      PROVE  Keeps'
  BY <1>f, <1>g, <1>s, Gone
<1>1. ASSUME NEW p \in Pods, NEW force \in BOOLEAN, Begin(p, force)
      PROVE  (\A q \in Pods : Speaks(q)') /\ Keeps'
  <2>1. worker'.pod = p /\ worker'.inputs = Now /\ UNCHANGED diskVars
    BY <1>1 DEF Begin
  <2>2. CASE worker'.step = "skip"
    <3>1. SkipDecision(p, force)
      BY <1>1, <2>2 DEF Begin
    <3>2. marker[p] # None /\ marker[p].fingerprint.inputs = Now
      BY <3>1 DEF SkipDecision, Fingerprint
    <3>3. Fits(p, Now)
      BY <3>2, <1>a DEF Speaks
    <3>4. UNCHANGED <<dir, marker>>
      BY <2>1 DEF diskVars
    <3>5. Keeps'
      BY <2>1, <2>2, <3>3, <3>4 DEF Keeps, Holds, MadeFor, Swapped, Recording
    <3> QED
      BY <2>1, <3>5, <1>c
  <2>3. CASE worker'.step = "init"
    BY <2>1, <2>3, <1>c, <1>f
  <2> QED
    BY <1>1, <2>2, <2>3 DEF Begin
<1>2. CASE ManualRetryFails
  BY <1>2, <1>c, <1>d DEF ManualRetryFails
<1>3. ASSUME NEW p \in Pods, SetupFails(p)
      PROVE  (\A q \in Pods : Speaks(q)') /\ Keeps'
  BY <1>3, <1>c, <1>g DEF SetupFails
<1>4. ASSUME NEW p \in Pods, SkipInit(p)
      PROVE  (\A q \in Pods : Speaks(q)') /\ Keeps'
  <2>1. At(p, "skip") /\ GoTo("using") /\ UNCHANGED diskVars
    BY <1>4 DEF SkipInit
  <2>2. Fits(p, worker.inputs)
    BY <1>a, <1>s, <2>1, Gone DEF Keeps
  <2>3. UNCHANGED <<dir, marker>>
    BY <2>1 DEF diskVars
  <2>4. Keeps'
    BY <1>s, <2>1, <2>2, <2>3, Gone DEF Keeps, Holds, MadeFor, Swapped, Recording
  <2> QED
    BY <1>c, <2>1, <2>4
<1>5. ASSUME NEW p \in Pods, InitBegins(p)
      PROVE  (\A q \in Pods : Speaks(q)') /\ Keeps'
  <2>1. At(p, "init") /\ GoTo("initializing") /\ UNCHANGED dir
    BY <1>5 DEF InitBegins
  <2>2. marker' = [marker EXCEPT ![p] = None]
    BY <1>5 DEF InitBegins, MarkersRemoved
  <2>3. marker'[p] = None /\ \A q \in Pods \ {p} : marker'[q] = marker[q]
    BY <2>2 DEF TypeOK
  <2>4. Keeps'
    BY <1>s, <2>1, <2>3, Gone DEF Keeps, Recording
  <2>5. \A q \in Pods : Speaks(q)'
    BY <1>h, <2>1, <2>3 DEF Speaks
  <2> QED
    BY <2>4, <2>5
<1>6. ASSUME NEW p \in Pods, InitEnds(p)
      PROVE  (\A q \in Pods : Speaks(q)') /\ Keeps'
  <2>1. /\ At(p, "initializing") /\ GoTo("installed")
        /\ dir' = [dir EXCEPT ![p] = Installed] /\ UNCHANGED marker
    BY <1>6 DEF InitEnds
  <2>2. dir'[p] = Installed /\ \A q \in Pods \ {p} : dir'[q] = dir[q]
    BY <2>1 DEF TypeOK
  <2>3. marker'[p] = None
    BY <1>a, <1>s, <2>1, Gone DEF Keeps
  <2>4. \A q \in Pods : Speaks(q)'
    BY <1>h, <2>1, <2>2, <2>3 DEF Speaks
  <2>5. Keeps'
    BY <1>s, <2>1, <2>2, <2>3, Gone DEF Keeps, Holds, MadeFor, Installed, Recording
  <2> QED
    BY <2>4, <2>5
<1>19. ASSUME NEW p \in Pods, Validate(p) \/ StoreFingerprint(p)
       PROVE  (\A q \in Pods : Speaks(q)') /\ Keeps'
  <2>1. /\ worker # None /\ worker.pod = p /\ Recording
        /\ worker'.pod = p /\ worker'.inputs = worker.inputs
        /\ worker'.step \in {"validated", "recorded"}
    BY <1>19, Recorded DEF Recording
  <2>2. marker[p] = None /\ MadeFor(p, worker.inputs)
    BY <1>a, <2>1 DEF Keeps
  <2>3. UNCHANGED <<dir, marker>>
    BY <1>19 DEF Validate, StoreFingerprint, diskVars
  <2>4. Keeps'
    BY <2>1, <2>2, <2>3 DEF Keeps, Holds, MadeFor
  <2> QED
    BY <1>c, <2>3, <2>4 DEF diskVars
<1>20. ASSUME NEW p \in Pods, ValidateFails(p)
       PROVE  (\A q \in Pods : Speaks(q)') /\ Keeps'
  BY <1>20, <1>c, <1>g DEF ValidateFails
<1>21. ASSUME NEW p \in Pods, StoreFingerprintFails(p) \/ WriteMarker(p)
       PROVE  (\A q \in Pods : Speaks(q)') /\ Keeps'
  <2>1. PICK s \in {"validated", "recorded"} : At(p, s) /\ GoTo("using") /\ UNCHANGED dir
    BY <1>21 DEF StoreFingerprintFails, WriteMarker, diskVars
  <2>2. marker[p] = None /\ MadeFor(p, worker.inputs)
    BY <1>a, <1>s, <2>1, Gone DEF Keeps, Recording
  <2>3. Keeps'
    BY <1>s, <2>1, <2>2, Gone DEF Keeps, Holds, MadeFor, Recording
  <2>4. \A q \in Pods \ {p} : marker'[q] = marker[q]
    BY <1>21 DEF StoreFingerprintFails, WriteMarker, diskVars, TypeOK
  <2>5. \A q \in Pods \ {p} : Speaks(q)'
    BY <1>h, <2>1, <2>4
  <2>6. CASE marker'[p] = None
    BY <2>3, <2>5, <2>6 DEF Speaks
  <2>7. CASE marker'[p] =
               [fingerprint |-> NewFingerprint(p), generation |-> worker.generation,
                thisBoot |-> TRUE, age |-> 0, tool |-> worker.inputs.settings]
    <3> DEFINE new == [worker.inputs EXCEPT !.settings = worker.settings]
    <3>1. /\ marker'[p].fingerprint.inputs = new
          /\ marker'[p].fingerprint.lock = dir[p].lock
          /\ marker'[p].tool = worker.inputs.settings
      BY <2>7 DEF NewFingerprint, Fingerprint
    <3>2. /\ new.main = worker.inputs.main /\ new.env = worker.inputs.env
          /\ new.settings = worker.settings
      BY <1>s, <2>1, Gone DEF Inputs
    <3> HIDE DEF new
    <3>3. Holds(p, new)
      BY <2>2, <3>2 DEF Holds, MadeFor
    <3>4. worker.settings = worker.inputs.settings => MadeFor(p, new)
      BY <2>2, <3>2 DEF Holds, MadeFor
    <3>5. Speaks(p)'
      BY <2>1, <3>1, <3>2, <3>3, <3>4 DEF Speaks, Holds, MadeFor, Swapped
    <3> QED
      BY <2>3, <2>5, <3>5
  <2>8. \/ marker'[p] = None
        \/ marker'[p] =
             [fingerprint |-> NewFingerprint(p), generation |-> worker.generation,
              thisBoot |-> TRUE, age |-> 0, tool |-> worker.inputs.settings]
    BY <1>21, <2>2 DEF StoreFingerprintFails, WriteMarker, diskVars, TypeOK
  <2> QED
    BY <2>6, <2>7, <2>8
<1>7. ASSUME NEW p \in Pods, InitFails(p)
      PROVE  (\A q \in Pods : Speaks(q)') /\ Keeps'
  <2>1. At(p, "initializing") /\ GoTo("errored") /\ UNCHANGED marker
    BY <1>7 DEF InitFails
  <2>2. \A q \in Pods \ {p} : dir'[q] = dir[q]
    BY <1>7 DEF InitFails, TypeOK
  <2>3. marker'[p] = None
    BY <1>a, <1>s, <2>1, Gone DEF Keeps
  <2>4. \A q \in Pods : Speaks(q)'
    BY <1>h, <2>1, <2>2, <2>3 DEF Speaks
  <2> QED
    BY <1>g, <2>1, <2>4
<1>8. ASSUME NEW p \in Pods, Finish(p)
      PROVE  (\A q \in Pods : Speaks(q)') /\ Keeps'
  BY <1>8, <1>c, <1>e DEF Finish
<1>9. ASSUME NEW p \in Pods, UseFails(p)
      PROVE  (\A q \in Pods : Speaks(q)') /\ Keeps'
  BY <1>9, <1>c, <1>g DEF UseFails
<1>10. ASSUME NEW p \in Pods, Errored(p)
       PROVE  (\A q \in Pods : Speaks(q)') /\ Keeps'
  BY <1>10, <1>c, <1>g DEF Errored
<1>11. ASSUME NEW p \in Pods, Backoff(p)
       PROVE  (\A q \in Pods : Speaks(q)') /\ Keeps'
  BY <1>11, <1>c, <1>e DEF Backoff
<1>12. ASSUME NEW p \in Pods, Crash(p)
       PROVE  (\A q \in Pods : Speaks(q)') /\ Keeps'
  <2>1. \A q \in Pods \ {p} : marker'[q] = marker[q]
    BY <1>12 DEF Crash, TypeOK
  <2>2. marker'[p] # None =>
          /\ marker[p] # None /\ marker'[p].fingerprint = marker[p].fingerprint
          /\ marker'[p].tool = marker[p].tool
    BY <1>12 DEF Crash, TypeOK, Markers, InitMarkers
  <2>3. CASE At(p, "initializing")
    <3>1. marker'[p] = None
      <4>1. marker[p] = None
        BY <1>a, <2>3 DEF Keeps, At
      <4> QED
        BY <2>2, <4>1
    <3>2. worker' = None
      BY <1>12, <2>3 DEF Crash, At
    <3>3. \A q \in Pods \ {p} : dir'[q] = dir[q]
      BY <1>12, <2>3 DEF Crash, TypeOK
    <3> QED
      BY <1>e, <1>h, <2>1, <3>1, <3>2, <3>3 DEF Speaks
  <2>4. CASE ~At(p, "initializing")
    <3>1. UNCHANGED dir
      BY <1>12, <2>4 DEF Crash
    <3>2. \A q \in Pods : Speaks(q)'
      <4>1. Speaks(p)'
        BY <1>a, <2>2, <3>1 DEF Speaks, Holds, MadeFor, Swapped
      <4> QED
        BY <1>h, <2>1, <3>1, <4>1
    <3>3. CASE worker # None /\ worker.pod # p
      <4>1. UNCHANGED worker /\ worker.pod \in Pods \ {p}
        BY <1>12, <3>3 DEF Crash, TypeOK, Workers
      <4>2. Keeps'
        BY <1>a, <2>1, <3>1, <4>1 DEF Keeps, Holds, MadeFor, Swapped, Recording
      <4> QED
        BY <3>2, <4>2
    <3>4. CASE worker = None \/ worker.pod = p
      <4>1. worker' = None
        BY <1>12, <3>4 DEF Crash
      <4> QED
        BY <1>e, <3>2, <4>1
    <3> QED
      BY <3>3, <3>4
  <2> QED
    BY <2>3, <2>4
<1>13. CASE \E s \in Specs : Edit(s)
  BY <1>13, <1>c, <1>d DEF Edit
<1>14. CASE \E e \in Envs : Rotate(e)
  BY <1>14, <1>c, <1>d DEF Rotate
<1>15. ASSUME NEW p \in Pods, Recreate(p)
       PROVE  (\A q \in Pods : Speaks(q)') /\ Keeps'
  <2>1. worker' = None
    BY <1>15 DEF Recreate
  <2>2. /\ marker'[p] = None
        /\ \A q \in Pods \ {p} : dir'[q] = dir[q] /\ marker'[q] = marker[q]
    BY <1>15 DEF Recreate, TypeOK
  <2> QED
    BY <1>e, <1>h, <2>1, <2>2 DEF Speaks
<1>16. CASE Release
  BY <1>16, <1>c, <1>d DEF Release
<1>17. CASE Tick
  <2>1. \A q \in Pods : marker'[q] # None =>
          /\ marker[q] # None /\ marker'[q].fingerprint = marker[q].fingerprint
          /\ marker'[q].tool = marker[q].tool
    BY <1>17, OlderMarker DEF Tick, TypeOK
  <2>2. UNCHANGED dir
    BY <1>17 DEF Tick
  <2>3. \A q \in Pods : Speaks(q)'
    BY <1>a, <2>1, <2>2 DEF Speaks, Holds, MadeFor, Swapped
  <2>4. \A q \in Pods : Swapped(q) => Swapped(q)'
    BY <1>17, MarkerStays DEF Tick, TypeOK, Swapped
  <2>5. CASE worker # None
    <3>1. /\ worker'.pod = worker.pod /\ worker'.step = worker.step
          /\ worker'.inputs = worker.inputs /\ worker.pod \in Pods
      BY <1>17, <2>5, Ticked
    <3>2. /\ \A q : Holds(q, worker.inputs) => Holds(q, worker.inputs)'
          /\ \A q : MadeFor(q, worker.inputs) => MadeFor(q, worker.inputs)'
      <4>1. dir' = dir
        BY <2>2
      <4> QED
        BY <3>1, <4>1 DEF Holds, MadeFor
    <3>3. Recording' => Recording
      BY <2>5, <3>1 DEF Recording
    <3>4. Keeps'
      BY <1>a, <2>1, <2>4, <2>5, <3>1, <3>2, <3>3 DEF Keeps
    <3> QED
      BY <2>3, <3>4
  <2>6. CASE worker = None
    <3>1. worker' = None
      BY <1>17, <2>6 DEF Tick, Recording
    <3> QED
      BY <1>e, <2>3, <3>1
  <2> QED
    BY <2>3, <2>5, <2>6
<1>18. CASE UNCHANGED vars
  BY <1>18, <1>c, <1>d DEF vars
<1> QED
  BY <1>1, <1>2, <1>3, <1>4, <1>5, <1>6, <1>7, <1>8, <1>9, <1>10, <1>11, <1>12, <1>13, <1>14,
     <1>15, <1>16, <1>17, <1>18, <1>19, <1>20, <1>21 DEF Next, Reconcile

\* A plan or an apply works with what was installed for its own main.tf and
\* environment, and with its own settings of the tool, unless those were edited
\* while it was installed, if markers are always removed before an init: an edit or
\* a new secret in mid-reconcile, a crash, a failed init or another replica make no
\* other marker speak of an installation it was not written for.
\* [recordSuccessfulInit, WriteInitMarker, RemoveInitMarker, initSkipDecision]
THEOREM WorksWithItsInputs ==
  ASSUME MarkersRemoved
  PROVE  Spec => []UsesItsInputs
<1>1. Init => TypeOK /\ Bounded /\ Vouched
  <2>1. Init => Bounded /\ Vouched
    BY DEF Init, NewObject, Bounded, Vouched
  <2> QED
    BY <2>1, InitType
<1>2. TypeOK /\ Bounded /\ Vouched /\ [Next]_vars => TypeOK' /\ Bounded' /\ Vouched'
  BY MarkersRemoved, TypeStep, BoundStep, VouchedStep
<1>3. Vouched => UsesItsInputs
  BY DEF Vouched, Holds, MadeFor, Swapped, UsesItsInputs
<1> QED
  BY <1>1, <1>2, <1>3, PTL DEF Spec

-----------------------------------------------------------------------------
(* The installation is the latest *)

\* Every step keeps the fingerprint in the status that of the last init, when the
\* phase says that an init went well, and what is worked with as well.
LEMMA LatestStep ==
  ASSUME PhaseStored, TypeOK, Latest, [Next]_vars
  PROVE  Latest'
<1> USE DEF initVars, Current
<1> DEFINE Works ==
      worker # None =>
        /\ worker.step \in {"initializing", "installed", "validated"} => ~object.completed
        /\ worker.step \in {"installed", "validated"} => dir[worker.pod].lock = lastInit
        /\ worker.step \in {"skip", "recorded", "using"} =>
             (dir[worker.pod].lock = lastInit \/ unstored) /\ Current
<1>a. (object.completed => Current) /\ Works
  BY DEF Latest
<1>b. SUFFICES (object.completed => Current)' /\ Works'
  BY DEF Latest
<1> DEFINE Same == /\ object'.fingerprint = object.fingerprint
                   /\ object'.completed => object.completed
<1>s. {"init", "skip", "initializing", "installed", "validated", "recorded", "using",
       "errored", "backoff"} \subseteq Steps
  BY DEF Steps
<1>c. Same /\ UNCHANGED initVars => (object.completed => Current)'
  BY <1>a
<1>d. Same /\ UNCHANGED <<dir, worker, initVars>> => Works'
  BY <1>a
<1>e. worker' = None \/ worker'.step \in {"init", "errored", "backoff"} => Works'
  OBVIOUS
<1>u. UNCHANGED object => Same
  OBVIOUS
<1>f. /\ \A o : /\ o.fingerprint = object.fingerprint /\ (o.completed => object.completed)
                /\ object' = o \/ TryWrite(o)
             => Same
      /\ [object EXCEPT !.completed = FALSE].fingerprint = object.fingerprint
      /\ [object EXCEPT !.completed = FALSE].completed = FALSE
      /\ \A r : /\ [object EXCEPT !.retrying = r].fingerprint = object.fingerprint
              /\ [object EXCEPT !.retrying = r].completed = object.completed
      /\ \A v : /\ [object EXCEPT !.valid = v].fingerprint = object.fingerprint
              /\ [object EXCEPT !.valid = v].completed = object.completed
      /\ \A f : /\ [object EXCEPT !.fingerprint = f].fingerprint = f
              /\ [object EXCEPT !.fingerprint = f].completed = object.completed
  BY DEF TypeOK, Objects, TryWrite
<1> HIDE DEF Works, Same
<1>g. ASSUME NEW p \in Pods, NEW s, NEW t \in {"errored", "backoff"}, At(p, s), GoTo(t)
      PROVE  Works'
  BY <1>e, <1>g, <1>s, Gone
<1>k. ASSUME NEW o \in Worked
      PROVE  o.fingerprint = object.fingerprint /\ Observed(o).fingerprint = object.fingerprint
  <2>1. \E c \in BOOLEAN : \/ o = [object EXCEPT !.completed = c]
                           \/ o = [object EXCEPT !.completed = c, !.retrying = FALSE]
    BY DEF Worked
  <2> QED
    BY <2>1 DEF Observed, TypeOK, Objects
<1>1. ASSUME NEW p \in Pods, NEW force \in BOOLEAN, Begin(p, force)
      PROVE  (object.completed => Current)' /\ Works'
  <2>1. worker'.pod = p /\ UNCHANGED <<dir, initVars>>
    BY <1>1 DEF Begin, diskVars
  <2>2. Same
    BY <1>1 DEF Begin, Same, TypeOK, Objects
  <2>3. CASE worker'.step = "skip"
    <3>1. SkipDecision(p, force)
      BY <1>1, <2>3 DEF Begin
    <3>2. /\ marker[p] # None /\ marker[p].fingerprint.lock = dir[p].lock
          /\ object.completed /\ object.fingerprint = marker[p].fingerprint
      BY <3>1 DEF SkipDecision, Fingerprint
    <3>3. marker[p].fingerprint \in Fingerprints
      BY <3>2 DEF TypeOK, Markers, InitMarkers
    <3>4. Current /\ (dir[p].lock = lastInit \/ unstored)
      BY <3>2, <3>3, <1>a, NoRecordAssumption
    <3>5. Works'
      BY <2>1, <2>2, <2>3, <3>4 DEF Works, Same
    <3> QED
      BY <1>c, <2>1, <2>2, <3>5
  <2>4. CASE worker'.step = "init"
    BY <1>c, <1>e, <2>1, <2>2, <2>4
  <2> QED
    BY <1>1, <2>3, <2>4 DEF Begin
<1>2. CASE ManualRetryFails
  BY <1>2, <1>c, <1>d, <1>f DEF ManualRetryFails, diskVars
<1>3. ASSUME NEW p \in Pods, SetupFails(p)
      PROVE  (object.completed => Current)' /\ Works'
  BY <1>3, <1>c, <1>g, <1>u DEF SetupFails, objectVars
<1>4. ASSUME NEW p \in Pods, SkipInit(p)
      PROVE  (object.completed => Current)' /\ Works'
  <2>1. At(p, "skip") /\ GoTo("using") /\ UNCHANGED <<dir, initVars>>
    BY <1>4 DEF SkipInit, diskVars
  <2>2. Same
    BY <1>4, <1>f DEF SkipInit
  <2>3. Current /\ (dir[p].lock = lastInit \/ unstored)
    BY <1>a, <1>s, <2>1, Gone DEF Works
  <2>4. Works'
    BY <1>s, <2>1, <2>2, <2>3, Gone DEF Works, Same
  <2> QED
    BY <1>c, <2>1, <2>2, <2>4
<1>5. ASSUME NEW p \in Pods, InitBegins(p)
      PROVE  (object.completed => Current)' /\ Works'
  <2>1. At(p, "init") /\ GoTo("initializing") /\ UNCHANGED initVars
    BY <1>5 DEF InitBegins
  <2>2. object' = [object EXCEPT !.completed = FALSE]
    BY <1>5, "phase" \notin Losable DEF InitBegins, PhaseStored
  <2>3. ~object'.completed
    BY <1>f, <2>2
  <2>4. Works'
    BY <1>s, <2>1, <2>3, Gone DEF Works
  <2> QED
    BY <2>3, <2>4
<1>6. ASSUME NEW p \in Pods, InitEnds(p)
      PROVE  (object.completed => Current)' /\ Works'
  <2>1. At(p, "initializing") /\ GoTo("installed") /\ UNCHANGED object
    BY <1>6 DEF InitEnds, objectVars
  <2>2. lastInit' = upstream /\ dir'[p].lock = upstream
    BY <1>6 DEF InitEnds, TypeOK, Installed
  <2>3. ~object'.completed
    BY <1>a, <1>s, <2>1, Gone DEF Works
  <2>4. Works'
    BY <1>s, <2>1, <2>2, <2>3, Gone DEF Works
  <2> QED
    BY <2>3, <2>4
<1>7. ASSUME NEW p \in Pods, InitFails(p)
      PROVE  (object.completed => Current)' /\ Works'
  BY <1>7, <1>c, <1>g, <1>u DEF InitFails, objectVars
<1>19. ASSUME NEW p \in Pods, Validate(p)
       PROVE  (object.completed => Current)' /\ Works'
  <2>1. Same /\ UNCHANGED <<dir, initVars>>
    BY <1>19, <1>f DEF Validate, diskVars
  <2>2. /\ worker # None /\ worker.pod = p /\ worker.step = "installed"
        /\ worker'.pod = p /\ worker'.step = "validated"
    BY <1>19, Recorded
  <2>3. Works'
    BY <1>a, <2>1, <2>2 DEF Works, Same
  <2> QED
    BY <1>c, <2>1, <2>3
<1>20. ASSUME NEW p \in Pods, ValidateFails(p)
       PROVE  (object.completed => Current)' /\ Works'
  <2>1. Same
    BY <1>20, <1>f, <1>u DEF ValidateFails
  <2> QED
    BY <1>20, <1>c, <1>g, <2>1 DEF ValidateFails
<1>21. ASSUME NEW p \in Pods, StoreFingerprint(p)
       PROVE  (object.completed => Current)' /\ Works'
  <2>1. /\ worker # None /\ worker.pod = p /\ worker.step = "validated"
        /\ worker'.pod = p /\ worker'.step = "recorded"
    BY <1>21, Recorded
  <2>2. dir[p].lock = lastInit /\ UNCHANGED <<dir, lastInit>>
    BY <1>21, <1>a, <2>1 DEF StoreFingerprint, diskVars, Works
  <2>3. object'.fingerprint.lock = dir[p].lock
    BY <1>21, <1>f DEF StoreFingerprint, NewFingerprint, Fingerprint
  <2>4. Works'
    BY <2>1, <2>2, <2>3 DEF Works
  <2> QED
    BY <2>2, <2>3, <2>4
<1>22. ASSUME NEW p \in Pods, StoreFingerprintFails(p)
       PROVE  (object.completed => Current)' /\ Works'
  <2>1. At(p, "validated") /\ GoTo("using") /\ unstored'
    BY <1>22 DEF StoreFingerprintFails
  <2>2. Works'
    BY <1>s, <2>1, Gone DEF Works, Current
  <2> QED
    BY <2>1, <2>2 DEF Current
<1>23. ASSUME NEW p \in Pods, WriteMarker(p)
       PROVE  (object.completed => Current)' /\ Works'
  <2>1. At(p, "recorded") /\ GoTo("using") /\ UNCHANGED <<object, dir, initVars>>
    BY <1>23 DEF WriteMarker, objectVars
  <2>2. Current /\ (dir[p].lock = lastInit \/ unstored)
    BY <1>a, <1>s, <2>1, Gone DEF Works
  <2>3. Works'
    BY <1>s, <2>1, <2>2, Gone DEF Works
  <2> QED
    BY <1>c, <1>u, <2>1, <2>3
<1>8. ASSUME NEW p \in Pods, Finish(p) \/ UseFails(p)
      PROVE  (object.completed => Current)' /\ Works'
  <2>1. At(p, "using") /\ UNCHANGED <<dir, initVars>>
    BY <1>8 DEF Finish, UseFails, diskVars
  <2>2. Current
    BY <1>a, <2>1 DEF Works, At
  <2>3. object'.fingerprint = object.fingerprint
    BY <1>8, <1>k DEF Finish, UseFails
  <2>4. Works'
    BY <1>8, <1>e, <1>g DEF Finish, UseFails
  <2> QED
    BY <2>1, <2>2, <2>3, <2>4
<1>10. ASSUME NEW p \in Pods, Errored(p)
       PROVE  (object.completed => Current)' /\ Works'
  <2>1. Same
    BY <1>10, <1>f DEF Errored
  <2> QED
    BY <1>10, <1>c, <1>g, <2>1 DEF Errored
<1>11. ASSUME NEW p \in Pods, Backoff(p)
       PROVE  (object.completed => Current)' /\ Works'
  <2>1. Same
    BY <1>11, <1>f DEF Backoff
  <2> QED
    BY <1>11, <1>c, <1>e, <2>1 DEF Backoff
<1>12. ASSUME NEW p \in Pods, Crash(p)
       PROVE  (object.completed => Current)' /\ Works'
  <2>1. Same /\ UNCHANGED initVars
    BY <1>12, <1>u DEF Crash, objectVars
  <2>2. CASE worker # None /\ worker.pod # p
    <3>1. UNCHANGED <<dir, worker>>
      BY <1>12, <2>2 DEF Crash, At
    <3> QED
      BY <1>c, <1>d, <2>1, <3>1
  <2>3. CASE worker = None \/ worker.pod = p
    <3>1. worker' = None
      BY <1>12, <2>3 DEF Crash
    <3> QED
      BY <1>c, <1>e, <2>1, <3>1
  <2> QED
    BY <2>2, <2>3
<1>13. ASSUME NEW s \in Specs, Edit(s)
       PROVE  (object.completed => Current)' /\ Works'
  <2>1. Same
    BY <1>13 DEF Edit, Same, TypeOK, Objects
  <2> QED
    BY <1>13, <1>c, <1>d, <2>1 DEF Edit, diskVars
<1>14. CASE \E e \in Envs : Rotate(e)
  BY <1>14, <1>c, <1>d, <1>u DEF Rotate, diskVars
<1>15. ASSUME NEW p \in Pods, Recreate(p)
       PROVE  (object.completed => Current)' /\ Works'
  BY <1>15, <1>e DEF Recreate, NewObject
<1>16. CASE Release
  BY <1>16, <1>c, <1>d, <1>u DEF Release, objectVars, diskVars
<1>17. CASE Tick
  <2>1. Same /\ UNCHANGED <<object, dir, initVars>>
    BY <1>17, <1>u DEF Tick, objectVars
  <2>2. CASE worker # None
    <3>1. worker'.pod = worker.pod /\ worker'.step = worker.step
      BY <1>17, <2>2, Ticked
    <3>2. Works'
      BY <1>a, <2>1, <2>2, <3>1 DEF Works
    <3> QED
      BY <1>c, <2>1, <3>2
  <2>3. CASE worker = None
    <3>1. worker' = None
      BY <1>17, <2>3 DEF Tick, Recording
    <3> QED
      BY <1>c, <1>e, <2>1, <3>1
  <2> QED
    BY <2>2, <2>3
<1>18. CASE UNCHANGED vars
  BY <1>18, <1>c, <1>d, <1>u DEF vars, objectVars, diskVars
<1> QED
  BY <1>1, <1>2, <1>3, <1>4, <1>5, <1>6, <1>7, <1>8, <1>10, <1>11, <1>12, <1>13, <1>14,
     <1>15, <1>16, <1>17, <1>18, <1>19, <1>20, <1>21, <1>22, <1>23 DEF Next, Reconcile

\* A plan or an apply works with a whole installation of the version that the
\* last successful init of any replica installed, but while the status names the
\* one before it, if markers are always removed and the phase is always stored
\* before an init; that a marker cannot be written, that a replica is killed
\* between an init and its fingerprint, or that anything else fails, does no harm.
\* [recordSuccessfulInit, initSkipDecision]
THEOREM WorksWithTheLatest ==
  ASSUME MarkersRemoved, PhaseStored
  PROVE  Spec => []UsesLatestInit
<1>1. Init => TypeOK /\ Bounded /\ Vouched /\ Latest
  <2>1. Init => Bounded /\ Vouched /\ Latest
    BY DEF Init, NewObject, Bounded, Vouched, Latest
  <2> QED
    BY <2>1, InitType
<1>2. TypeOK /\ Bounded /\ Vouched /\ Latest /\ [Next]_vars
        => TypeOK' /\ Bounded' /\ Vouched' /\ Latest'
  BY MarkersRemoved, PhaseStored, TypeStep, BoundStep, VouchedStep, LatestStep
<1>3. Vouched /\ Latest => UsesLatestInit
  BY DEF Vouched, Latest, Holds, UsesLatestInit
<1> QED
  BY <1>1, <1>2, <1>3, PTL DEF Spec

-----------------------------------------------------------------------------
(* No old release is lacked *)

\* A version that is not out has no age.  One that came out since an init is no
\* older than the time since then: the worker's delay, while it records the init,
\* and then the age of the marker and the delay it was written with.
Aged ==
  /\ \A v \in Updates : upstream < v => released[v] = 0
  /\ \A p \in Pods, v \in Updates :
       marker[p] # None /\ marker[p].fingerprint.lock < v /\ v <= upstream =>
         released[v] <= marker[p].age + Delay
  /\ worker # None /\ Recording =>
       \A v \in Updates : dir[worker.pod].lock < v /\ v <= upstream =>
         released[v] <= worker.delay

\* Where markers come from: there is none but by an init whose time the worker knows.
LEMMA MarkersKept ==
  ASSUME TypeOK, [Next]_vars, ~Tick, ~Release
  PROVE  /\ UNCHANGED worldVars
         /\ \A q \in Pods : marker'[q] # None =>
              \/ /\ marker[q] # None
                 /\ marker'[q].fingerprint = marker[q].fingerprint
                 /\ marker'[q].age = marker[q].age
              \/ /\ worker # None /\ worker.pod = q /\ Recording
                 /\ marker'[q].fingerprint.lock = dir[q].lock /\ marker'[q].age = 0
<1> DEFINE Kept ==
      /\ UNCHANGED worldVars
      /\ \A q \in Pods : marker'[q] # None =>
           \/ /\ marker[q] # None
              /\ marker'[q].fingerprint = marker[q].fingerprint
              /\ marker'[q].age = marker[q].age
           \/ /\ worker # None /\ worker.pod = q /\ Recording
              /\ marker'[q].fingerprint.lock = dir[q].lock /\ marker'[q].age = 0
<1>0. SUFFICES Kept
  OBVIOUS
<1>u. UNCHANGED <<worldVars, marker>> => Kept
  OBVIOUS
<1>m. marker \in [Pods -> Markers]
  BY DEF TypeOK
<1>1. ASSUME NEW p \in Pods, InitBegins(p)
      PROVE  Kept
  BY <1>1, <1>m DEF InitBegins
<1>2. ASSUME NEW p \in Pods, WriteMarker(p)
      PROVE  Kept
  BY <1>2, <1>m DEF WriteMarker, NewFingerprint, Fingerprint, At, Recording
<1>3. ASSUME NEW p \in Pods, Crash(p)
      PROVE  Kept
  BY <1>3, <1>m DEF Crash, Markers, InitMarkers
<1>4. ASSUME NEW p \in Pods, Recreate(p)
      PROVE  Kept
  BY <1>4, <1>m DEF Recreate
<1>5. ASSUME NEW p \in Pods,
             \/ \E force \in BOOLEAN : Begin(p, force)
             \/ SetupFails(p) \/ SkipInit(p) \/ InitEnds(p) \/ InitFails(p)
             \/ Validate(p) \/ ValidateFails(p)
             \/ StoreFingerprint(p) \/ StoreFingerprintFails(p)
             \/ Finish(p) \/ UseFails(p) \/ Errored(p) \/ Backoff(p)
      PROVE  Kept
  <2>1. UNCHANGED <<worldVars, marker>>
    BY <1>5 DEF Begin, SetupFails, SkipInit, InitEnds, InitFails, Validate, ValidateFails,
       StoreFingerprint, StoreFingerprintFails, Finish, UseFails, Errored, Backoff, diskVars
  <2> QED
    BY <1>u, <2>1
<1>6. CASE \/ \E s \in Specs : Edit(s)
           \/ \E e \in Envs : Rotate(e)
           \/ ManualRetryFails \/ UNCHANGED vars
  <2>1. UNCHANGED <<worldVars, marker>>
    BY <1>6 DEF Edit, Rotate, ManualRetryFails, vars, diskVars
  <2> QED
    BY <1>u, <2>1
<1> HIDE DEF Kept
<1> QED
  BY <1>1, <1>2, <1>3, <1>4, <1>5, <1>6 DEF Next, Reconcile

\* While a worker records, it did already, or its init has just ended.
LEMMA RecordingKept ==
  ASSUME TypeOK, [Next]_vars, ~Tick, worker' # None, Recording'
  PROVE  \/ /\ worker # None /\ Recording /\ worker'.pod = worker.pod
            /\ worker'.delay = worker.delay /\ dir'[worker.pod].lock = dir[worker.pod].lock
         \/ dir'[worker'.pod].lock = upstream
<1> DEFINE Same ==
      \/ /\ worker # None /\ Recording /\ worker'.pod = worker.pod
         /\ worker'.delay = worker.delay /\ dir'[worker.pod].lock = dir[worker.pod].lock
      \/ dir'[worker'.pod].lock = upstream
<1>0. SUFFICES Same
  OBVIOUS
<1>s. {"init", "skip", "initializing", "installed", "validated", "recorded", "using",
       "errored", "backoff"} \subseteq Steps
  BY DEF Steps
<1>r. worker'.step \in {"installed", "validated", "recorded"}
  BY DEF Recording
<1>u. UNCHANGED <<worker, dir>> => Same
  BY DEF Recording
<1>g. ASSUME NEW p \in Pods, NEW s, At(p, s),
             NEW t \in {"initializing", "using", "errored", "backoff"}, GoTo(t)
      PROVE  FALSE
  BY <1>g, <1>r, <1>s, Gone
<1>1. ASSUME NEW p \in Pods, InitEnds(p)
      PROVE  Same
  <2>1. At(p, "initializing") /\ GoTo("installed") /\ dir'[p] = Installed
    BY <1>1 DEF InitEnds, TypeOK
  <2> QED
    BY <1>s, <2>1, Gone DEF Installed
<1>2. ASSUME NEW p \in Pods, Validate(p) \/ StoreFingerprint(p)
      PROVE  Same
  <2>1. UNCHANGED dir
    BY <1>2 DEF Validate, StoreFingerprint, diskVars
  <2> QED
    BY <1>2, <2>1, Recorded DEF Recording
<1>3. ASSUME NEW p \in Pods, NEW force \in BOOLEAN, Begin(p, force)
      PROVE  FALSE
  BY <1>3, <1>r DEF Begin
<1>4. ASSUME NEW p \in Pods, Crash(p)
      PROVE  Same
  <2>1. CASE worker # None /\ worker.pod # p
    <3>1. UNCHANGED <<dir, worker>>
      BY <1>4, <2>1 DEF Crash, At
    <3> QED
      BY <1>u, <3>1
  <2>2. CASE worker = None \/ worker.pod = p
    BY <1>4, <2>2 DEF Crash
  <2> QED
    BY <2>1, <2>2
<1>5. ASSUME NEW p \in Pods,
             \/ SetupFails(p) \/ SkipInit(p) \/ InitBegins(p) \/ InitFails(p)
             \/ ValidateFails(p) \/ StoreFingerprintFails(p) \/ WriteMarker(p)
             \/ UseFails(p) \/ Errored(p)
      PROVE  FALSE
  <2>1. \E s \in Steps : At(p, s)
    BY <1>5, <1>s DEF SetupFails, SkipInit, InitBegins, InitFails, ValidateFails,
       StoreFingerprintFails, WriteMarker, UseFails, Errored
  <2>2. GoTo("initializing") \/ GoTo("using") \/ GoTo("errored") \/ GoTo("backoff")
    BY <1>5 DEF SetupFails, SkipInit, InitBegins, InitFails, ValidateFails,
       StoreFingerprintFails, WriteMarker, UseFails, Errored
  <2> QED
    BY <1>g, <2>1, <2>2
<1>6. ASSUME NEW p \in Pods, Finish(p) \/ Backoff(p) \/ Recreate(p)
      PROVE  FALSE
  BY <1>6 DEF Finish, Backoff, Recreate
<1>7. CASE \/ \E s \in Specs : Edit(s)
           \/ \E e \in Envs : Rotate(e)
           \/ ManualRetryFails \/ Release \/ UNCHANGED vars
  <2>1. UNCHANGED <<worker, dir>>
    BY <1>7 DEF Edit, Rotate, ManualRetryFails, Release, vars, diskVars
  <2> QED
    BY <1>u, <2>1
<1> HIDE DEF Same
<1> QED
  BY <1>1, <1>2, <1>3, <1>4, <1>5, <1>6, <1>7 DEF Next, Reconcile

LEMMA AgedStep ==
  ASSUME TypeOK, TypeOK', Aged, [Next]_vars
  PROVE  Aged'
<1> USE NumbersAssumption
<1>n. /\ upstream \in Nat /\ Updates \subseteq Nat /\ Lag = Interval + Delay
      /\ \A v \in Updates : released[v] \in 0 .. (Lag + 1)
  <2>1. MaxReleases \in Nat
    OBVIOUS
  <2>2. \A v \in Updates : released[v] \in 0 .. (Lag + 1)
    BY DEF TypeOK
  <2>3. upstream \in 1 .. (1 + MaxReleases)
    BY DEF TypeOK, Versions
  <2> QED
    BY <2>1, <2>2, <2>3 DEF Updates, Lag
<1>m. \A p \in Pods : marker[p] # None =>
        marker[p].fingerprint.lock \in Nat /\ marker[p].age \in 0 .. (Interval + 1)
  BY DEF TypeOK, Markers, InitMarkers, Fingerprints, Versions
<1>w. worker # None => /\ worker.pod \in Pods /\ worker.delay \in 0 .. Delay
                       /\ dir[worker.pod].lock \in Nat
  BY DEF TypeOK, Workers, Directories, Versions
<1>1. CASE Tick
  <2>1. /\ upstream' = upstream /\ dir' = dir
        /\ \A v \in Updates : released'[v] = Out(v)
    BY <1>1 DEF Tick
  <2>2. ASSUME NEW v \in Updates, upstream < v
        PROVE  released'[v] = 0
    BY <1>n, <2>1, <2>2 DEF Aged, Out
  <2>3. ASSUME NEW p \in Pods, NEW v \in Updates, marker'[p] # None,
               marker'[p].fingerprint.lock < v, v <= upstream
        PROVE  released'[v] <= marker'[p].age + Delay
    <3>1. marker'[p] = Older(marker[p]) /\ marker[p] \in Markers
      BY <1>1 DEF Tick, TypeOK
    <3>2. marker[p] # None /\ marker'[p].fingerprint = marker[p].fingerprint
      BY <2>3, <3>1, OlderMarker
    <3>3. released[v] <= marker[p].age + Delay
      BY <2>3, <3>2 DEF Aged
    <3>4. marker'[p].age = IF marker[p].age <= Interval THEN marker[p].age + 1
                           ELSE marker[p].age
      BY <3>1, <3>2 DEF Older, Markers, InitMarkers
    <3> QED
      BY <1>n, <1>m, <2>1, <2>3, <3>2, <3>3, <3>4 DEF Out
  <2>4. ASSUME worker' # None, Recording', NEW v \in Updates, dir'[worker'.pod].lock < v,
               v <= upstream
        PROVE  released'[v] <= worker'.delay
    <3>1. worker # None
      BY <1>1, <2>4 DEF Tick, Recording
    <3>2. /\ worker'.pod = worker.pod /\ Recording
          /\ worker'.delay = worker.delay + 1
      BY <1>1, <2>4, <3>1, Ticked DEF Recording
    <3>3. released[v] <= worker.delay
      BY <2>1, <2>4, <3>1, <3>2 DEF Aged
    <3> QED
      BY <1>n, <1>w, <2>1, <2>4, <3>1, <3>2, <3>3 DEF Out
  <2> QED
    BY <2>1, <2>2, <2>3, <2>4 DEF Aged
<1>2. CASE Release
  <2>1. /\ upstream' = upstream + 1 /\ UNCHANGED <<released, marker, dir, worker>>
    BY <1>2 DEF Release, diskVars
  <2>2. ASSUME NEW v \in Updates, NEW bound \in Nat, NEW lock \in Nat, lock < v,
               v <= upstream + 1,
               v <= upstream => released[v] <= bound
        PROVE  released[v] <= bound
    <3>1. CASE v <= upstream
      BY <2>2, <3>1
    <3>2. CASE upstream < v
      BY <1>n, <2>2, <3>2 DEF Aged
    <3> QED
      BY <1>n, <3>1, <3>2
  <2>3. ASSUME NEW p \in Pods, NEW v \in Updates, marker[p] # None,
               marker[p].fingerprint.lock < v, v <= upstream + 1
        PROVE  released[v] <= marker[p].age + Delay
    <3>1. marker[p].age + Delay \in Nat /\ marker[p].fingerprint.lock \in Nat
      BY <1>m, <2>3
    <3> QED
      BY <2>2, <2>3, <3>1 DEF Aged
  <2>4. ASSUME worker # None, Recording, NEW v \in Updates, dir[worker.pod].lock < v,
               v <= upstream + 1
        PROVE  released[v] <= worker.delay
    <3>1. worker.delay \in Nat /\ dir[worker.pod].lock \in Nat
      BY <1>w, <2>4
    <3> QED
      BY <2>2, <2>4, <3>1 DEF Aged
  <2>5. \A v \in Updates : upstream + 1 < v => released[v] = 0
    BY <1>n DEF Aged
  <2> QED
    BY <2>1, <2>3, <2>4, <2>5 DEF Aged, Recording
<1>3. CASE ~Tick /\ ~Release
  <2>1. /\ upstream' = upstream /\ released' = released
        /\ \A q \in Pods : marker'[q] # None =>
             \/ /\ marker[q] # None
                /\ marker'[q].fingerprint = marker[q].fingerprint
                /\ marker'[q].age = marker[q].age
             \/ /\ worker # None /\ worker.pod = q /\ Recording
                /\ marker'[q].fingerprint.lock = dir[q].lock /\ marker'[q].age = 0
    BY <1>3, MarkersKept DEF worldVars
  <2>2. ASSUME NEW p \in Pods, NEW v \in Updates, marker'[p] # None,
               marker'[p].fingerprint.lock < v, v <= upstream
        PROVE  released[v] <= marker'[p].age + Delay
    <3>1. CASE /\ marker[p] # None
               /\ marker'[p].fingerprint = marker[p].fingerprint
               /\ marker'[p].age = marker[p].age
      BY <2>2, <3>1 DEF Aged
    <3>2. CASE /\ worker # None /\ worker.pod = p /\ Recording
               /\ marker'[p].fingerprint.lock = dir[p].lock /\ marker'[p].age = 0
      <4>1. released[v] <= worker.delay
        BY <2>2, <3>2 DEF Aged
      <4> QED
        BY <1>n, <1>w, <3>2, <4>1
    <3> QED
      BY <2>1, <2>2, <3>1, <3>2
  <2>3. ASSUME worker' # None, Recording', NEW v \in Updates, dir'[worker'.pod].lock < v,
               v <= upstream
        PROVE  released[v] <= worker'.delay
    <3>1. ~(dir'[worker'.pod].lock = upstream)
      BY <1>n, <2>3
    <3>2. /\ worker # None /\ Recording /\ worker'.pod = worker.pod
          /\ worker'.delay = worker.delay /\ dir'[worker.pod].lock = dir[worker.pod].lock
      BY <1>3, <2>3, <3>1, RecordingKept
    <3> QED
      BY <2>3, <3>2 DEF Aged
  <2> QED
    BY <2>1, <2>2, <2>3 DEF Aged
<1> QED
  BY <1>1, <1>2, <1>3

\* Only the decision makes a worker skip.
LEMMA SkipsByDecision ==
  ASSUME TypeOK, NEW p \in Pods, [Next]_vars, worker = None, At(p, "skip")'
  PROVE  \E force \in BOOLEAN : SkipDecision(p, force)
<1>1. worker' # None /\ worker'.pod = p /\ worker'.step = "skip"
  BY DEF At
<1>2. PICK q \in Pods, force \in BOOLEAN : Begin(q, force)
  BY <1>1 DEF Next, Reconcile, At, SetupFails, SkipInit, InitBegins, InitEnds, InitFails, Finish,
     Validate, ValidateFails, StoreFingerprint, StoreFingerprintFails, WriteMarker,
     UseFails, Errored, Backoff, Crash, Edit, Rotate, Recreate, ManualRetryFails, Release, Tick,
     Recording, vars
<1> QED
  BY <1>1, <1>2 DEF Begin

\* Dependencies lag behind by no more than the interval and the time a marker took to
\* be written, on a pod that goes without init, with no assumption on what fails: a
\* lost marker or fingerprint, or a marker that could not be removed, makes no marker
\* younger than the installation that it is compared with.
\* [initSkipDecision, WriteInitMarker]
THEOREM LagIsBounded == Spec => LacksNoOldRelease
<1>1. Init => TypeOK /\ Bounded /\ Aged
  <2>1. Init => Bounded /\ Aged
    BY DEF Init, NewObject, Bounded, Aged
  <2> QED
    BY <2>1, InitType
<1>2. TypeOK /\ Bounded /\ Aged /\ [Next]_vars => TypeOK' /\ Bounded' /\ Aged'
  BY TypeStep, BoundStep, AgedStep
<1>3. ASSUME TypeOK, Aged, [Next]_vars, NEW p \in Pods, worker = None, At(p, "skip")',
             NEW v \in Updates, dir[p].lock < v, v <= upstream
      PROVE  released[v] <= Lag
  <2>1. PICK force \in BOOLEAN : SkipDecision(p, force)
    BY <1>3, SkipsByDecision
  <2>2. /\ marker[p] # None /\ marker[p].age <= Interval
        /\ marker[p].fingerprint.lock = dir[p].lock
    BY <2>1 DEF SkipDecision, Fingerprint
  <2>3. released[v] <= marker[p].age + Delay
    BY <1>3, <2>2 DEF Aged
  <2>4. marker[p].age \in Nat
    BY <1>3, <2>2, NumbersAssumption DEF TypeOK, Markers, InitMarkers
  <2>5. released[v] \in Nat
    BY <1>3, NumbersAssumption DEF TypeOK, Lag
  <2> QED
    BY <2>2, <2>3, <2>4, <2>5, NumbersAssumption DEF Lag
<1>4. TypeOK /\ Aged /\ [Next]_vars =>
        [\A p \in Pods : worker = None /\ At(p, "skip")' =>
           \A v \in Updates : dir[p].lock < v /\ v <= upstream => released[v] <= Lag]_vars
  BY <1>3
<1> QED
  BY <1>1, <1>2, <1>4, PTL DEF Spec, LacksNoOldRelease

=============================================================================
