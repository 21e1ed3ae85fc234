------------------------ MODULE WorkspaceLeaseProofs ------------------------
(***************************************************************************)
(* Theorems about WorkspaceLease, for every set of pods and workspaces and *)
(* every number of faults.                                                 *)
(*                                                                         *)
(* Invariants build on each other.  TypeOK needs no assumption.  CopyOK    *)
(* says that a refresher's copy with a current resourceVersion still names *)
(* the Lease's holder.  Registration ties the steps of the workers to      *)
(* r.leases; it needs lease names to tell workspaces apart.  Holding ties  *)
(* workers to Lease objects, whatever pods, caches and clocks do.  Pace    *)
(* bounds the age of a Lease by what its refresher missed; it needs pods   *)
(* that are not suspended.                                                 *)
(***************************************************************************)
EXTENDS WorkspaceLease, TLAPS

DistinctNames ==
  \A v, w \in Workspaces : leaseName[v] = leaseName[w] => v = w

CopyOK ==
  \A p \in Pods :
    /\ refresher[p].step \in {"update", "store"} => refresher[p].ws \in Workspaces
    /\ refresher[p].fresh =>
         /\ refresher[p].step = "update"
         /\ refresher[p].holder # None
         /\ lease[refresher[p].ws].holder = refresher[p].holder

-----------------------------------------------------------------------------
(* Type correctness *)

\* Ageing a Lease object keeps it one, with the same holder.
LEMMA OlderType ==
  ASSUME NEW l \in LeaseObjects
  PROVE  Older(l) \in LeaseObjects /\ Older(l).holder = l.holder
BY TimesAssumption, SMT DEF Older, LeaseObjects, Ages, Exists

\* Writing the Lease of w keeps the refreshers' records well formed.
LEMMA OutdatedType ==
  ASSUME TypeOK, NEW w
  PROVE  Outdated(w) \in [Pods -> Refreshers]
BY DEF TypeOK, Outdated, Refreshers

\* A write to the Lease of w keeps the API server and the refreshers typed.
LEMMA StoreType ==
  ASSUME TypeOK, NEW w \in Workspaces, NEW l \in LeaseObjects, Store(w, l)
  PROVE  /\ lease' \in [Workspaces -> LeaseObjects]
         /\ refresher' \in [Pods -> Refreshers]
<1>1. lease' \in [Workspaces -> LeaseObjects]
  BY DEF TypeOK, Store
<1>2. refresher' \in [Pods -> Refreshers]
  BY OutdatedType DEF Store
<1> QED
  BY <1>1, <1>2

\* A worker that moves to a step of the protocol is at a step of it.
LEMMA GoToType ==
  ASSUME TypeOK, NEW p \in Pods, NEW w \in Workspaces, NEW s \in WorkerSteps,
         GoTo(p, w, s)
  PROVE  pc' \in [Pods -> [Workspaces -> WorkerSteps]]
BY DEF TypeOK, GoTo

\* addLease keeps r.leases a map from lease names to workspaces.
LEMMA AddLeaseType ==
  ASSUME TypeOK, NEW p \in Pods, NEW w \in Workspaces \cup {None}, addLease(p, w)
  PROVE  leases' \in [Pods -> [LeaseNames -> Workspaces \cup {None}]]
BY DEF TypeOK, addLease

\* The observations keep their types.
LEMMA ObservationTypes ==
  ASSUME TypeOK, [Next]_vars
  PROVE  /\ read' \in [Pods -> [Workspaces -> BOOLEAN]]
         /\ astray' \in [Pods -> [Workspaces -> BOOLEAN]]
         /\ excused' \in [Pods -> [Workspaces -> 0 .. (Duration + RefreshEvery)]]
<1> USE NoneAssumption, TimesAssumption
<1>r. read \in [Pods -> [Workspaces -> BOOLEAN]]
  BY DEF TypeOK
<1>a. astray \in [Pods -> [Workspaces -> BOOLEAN]]
  BY DEF TypeOK
<1>e. excused \in [Pods -> [Workspaces -> 0 .. (Duration + RefreshEvery)]]
  BY DEF TypeOK
<1>l. ASSUME NEW w \in Workspaces PROVE lease[w] \in LeaseObjects /\ lease[w].age \in 0 .. (Duration + RefreshEvery)
  BY DEF TypeOK, LeaseObjects, Ages
<1>1. ASSUME NEW w, NEW l, Store(w, l) PROVE read' \in [Pods -> [Workspaces -> BOOLEAN]]
  BY <1>1, <1>r DEF Store
<1>2. ASSUME NEW w PROVE LedAstray(w) \in [Pods -> [Workspaces -> BOOLEAN]]
  <2>1. ASSUME NEW p \in Pods, NEW b \in BOOLEAN
        PROVE  [astray[p] EXCEPT ![w] = b] \in [Workspaces -> BOOLEAN]
    BY <1>a
  <2>2. ASSUME NEW p \in Pods
        PROVE  [astray[p] EXCEPT ![w] = @ \/ Relies(p, w)] \in [Workspaces -> BOOLEAN]
    <3>1. CASE w \in Workspaces
      <4>1. astray[p][w] \in BOOLEAN
        BY <1>a, <3>1
      <4>2. (astray[p][w] \/ Relies(p, w)) \in BOOLEAN
        BY <4>1 DEF Relies
      <4> QED
        BY <1>a, <4>2
    <3>2. CASE w \notin Workspaces
      BY <1>a, <3>2
    <3> QED
      BY <3>1, <3>2
  <2> QED
    BY <2>2 DEF LedAstray
<1>3. ASSUME NEW p \in Pods, NEW w \in Workspaces, Begins(p, w),
             lease'[w].age \in 0 .. (Duration + RefreshEvery)
      PROVE  /\ astray' \in [Pods -> [Workspaces -> BOOLEAN]]
             /\ excused' \in [Pods -> [Workspaces -> 0 .. (Duration + RefreshEvery)]]
  <2>1. (lease'[w].holder # p \/ Expired(lease'[w])) \in BOOLEAN
    BY DEF Expired
  <2>2. astray' \in [Pods -> [Workspaces -> BOOLEAN]]
    BY <1>3, <1>a, <2>1 DEF Begins
  <2>3. excused' \in [Pods -> [Workspaces -> 0 .. (Duration + RefreshEvery)]]
    BY <1>3, <1>e DEF Begins
  <2> QED
    BY <2>2, <2>3
<1>4. ASSUME NEW p \in Pods, NEW w \in Workspaces, Ends(p, w)
      PROVE  /\ astray' \in [Pods -> [Workspaces -> BOOLEAN]]
             /\ excused' \in [Pods -> [Workspaces -> 0 .. (Duration + RefreshEvery)]]
  BY <1>4, <1>a, <1>e DEF Ends
<1>5. ASSUME NEW p \in Pods, NEW w \in Workspaces \cup {None}, Missed(p, w)
      PROVE  excused' \in [Pods -> [Workspaces -> 0 .. (Duration + RefreshEvery)]]
  <2>1. CASE w # None /\ pc[p][w] = "working" /\ excused[p][w] <= Duration
    <3>1. excused' = [excused EXCEPT ![p][w] = @ + RefreshEvery]
      BY <1>5, <2>1 DEF Missed
    <3>2. w \in Workspaces
      BY <2>1
    <3>3. excused[p][w] + RefreshEvery \in 0 .. (Duration + RefreshEvery)
      BY <1>e, <2>1, <3>2
    <3> QED
      BY <1>e, <3>1, <3>2, <3>3
  <2>2. CASE ~(w # None /\ pc[p][w] = "working" /\ excused[p][w] <= Duration)
    BY <1>5, <1>e, <2>2 DEF Missed
  <2> QED
    BY <2>1, <2>2
<1>6. ASSUME NEW p \in Pods, NEW w \in Workspaces, Acquire(p, w)
      PROVE  /\ read' \in [Pods -> [Workspaces -> BOOLEAN]]
             /\ astray' \in [Pods -> [Workspaces -> BOOLEAN]]
             /\ excused' \in [Pods -> [Workspaces -> 0 .. (Duration + RefreshEvery)]]
  <2>1. CASE Create(p, w)
    BY <1>1, <1>r, <1>a, <1>e, <2>1 DEF Create
  <2>2. CASE LookupFails(p, w) \/ FindForeign(p, w) \/ TakeoverLoses(p, w)
    BY <1>r, <1>a, <1>e, <2>2 DEF LookupFails, FindForeign, TakeoverLoses, observations
  <2>3. CASE FindExpired(p, w)
    <3>1. (Get(p, w) = lease[w]) \in BOOLEAN
      OBVIOUS
    <3>2. read' \in [Pods -> [Workspaces -> BOOLEAN]]
      BY <1>r, <2>3, <3>1 DEF FindExpired
    <3> QED
      BY <1>a, <1>e, <2>3, <3>2 DEF FindExpired
  <2>4. CASE FindOwn(p, w)
    <3>1. lease' = lease /\ read' = read /\ Begins(p, w)
      BY <2>4 DEF FindOwn, apiVars
    <3>2. lease'[w].age \in 0 .. (Duration + RefreshEvery)
      BY <3>1, <1>l
    <3> QED
      BY <1>3, <1>r, <3>1, <3>2
  <2>5. CASE TakeoverDelete(p, w)
    <3>1. read' \in [Pods -> [Workspaces -> BOOLEAN]]
      <4>1. Store(w, Absent) \/ read' = [read EXCEPT ![p][w] = FALSE]
        BY <2>5 DEF TakeoverDelete
      <4>2. [read EXCEPT ![p][w] = FALSE] \in [Pods -> [Workspaces -> BOOLEAN]]
        BY <1>r
      <4>3. CASE Store(w, Absent)
        BY <1>1, <4>3
      <4> QED
        BY <4>1, <4>2, <4>3
    <3>2. astray' \in [Pods -> [Workspaces -> BOOLEAN]]
      BY <1>2, <1>a, <2>5 DEF TakeoverDelete
    <3> QED
      BY <1>e, <2>5, <3>1, <3>2 DEF TakeoverDelete
  <2>6. CASE TakeoverWins(p, w)
    <3>1. lease'[w] = NewLease(p)
      BY <2>6 DEF TakeoverWins, Store, TypeOK
    <3>2. lease'[w].age \in 0 .. (Duration + RefreshEvery)
      BY <3>1 DEF NewLease
    <3>3. Begins(p, w) /\ Store(w, NewLease(p))
      BY <2>6 DEF TakeoverWins
    <3> QED
      BY <1>1, <1>3, <3>2, <3>3
  <2> QED
    BY <1>6, <2>1, <2>2, <2>3, <2>4, <2>5, <2>6 DEF Acquire
<1>7. ASSUME NEW p \in Pods, NEW w \in Workspaces, Release(p, w)
      PROVE  /\ read' \in [Pods -> [Workspaces -> BOOLEAN]]
             /\ astray' \in [Pods -> [Workspaces -> BOOLEAN]]
             /\ excused' \in [Pods -> [Workspaces -> 0 .. (Duration + RefreshEvery)]]
  <2>1. CASE ReleaseTake(p, w) /\ leases[p][leaseName[w]] # None
    <3>1. /\ read' = read /\ astray' = astray
          /\ excused' = [excused EXCEPT ![p][w] = 0]
      BY <2>1 DEF ReleaseTake
    <3> QED
      BY <1>r, <1>a, <1>e, <3>1
  <2>2. CASE \/ ReleaseTake(p, w) /\ leases[p][leaseName[w]] = None
          \/ ReleaseFails(p, w)
    BY <1>4, <1>r, <2>2 DEF ReleaseTake, ReleaseFails
  <2>3. CASE ReleaseDelete(p, w)
    <3>1. (IF astray[p][w] THEN LedAstray(target[p][w]) ELSE astray)
            \in [Pods -> [Workspaces -> BOOLEAN]]
      BY <1>2, <1>a
    <3>2. astray' \in [Pods -> [Workspaces -> BOOLEAN]]
      BY <2>3, <3>1 DEF ReleaseDelete
    <3> QED
      BY <1>1, <1>e, <2>3, <3>2 DEF ReleaseDelete
  <2> QED
    BY <1>7, <2>1, <2>2, <2>3 DEF Release
<1>8. ASSUME NEW p \in Pods, Refresh(p)
      PROVE  /\ read' \in [Pods -> [Workspaces -> BOOLEAN]]
             /\ astray' \in [Pods -> [Workspaces -> BOOLEAN]]
             /\ excused' \in [Pods -> [Workspaces -> 0 .. (Duration + RefreshEvery)]]
  <2>1. CASE RefreshBegins(p) \/ RefreshStores(p) \/ RefreshEnds(p)
             \/ \E n \in LeaseNames : RefreshGets(p, n)
    BY <1>r, <1>a, <1>e, <2>1
    DEF RefreshBegins, RefreshStores, RefreshEnds, RefreshGets, observations
  <2>2. CASE RefreshUpdates(p)
    <3>1. 0 \in 0 .. (Duration + RefreshEvery)
      OBVIOUS
    <3>2. excused' \in [Pods -> [Workspaces -> 0 .. (Duration + RefreshEvery)]]
      BY <1>e, <2>2, <3>1 DEF RefreshUpdates, Renew
    <3>3. read' \in [Pods -> [Workspaces -> BOOLEAN]]
      BY <1>r, <2>2 DEF RefreshUpdates, Renew
    <3> QED
      BY <1>a, <2>2, <3>2, <3>3 DEF RefreshUpdates, Renew
  <2>3. CASE RefreshUpdateFails(p)
    <3>1. refresher[p].ws \in Workspaces \cup {None}
      BY DEF TypeOK, Refreshers
    <3> QED
      BY <1>5, <1>r, <1>a, <2>3, <3>1 DEF RefreshUpdateFails
  <2>4. ASSUME NEW n \in LeaseNames, RefreshSkips(p, n)
        PROVE  /\ read' \in [Pods -> [Workspaces -> BOOLEAN]]
               /\ astray' \in [Pods -> [Workspaces -> BOOLEAN]]
               /\ excused' \in [Pods -> [Workspaces -> 0 .. (Duration + RefreshEvery)]]
    <3>1. leases[p][n] \in Workspaces \cup {None}
      BY DEF TypeOK
    <3> QED
      BY <1>5, <1>r, <1>a, <2>4, <3>1 DEF RefreshSkips
  <2> QED
    BY <1>8, <2>1, <2>2, <2>3, <2>4 DEF Refresh
<1>9. ASSUME NEW p \in Pods, Crash(p)
      PROVE  /\ read' \in [Pods -> [Workspaces -> BOOLEAN]]
             /\ astray' \in [Pods -> [Workspaces -> BOOLEAN]]
             /\ excused' \in [Pods -> [Workspaces -> 0 .. (Duration + RefreshEvery)]]
  BY <1>9, <1>r, <1>a, <1>e DEF Crash
<1>10. CASE Tick
  <2>1. ASSUME NEW p \in Pods, NEW w \in Workspaces
        PROVE  (astray[p][w] \/ (Relies(p, w) /\ Expired(lease'[w]))) \in BOOLEAN
    BY <1>a DEF Relies, Expired
  <2>2. astray' \in [Pods -> [Workspaces -> BOOLEAN]]
    BY <1>10, <2>1 DEF Tick
  <2> QED
    BY <1>10, <1>r, <1>e, <2>2 DEF Tick
<1>11. CASE \/ \E p \in Pods : Restart(p)
            \/ \E p \in Pods, w \in Workspaces : Deliver(p, w)
            \/ UNCHANGED vars
  BY <1>11, <1>r, <1>a, <1>e DEF Restart, Deliver, vars, observations
<1> QED
  BY <1>6, <1>7, <1>8, <1>9, <1>10, <1>11 DEF Next

\* Every state of the lease protocol has its declared type.  [Reconcile's
\* acquireLease and releaseLease, and refreshLeases]
THEOREM TypeInvariant == Spec => []TypeOK
<1>1. Init => TypeOK
  BY NoneAssumption, TimesAssumption, FaultsAssumption
  DEF Init, TypeOK, LeaseObjects, Ages, Absent, WorkerSteps, Refreshers, Asleep, Refresher
<1>2. TypeOK /\ [Next]_vars => TypeOK'
  <2> SUFFICES ASSUME TypeOK, [Next]_vars PROVE TypeOK'
    OBVIOUS
  <2> USE LeaseNamesAssumption, NoneAssumption, TimesAssumption, FaultsAssumption
  <2>o. /\ read' \in [Pods -> [Workspaces -> BOOLEAN]]
        /\ astray' \in [Pods -> [Workspaces -> BOOLEAN]]
        /\ excused' \in [Pods -> [Workspaces -> 0 .. (Duration + RefreshEvery)]]
    BY ObservationTypes
  <2>1. ASSUME NEW p \in Pods, NEW w \in Workspaces, Acquire(p, w) PROVE TypeOK'
    <3> Absent \in LeaseObjects /\ NewLease(p) \in LeaseObjects
      BY DEF LeaseObjects, Absent, NewLease, Ages
    <3> Outdated(w) \in [Pods -> Refreshers]
      BY OutdatedType
    <3>0. pc' \in [Pods -> [Workspaces -> WorkerSteps]]
      <4> "idle" \in WorkerSteps /\ "get" \in WorkerSteps /\ "takeover" \in WorkerSteps
          /\ "recreate" \in WorkerSteps /\ "working" \in WorkerSteps
        BY DEF WorkerSteps
      <4> QED
        BY <2>1, GoToType
        DEF Acquire, Create, LookupFails, FindExpired, FindForeign, FindOwn,
            TakeoverDelete, TakeoverWins, TakeoverLoses
    <3>1. CASE Create(p, w)
      <4>1. lease' \in [Workspaces -> LeaseObjects] /\ refresher' \in [Pods -> Refreshers]
        <5>1. CASE Exists(lease[w])
          BY <3>1, <5>1 DEF TypeOK, Create
        <5>2. CASE ~Exists(lease[w])
          BY <3>1, <5>2, StoreType DEF Create
        <5> QED
          BY <5>1, <5>2
      <4> QED
        BY <2>o, <3>0, <3>1, <4>1 DEF TypeOK, Create, faultVars
    <3>2. CASE LookupFails(p, w)
      BY <2>o, <3>0, <3>2 DEF TypeOK, LookupFails, Fail, MayFail, apiVars, refresherVars
    <3>3. CASE FindExpired(p, w)
      BY <2>o, <3>0, <3>3 DEF TypeOK, FindExpired, apiVars, refresherVars, faultVars
    <3>4. CASE FindForeign(p, w)
      BY <2>o, <3>0, <3>4 DEF TypeOK, FindForeign, apiVars, refresherVars, faultVars
    <3>5. CASE FindOwn(p, w)
      BY <2>o, <3>0, <3>5, AddLeaseType DEF TypeOK, FindOwn, apiVars, refresherVars, faultVars
    <3>6. CASE TakeoverDelete(p, w)
      <4>1. lease' \in [Workspaces -> LeaseObjects] /\ refresher' \in [Pods -> Refreshers]
        <5>1. CASE Store(w, Absent)
          BY <5>1, StoreType
        <5>2. CASE UNCHANGED <<lease, refresher>>
          BY <5>2 DEF TypeOK
        <5> QED
          BY <3>6, <5>1, <5>2 DEF TakeoverDelete
      <4>2. faults' \in 0 .. MaxFaults
        BY <3>6 DEF TypeOK, TakeoverDelete, Fail, MayFail
      <4> QED
        BY <2>o, <3>0, <3>6, <4>1, <4>2 DEF TypeOK, TakeoverDelete
    <3>7. CASE TakeoverWins(p, w)
      BY <2>o, <3>0, <3>7, AddLeaseType DEF TypeOK, TakeoverWins, Store, faultVars
    <3>8. CASE TakeoverLoses(p, w)
      BY <2>o, <3>0, <3>8 DEF TypeOK, TakeoverLoses, Fail, MayFail, apiVars, refresherVars
    <3> QED
      BY <2>1, <3>1, <3>2, <3>3, <3>4, <3>5, <3>6, <3>7, <3>8 DEF Acquire
  <2>2. ASSUME NEW p \in Pods, NEW w \in Workspaces, Release(p, w) PROVE TypeOK'
    <3> Absent \in LeaseObjects
      BY DEF LeaseObjects, Absent, Ages
    <3> leaseName[w] \in LeaseNames
      OBVIOUS
    <3>0. pc' \in [Pods -> [Workspaces -> WorkerSteps]]
      <4> "idle" \in WorkerSteps /\ "releasing" \in WorkerSteps
        BY DEF WorkerSteps
      <4> QED
        BY <2>2, GoToType
        DEF Release, ReleaseTake, ReleaseDelete, ReleaseFails
    <3>1. CASE ReleaseTake(p, w) /\ leases[p][leaseName[w]] # None
      <4>1. /\ leases' = [leases EXCEPT ![p][leaseName[w]] = None]
            /\ target' = [target EXCEPT ![p][w] = leases[p][leaseName[w]]]
        BY <3>1 DEF ReleaseTake
      <4>2. UNCHANGED <<apiVars, refresherVars, faultVars>>
        BY <3>1 DEF ReleaseTake
      <4> QED
        BY <2>o, <3>0, <4>1, <4>2 DEF TypeOK, apiVars, refresherVars, faultVars
    <3>2. CASE ReleaseTake(p, w) /\ leases[p][leaseName[w]] = None
      BY <2>o, <3>0, <3>2 DEF TypeOK, ReleaseTake, apiVars, refresherVars, faultVars
    <3>3. CASE ReleaseDelete(p, w)
      <4> Outdated(target[p][w]) \in [Pods -> Refreshers]
        BY OutdatedType
      <4> QED
        BY <2>o, <3>0, <3>3 DEF TypeOK, ReleaseDelete, Store, faultVars
    <3>4. CASE ReleaseFails(p, w)
      <4>2. faults' \in 0 .. MaxFaults
        BY <3>4 DEF TypeOK, ReleaseFails, Fail, MayFail
      <4> QED
        BY <2>o, <3>0, <3>4, <4>2 DEF TypeOK, ReleaseFails, apiVars, refresherVars
    <3> QED
      BY <2>2, <3>1, <3>2, <3>3, <3>4 DEF Release
  <2>3. ASSUME NEW p \in Pods, NEW w \in Workspaces, Deliver(p, w) PROVE TypeOK'
    BY <2>o, <2>3 DEF TypeOK, Deliver, workerVars, refresherVars, faultVars
  <2>4. ASSUME NEW p \in Pods, Refresh(p) PROVE TypeOK'
    <3>0. ASSUME NEW td \in SUBSET LeaseNames PROVE Ranging(td) \in Refreshers
      BY DEF Ranging, Refresher, Refreshers
    <3>t. refresher[p] \in Refreshers /\ refresher[p].todo \in SUBSET LeaseNames
          /\ refresher[p].ws \in Workspaces \cup {None}
          /\ refresher[p].holder \in Pods \cup {None}
      BY DEF TypeOK, Refreshers
    <3>1. CASE RefreshBegins(p)
      BY <2>o, <3>0, <3>1 DEF TypeOK, RefreshBegins, apiVars, workerVars, faultVars
    <3>2. CASE RefreshUpdates(p)
      <4>1. Outdated(refresher[p].ws) \in [Pods -> Refreshers]
        BY OutdatedType
      <4>2. NewLease(refresher[p].holder) \in LeaseObjects
        BY <3>t DEF NewLease, LeaseObjects, Ages
      <4>3. Outdated(refresher[p].ws)[p].todo = refresher[p].todo
            /\ Outdated(refresher[p].ws)[p].ws = refresher[p].ws
        BY <3>t DEF Outdated, Refreshers
      <4>4. Refresher("store", refresher[p].todo, refresher[p].ws, None, FALSE) \in Refreshers
        BY <3>t DEF Refresher, Refreshers
      <4>5. refresher' \in [Pods -> Refreshers]
        BY <3>2, <4>1, <4>3, <4>4 DEF RefreshUpdates, Renew
      <4> QED
        BY <2>o, <3>2, <4>2, <4>5 DEF TypeOK, RefreshUpdates, Renew, workerVars, faultVars
    <3>3. CASE RefreshUpdateFails(p)
      BY <2>o, <3>0, <3>t, <3>3 DEF TypeOK, RefreshUpdateFails, Fail, MayFail, apiVars, workerVars
    <3>4. CASE RefreshStores(p)
      BY <2>o, <3>0, <3>t, <3>4, AddLeaseType DEF TypeOK, RefreshStores, apiVars, faultVars
    <3>5. ASSUME NEW n \in LeaseNames, RefreshSkips(p, n) PROVE TypeOK'
      BY <2>o, <3>0, <3>t, <3>5 DEF TypeOK, RefreshSkips, Fail, MayFail, apiVars, workerVars
    <3>6. ASSUME NEW n \in LeaseNames, RefreshGets(p, n) PROVE TypeOK'
      <4>1. leases[p][n] \in Workspaces
        BY <2>o, <3>6 DEF TypeOK, RefreshGets, Refreshable
      <4>2. Get(p, leases[p][n]).holder \in Pods \cup {None}
        BY <4>1 DEF TypeOK, Get, LeaseObjects
      <4>3. Refresher("update", refresher[p].todo \ {n}, leases[p][n],
                      Get(p, leases[p][n]).holder,
                      Get(p, leases[p][n]) = lease[leases[p][n]]) \in Refreshers
        BY <3>t, <4>1, <4>2 DEF Refresher, Refreshers
      <4> QED
        BY <2>o, <3>6, <4>3 DEF TypeOK, RefreshGets, apiVars, workerVars, faultVars
    <3>7. CASE RefreshEnds(p)
      <4>1. Asleep \in Refreshers
        BY DEF Asleep, Refresher, Refreshers
      <4> QED
        BY <2>o, <3>7, <4>1 DEF TypeOK, RefreshEnds, apiVars, workerVars, faultVars
    <3> QED
      BY <2>4, <3>1, <3>2, <3>3, <3>4, <3>5, <3>6, <3>7 DEF Refresh
  <2>5. ASSUME NEW p \in Pods, Crash(p) PROVE TypeOK'
    <3>1. Asleep \in Refreshers
      BY DEF Refreshers, Asleep, Refresher
    <3> QED
      BY <2>o, <2>5, <3>1 DEF TypeOK, Crash, Fail, MayFail, WorkerSteps, apiVars
  <2>6. ASSUME NEW p \in Pods, Restart(p) PROVE TypeOK'
    BY <2>o, <2>6 DEF TypeOK, Restart, workerVars
  <2>7. CASE Tick
    BY <2>o, <2>7, OlderType DEF TypeOK, Tick, workerVars, faultVars
  <2>8. CASE UNCHANGED vars
    BY <2>o, <2>8 DEF TypeOK, vars
  <2> QED
    BY <2>1, <2>2, <2>3, <2>4, <2>5, <2>6, <2>7, <2>8 DEF Next
<1> QED
  BY <1>1, <1>2, PTL DEF Spec

-----------------------------------------------------------------------------
(* Refreshers' copies *)

\* A write to a Lease leaves no copy of it with a current resourceVersion.
LEMMA StoreCopy ==
  ASSUME TypeOK, CopyOK, NEW w \in Workspaces, NEW l, Store(w, l)
  PROVE  CopyOK'
<1> SUFFICES ASSUME NEW q \in Pods
    PROVE /\ refresher'[q].step \in {"update", "store"} => refresher'[q].ws \in Workspaces
          /\ refresher'[q].fresh =>
               /\ refresher'[q].step = "update"
               /\ refresher'[q].holder # None
               /\ lease'[refresher'[q].ws].holder = refresher'[q].holder
  BY DEF CopyOK
<1>1. refresher[q] \in Refreshers
  BY DEF TypeOK
<1>2. CASE refresher[q].ws = w
  <2>1. refresher'[q] = [refresher[q] EXCEPT !.fresh = FALSE]
    BY <1>2 DEF Store, Outdated
  <2> QED
    BY <1>1, <2>1 DEF Refreshers, CopyOK
<1>3. CASE refresher[q].ws # w
  <2>1. refresher'[q] = refresher[q]
    BY <1>3 DEF Store, Outdated
  <2>2. refresher[q].fresh => lease'[refresher[q].ws] = lease[refresher[q].ws]
    BY <1>3 DEF Store, TypeOK, CopyOK
  <2> QED
    BY <2>1, <2>2 DEF CopyOK
<1> QED
  BY <1>2, <1>3

\* A copy with the current resourceVersion names the Lease's holder.
\* [refreshLeases: the Update of what the Get returned]
LEMMA CopyStep == TypeOK /\ TypeOK' /\ CopyOK /\ [Next]_vars => CopyOK'
<1> SUFFICES ASSUME TypeOK, TypeOK', CopyOK, [Next]_vars PROVE CopyOK'
  OBVIOUS
<1>0. ASSUME UNCHANGED <<lease, refresher>> PROVE CopyOK'
  BY <1>0 DEF CopyOK
<1>1. ASSUME NEW p \in Pods, NEW w \in Workspaces, Acquire(p, w) PROVE CopyOK'
  <2>1. \/ UNCHANGED <<lease, refresher>>
        \/ Store(w, NewLease(p))
        \/ Store(w, Absent)
    BY <1>1 DEF Acquire, Create, LookupFails, FindExpired, FindForeign, FindOwn,
                TakeoverDelete, TakeoverWins, TakeoverLoses, apiVars, refresherVars
  <2> QED
    BY <2>1, <1>0, StoreCopy
<1>2. ASSUME NEW p \in Pods, NEW w \in Workspaces, Release(p, w) PROVE CopyOK'
  <2>1. CASE ReleaseDelete(p, w)
    <3>1. CASE target[p][w] \in Workspaces
      BY <2>1, <3>1, StoreCopy DEF ReleaseDelete
    <3>2. CASE target[p][w] = None
      <4>1. lease' = lease
        BY <2>1, <3>2, NoneAssumption DEF ReleaseDelete, Store, TypeOK
      <4>2. \A q \in Pods :
              /\ refresher'[q].step = refresher[q].step
              /\ refresher'[q].ws = refresher[q].ws
              /\ refresher'[q].holder = refresher[q].holder
              /\ refresher'[q].fresh => refresher[q].fresh
        BY <2>1 DEF ReleaseDelete, Store, Outdated, TypeOK, Refreshers
      <4> QED
        BY <4>1, <4>2 DEF CopyOK
    <3> QED
      BY <3>1, <3>2 DEF TypeOK
  <2>2. CASE ~ReleaseDelete(p, w)
    BY <1>2, <2>2, <1>0 DEF Release, ReleaseTake, ReleaseFails,
                            apiVars, refresherVars
  <2> QED
    BY <2>1, <2>2
<1>3. ASSUME NEW p \in Pods, Refresh(p) PROVE CopyOK'
  <2>1. ASSUME NEW td, lease' = lease, refresher' = [refresher EXCEPT ![p] = Ranging(td)]
        PROVE CopyOK'
    BY <2>1 DEF CopyOK, TypeOK, Ranging, Refresher
  <2>2. CASE RefreshUpdates(p)
    <3> DEFINE u == refresher[p].ws
    <3>2. u \in Workspaces
      BY <2>2 DEF RefreshUpdates, Renew, CopyOK
    <3>3. lease' = [lease EXCEPT ![u] = NewLease(refresher[p].holder)]
      BY <2>2 DEF RefreshUpdates, Renew
    <3>4. lease'[u].holder = lease[u].holder /\ \A v \in Workspaces : v # u => lease'[v] = lease[v]
      BY <2>2, <3>2, <3>3 DEF RefreshUpdates, Renew, CopyOK, TypeOK, NewLease
    <3>5. /\ refresher'[p].step = "store" /\ ~refresher'[p].fresh
          /\ refresher'[p].ws = u
      <4>1. Outdated(u)[p].ws = u
        BY DEF Outdated, TypeOK, Refreshers
      <4> QED
        BY <2>2, <4>1 DEF RefreshUpdates, Renew, Refresher, Outdated
    <3>6. \A q \in Pods : q # p =>
              /\ refresher'[q].step = refresher[q].step
              /\ refresher'[q].ws = refresher[q].ws
              /\ refresher'[q].holder = refresher[q].holder
              /\ refresher'[q].fresh => refresher[q].fresh
      BY <2>2 DEF RefreshUpdates, Renew, Outdated, TypeOK, Refreshers
    <3> QED
      BY <3>2, <3>4, <3>5, <3>6 DEF CopyOK
  <2>3. ASSUME NEW n \in LeaseNames, RefreshGets(p, n) PROVE CopyOK'
    <3> DEFINE v == leases[p][n]
    <3>1. v \in Workspaces
      BY <2>3 DEF RefreshGets, Refreshable, TypeOK
    <3>2. /\ refresher'[p].step = "update" /\ refresher'[p].ws = v
          /\ refresher'[p].holder = Get(p, v).holder
          /\ refresher'[p].fresh => Get(p, v) = lease[v]
      BY <2>3 DEF RefreshGets, TypeOK, Refresher
    <3>3. Get(p, v).holder # None
      BY <2>3 DEF RefreshGets, Refreshable, Exists
    <3>4. lease' = lease /\ \A q \in Pods : q # p => refresher'[q] = refresher[q]
      BY <2>3 DEF RefreshGets, TypeOK, apiVars
    <3> QED
      BY <3>1, <3>2, <3>3, <3>4 DEF CopyOK
  <2>4. CASE RefreshEnds(p)
    BY <2>4 DEF RefreshEnds, CopyOK, TypeOK, Asleep, Refresher, apiVars
  <2>5. CASE RefreshBegins(p)
    BY <2>1, <2>5 DEF RefreshBegins, apiVars
  <2>6. CASE RefreshUpdateFails(p)
    BY <2>1, <2>6 DEF RefreshUpdateFails, apiVars
  <2>7. CASE RefreshStores(p)
    BY <2>1, <2>7 DEF RefreshStores, apiVars
  <2>8. ASSUME NEW n \in LeaseNames, RefreshSkips(p, n) PROVE CopyOK'
    BY <2>1, <2>8 DEF RefreshSkips, apiVars
  <2> QED
    BY <1>3, <2>2, <2>3, <2>4, <2>5, <2>6, <2>7, <2>8 DEF Refresh
<1>4. ASSUME NEW p \in Pods, Crash(p) PROVE CopyOK'
  BY <1>4 DEF Crash, CopyOK, TypeOK, Asleep, Refresher, apiVars
<1>5. CASE Tick
  <2>1. \A v \in Workspaces : lease'[v].holder = lease[v].holder
    BY <1>5, OlderType DEF Tick, TypeOK
  <2>2. refresher' = refresher
    BY <1>5 DEF Tick
  <2> QED
    BY <2>1, <2>2 DEF CopyOK
<1>6. ASSUME NEW p \in Pods, Restart(p) PROVE CopyOK'
  BY <1>6, <1>0 DEF Restart
<1>7. ASSUME NEW p \in Pods, NEW w \in Workspaces, Deliver(p, w) PROVE CopyOK'
  BY <1>7, <1>0 DEF Deliver, refresherVars
<1>8. CASE UNCHANGED vars
  BY <1>8, <1>0 DEF vars
<1> QED
  BY <1>1, <1>2, <1>3, <1>4, <1>5, <1>6, <1>7, <1>8 DEF Next

\* The Update of a refresher never rests on a copy that names another holder.
LEMMA CopyInvariant == Spec => [](TypeOK /\ CopyOK)
<1>1. Init => CopyOK
  <2>1. Asleep.step = "sleep" /\ Asleep.fresh = FALSE
    BY DEF Asleep, Refresher
  <2> QED
    BY <2>1 DEF Init, CopyOK
<1> QED
  BY <1>1, CopyStep, TypeInvariant, PTL DEF Spec

\* No step moves a Lease object from one pod to another: whatever the crashes,
\* stalls and stale reads, and whether or not names clash, a Lease changes
\* hands only by being deleted and created again.  [refreshLeases: an Update
\* with an old resourceVersion is refused]
THEOREM LeaseHandover == Spec => ChangesHandsByDeletion
<1>1. TypeOK /\ CopyOK /\ [Next]_vars =>
        [\A w \in Workspaces :
           Exists(lease[w]) /\ Exists(lease'[w]) => lease'[w].holder = lease[w].holder]_vars
  <2> SUFFICES ASSUME TypeOK, CopyOK, Next, NEW v \in Workspaces,
                      Exists(lease[v]), Exists(lease'[v])
               PROVE  lease'[v].holder = lease[v].holder
    OBVIOUS
  <2>0. ASSUME NEW w, Store(w, Absent) PROVE lease'[v] = lease[v]
    BY <2>0 DEF Store, TypeOK, Exists, Absent
  <2>1. ASSUME NEW p \in Pods, NEW w \in Workspaces, NEW l, Store(w, l), ~Exists(lease[w])
        PROVE lease'[v] = lease[v]
    BY <2>1 DEF Store, TypeOK
  <2>2. ASSUME NEW p \in Pods, NEW w \in Workspaces, Acquire(p, w)
        PROVE lease'[v] = lease[v]
    BY <2>0, <2>1, <2>2
    DEF Acquire, Create, LookupFails, FindExpired, FindForeign, FindOwn,
        TakeoverDelete, TakeoverWins, TakeoverLoses, apiVars
  <2>3. ASSUME NEW p \in Pods, NEW w \in Workspaces, Release(p, w)
        PROVE lease'[v] = lease[v]
    BY <2>0, <2>3
    DEF Release, ReleaseTake, ReleaseDelete, ReleaseFails, apiVars
  <2>4. ASSUME NEW p \in Pods, Refresh(p)
        PROVE lease'[v].holder = lease[v].holder
    <3>1. CASE RefreshUpdates(p)
      BY <3>1 DEF RefreshUpdates, Renew, CopyOK, NewLease, TypeOK
    <3>2. CASE ~RefreshUpdates(p)
      BY <2>4, <3>2
      DEF Refresh, RefreshBegins, RefreshUpdateFails, RefreshStores, RefreshEnds,
          RefreshSkips, RefreshGets, apiVars
    <3> QED
      BY <3>1, <3>2
  <2>5. CASE Tick
    BY <2>5, OlderType DEF Tick, TypeOK
  <2>6. ASSUME NEW p \in Pods, Crash(p) \/ Restart(p) PROVE lease'[v] = lease[v]
    BY <2>6 DEF Crash, Restart, apiVars
  <2>7. ASSUME NEW p \in Pods, NEW w \in Workspaces, Deliver(p, w)
        PROVE lease'[v] = lease[v]
    BY <2>7 DEF Deliver
  <2> QED
    BY <2>2, <2>3, <2>4, <2>5, <2>6, <2>7 DEF Next
<1> QED
  BY <1>1, CopyInvariant, PTL DEF Spec, ChangesHandsByDeletion

-----------------------------------------------------------------------------
(* Workers and r.leases *)

Registration ==
  /\ ReleaseFindsEntry
  /\ \A p \in Pods, w \in Workspaces : pc[p][w] = "releasing" => target[p][w] = w

\* Where a worker is after a step that moves the worker of p for w.
LEMMA GoToEffect ==
  ASSUME TypeOK, NEW p \in Pods, NEW w \in Workspaces, NEW s, GoTo(p, w, s),
         NEW q \in Pods, NEW v \in Workspaces
  PROVE  pc'[q][v] = IF q = p /\ v = w THEN s ELSE pc[q][v]
BY DEF TypeOK, GoTo

\* What r.leases holds after addLease.
LEMMA AddLeaseEffect ==
  ASSUME TypeOK, NEW p \in Pods, NEW w \in Workspaces, addLease(p, w),
         NEW q \in Pods, NEW n \in LeaseNames
  PROVE  leases'[q][n] = IF q = p /\ n = leaseName[w] THEN w ELSE leases[q][n]
BY LeaseNamesAssumption DEF TypeOK, addLease

\* The r.leases entry of a worker at work stays its own.  [addLease,
\* releaseLease, and the Store of refreshLeases]
LEMMA RegistrationStep ==
  ASSUME DistinctNames, TypeOK, CopyOK, Registration, [Next]_vars
  PROVE  Registration'
<1> USE LeaseNamesAssumption, NoneAssumption
<1> SUFFICES ASSUME NEW q \in Pods, NEW v \in Workspaces
             PROVE  /\ pc'[q][v] = "working" => leases'[q][leaseName[v]] = v
                    /\ pc'[q][v] = "releasing" => target'[q][v] = v
  BY DEF Registration, ReleaseFindsEntry
<1>0. /\ pc[q][v] = "working" => leases[q][leaseName[v]] = v
      /\ pc[q][v] = "releasing" => target[q][v] = v
      /\ leaseName[v] \in LeaseNames
  BY DEF Registration, ReleaseFindsEntry
<1>1. ASSUME NEW p \in Pods, NEW w \in Workspaces, Acquire(p, w)
      PROVE  /\ pc'[q][v] = "working" => leases'[q][leaseName[v]] = v
             /\ pc'[q][v] = "releasing" => target'[q][v] = v
  <2>1. ASSUME NEW s \in {"idle", "get", "takeover", "recreate"}, GoTo(p, w, s),
               UNCHANGED <<leases, target>>
        PROVE  /\ pc'[q][v] = "working" => leases'[q][leaseName[v]] = v
               /\ pc'[q][v] = "releasing" => target'[q][v] = v
    BY <1>0, <2>1, GoToEffect
  <2>2. ASSUME GoTo(p, w, "working"), addLease(p, w), UNCHANGED target
        PROVE  /\ pc'[q][v] = "working" => leases'[q][leaseName[v]] = v
               /\ pc'[q][v] = "releasing" => target'[q][v] = v
    <3>1. pc'[q][v] = IF q = p /\ v = w THEN "working" ELSE pc[q][v]
      BY <2>2, GoToEffect
    <3>2. leases'[q][leaseName[v]] =
            IF q = p /\ leaseName[v] = leaseName[w] THEN w ELSE leases[q][leaseName[v]]
      BY <1>0, <2>2, AddLeaseEffect
    <3>3. leaseName[v] = leaseName[w] => v = w
      BY DEF DistinctNames
    <3> QED
      BY <1>0, <2>2, <3>1, <3>2, <3>3
  <2> QED
    BY <1>1, <2>1, <2>2
    DEF Acquire, Create, LookupFails, FindExpired, FindForeign, FindOwn,
        TakeoverDelete, TakeoverWins, TakeoverLoses
<1>2. ASSUME NEW p \in Pods, NEW w \in Workspaces, Release(p, w)
      PROVE  /\ pc'[q][v] = "working" => leases'[q][leaseName[v]] = v
             /\ pc'[q][v] = "releasing" => target'[q][v] = v
  <2>1. CASE ReleaseTake(p, w) /\ leases[p][leaseName[w]] # None
    <3>1. pc'[q][v] = IF q = p /\ v = w THEN "releasing" ELSE pc[q][v]
      BY <2>1, GoToEffect DEF ReleaseTake
    <3>2. leases[p][leaseName[w]] = w
      BY <2>1 DEF ReleaseTake, At, Registration, ReleaseFindsEntry
    <3>3. target'[q][v] = IF q = p /\ v = w THEN w ELSE target[q][v]
      BY <2>1, <3>2 DEF ReleaseTake, TypeOK
    <3>4. \/ q = p /\ leaseName[v] = leaseName[w]
          \/ leases'[q][leaseName[v]] = leases[q][leaseName[v]]
      BY <1>0, <2>1 DEF ReleaseTake, TypeOK
    <3>5. leaseName[v] = leaseName[w] => v = w
      BY DEF DistinctNames
    <3> QED
      BY <1>0, <3>1, <3>3, <3>4, <3>5
  <2>2. CASE ReleaseTake(p, w) /\ leases[p][leaseName[w]] = None
    BY <1>0, <2>2, GoToEffect DEF ReleaseTake
  <2>3. CASE ReleaseDelete(p, w) \/ ReleaseFails(p, w)
    <3>1. pc'[q][v] = IF q = p /\ v = w THEN "idle" ELSE pc[q][v]
      BY <2>3, GoToEffect DEF ReleaseDelete, ReleaseFails
    <3>2. target'[q][v] = IF q = p /\ v = w THEN None ELSE target[q][v]
      BY <2>3 DEF ReleaseDelete, ReleaseFails, TypeOK
    <3>3. leases' = leases
      BY <2>3 DEF ReleaseDelete, ReleaseFails
    <3> QED
      BY <1>0, <3>1, <3>2, <3>3
  <2> QED
    BY <1>2, <2>1, <2>2, <2>3 DEF Release
<1>3. ASSUME NEW p \in Pods, RefreshStores(p)
      PROVE  /\ pc'[q][v] = "working" => leases'[q][leaseName[v]] = v
             /\ pc'[q][v] = "releasing" => target'[q][v] = v
  <2> DEFINE u == refresher[p].ws
  <2>1. u \in Workspaces
    BY <1>3 DEF RefreshStores, CopyOK
  <2>2. leases'[q][leaseName[v]] =
          IF q = p /\ leaseName[v] = leaseName[u] THEN u ELSE leases[q][leaseName[v]]
    BY <1>0, <1>3, <2>1, AddLeaseEffect DEF RefreshStores
  <2>3. leaseName[v] = leaseName[u] => v = u
    BY <2>1 DEF DistinctNames
  <2> QED
    BY <1>0, <1>3, <2>2, <2>3 DEF RefreshStores
<1>4. ASSUME NEW p \in Pods, Refresh(p), ~RefreshStores(p)
      PROVE  /\ pc'[q][v] = "working" => leases'[q][leaseName[v]] = v
             /\ pc'[q][v] = "releasing" => target'[q][v] = v
  BY <1>0, <1>4
  DEF Refresh, RefreshBegins, RefreshUpdates, Renew, RefreshUpdateFails, RefreshEnds,
      RefreshSkips, RefreshGets, workerVars
<1>5. ASSUME NEW p \in Pods, Crash(p)
      PROVE  /\ pc'[q][v] = "working" => leases'[q][leaseName[v]] = v
             /\ pc'[q][v] = "releasing" => target'[q][v] = v
  <2>1. /\ p # q => /\ leases'[q] = leases[q] /\ pc'[q] = pc[q] /\ target'[q] = target[q]
        /\ p = q => pc'[q][v] = "idle"
    BY <1>5 DEF Crash, TypeOK
  <2> QED
    BY <1>0, <2>1
<1>6. ASSUME NEW p \in Pods, Restart(p)
      PROVE  UNCHANGED <<leases, pc, target>>
  BY <1>6 DEF Restart, workerVars
<1>7. ASSUME NEW p \in Pods, NEW w \in Workspaces, Deliver(p, w)
      PROVE  UNCHANGED <<leases, pc, target>>
  BY <1>7 DEF Deliver, workerVars
<1>8. CASE Tick
  BY <1>0, <1>8 DEF Tick, workerVars
<1>9. CASE UNCHANGED vars
  BY <1>0, <1>9 DEF vars
<1> QED
  BY <1>0, <1>1, <1>2, <1>3, <1>4, <1>5, <1>6, <1>7, <1>8, <1>9 DEF Next

\* A worker that works or releases has its own entry, or took it out.
LEMMA RegistrationInvariant ==
  ASSUME DistinctNames
  PROVE  Spec => [](TypeOK /\ CopyOK /\ Registration)
<1>1. Init => Registration
  BY DEF Init, Registration, ReleaseFindsEntry
<1>2. TypeOK /\ CopyOK /\ Registration /\ [Next]_vars => Registration'
  BY RegistrationStep
<1> QED
  BY <1>1, <1>2, CopyInvariant, PTL DEF Spec

\* When lease names tell workspaces apart, the deferred release of a reconcile
\* always finds the entry of its own workspace in r.leases, whatever the
\* refresher, crashes, stalls and stale reads do.  [releaseLease: "This should
\* never happen..."]
THEOREM ReleaseAlwaysFinds ==
  ASSUME DistinctNames
  PROVE  Spec => []ReleaseFindsEntry
BY RegistrationInvariant, PTL DEF Registration

-----------------------------------------------------------------------------
(* Workers and the Lease objects they rely on *)

\* A worker that has not gone astray holds its Lease, unexpired; a taker whose
\* copy is up to date has an expired Lease before it.
Holds(p, w) ==
  /\ Relies(p, w) /\ ~astray[p][w] => lease[w].holder = p /\ ~Expired(lease[w])
  /\ pc[p][w] = "takeover" /\ read[p][w] => Expired(lease[w])

Holding == \A p \in Pods, w \in Workspaces : Holds(p, w)

\* What a step may change without touching what q has of v.
LEMMA HoldsFrame ==
  ASSUME NEW q \in Pods, NEW v \in Workspaces, Holds(q, v),
         lease'[v] = lease[v],
         pc'[q][v] = pc[q][v] \/ pc'[q][v] \in {"idle", "get", "recreate"},
         astray[q][v] => astray'[q][v] \/ pc'[q][v] = "idle",
         read'[q][v] => read[q][v]
  PROVE  Holds(q, v)'
BY DEF Holds, Relies

\* A write to the Lease of w: its new value, and no copy of it is up to date.
LEMMA StoreEffect ==
  ASSUME TypeOK, NEW w \in Workspaces, NEW l, Store(w, l),
         NEW q \in Pods, NEW v \in Workspaces
  PROVE  /\ lease'[v] = IF v = w THEN l ELSE lease[v]
         /\ v = w => ~read'[q][v]
         /\ v # w => read'[q][v] = read[q][v]
BY DEF TypeOK, Store

LEMMA LedAstrayEffect ==
  ASSUME TypeOK, NEW w \in Workspaces, NEW q \in Pods, NEW v \in Workspaces
  PROVE  LedAstray(w)[q][v] = IF v = w THEN astray[q][v] \/ Relies(q, v) ELSE astray[q][v]
BY DEF TypeOK, LedAstray

LEMMA BeginsEffect ==
  ASSUME TypeOK, NEW p \in Pods, NEW w \in Workspaces, Begins(p, w),
         NEW q \in Pods, NEW v \in Workspaces
  PROVE  /\ q # p \/ v # w => astray'[q][v] = astray[q][v] /\ excused'[q][v] = excused[q][v]
         /\ astray'[p][w] <=> (lease'[w].holder # p \/ Expired(lease'[w]))
         /\ excused'[p][w] = lease'[w].age
BY DEF TypeOK, Begins

LEMMA EndsEffect ==
  ASSUME TypeOK, NEW p \in Pods, NEW w \in Workspaces, Ends(p, w),
         NEW q \in Pods, NEW v \in Workspaces
  PROVE  q # p \/ v # w => astray'[q][v] = astray[q][v] /\ excused'[q][v] = excused[q][v]
BY DEF TypeOK, Ends

LEMMA HoldsAcquire ==
  ASSUME TypeOK, Holding, NEW p \in Pods, NEW w \in Workspaces, Acquire(p, w),
         NEW q \in Pods, NEW v \in Workspaces
  PROVE  Holds(q, v)'
<1> USE NoneAssumption, TimesAssumption
<1>0. Holds(q, v) /\ Holds(p, w)
  BY DEF Holding
<1>1. CASE Create(p, w)
  <2>1. pc'[q][v] = IF q = p /\ v = w THEN "get" ELSE pc[q][v]
    BY <1>1, GoToEffect DEF Create
  <2>2. astray' = astray
    BY <1>1 DEF Create
  <2>3. CASE Exists(lease[w])
    BY <1>0, <1>1, <2>1, <2>2, <2>3, HoldsFrame DEF Create
  <2>4. CASE ~Exists(lease[w])
    <3>1. /\ lease'[v] = IF v = w THEN NewLease(p) ELSE lease[v]
          /\ v = w => ~read'[q][v]
          /\ v # w => read'[q][v] = read[q][v]
      BY <1>1, <2>4, StoreEffect DEF Create
    <3>2. CASE v # w
      BY <1>0, <2>1, <2>2, <3>1, <3>2, HoldsFrame
    <3>3. CASE v = w
      <4>1. lease[v].holder # q
        BY <2>4, <3>3 DEF Exists
      <4> QED
        BY <1>0, <2>1, <2>2, <3>1, <3>3, <4>1 DEF Holds, Relies
    <3> QED
      BY <3>2, <3>3
  <2> QED
    BY <2>3, <2>4
<1>2. CASE LookupFails(p, w) \/ FindForeign(p, w) \/ TakeoverLoses(p, w)
  <2>1. pc'[q][v] = IF q = p /\ v = w THEN "idle" ELSE pc[q][v]
    BY <1>2, GoToEffect DEF LookupFails, FindForeign, TakeoverLoses
  <2>2. lease' = lease /\ astray' = astray /\ read' = read
    BY <1>2 DEF LookupFails, FindForeign, TakeoverLoses, apiVars, observations
  <2> QED
    BY <1>0, <2>1, <2>2, HoldsFrame
<1>3. CASE FindExpired(p, w)
  <2>1. pc'[q][v] = IF q = p /\ v = w THEN "takeover" ELSE pc[q][v]
    BY <1>3, GoToEffect DEF FindExpired
  <2>2. lease' = lease /\ astray' = astray
    BY <1>3 DEF FindExpired, apiVars
  <2>3. /\ q = p /\ v = w => (read'[q][v] <=> Get(p, w) = lease[w])
        /\ ~(q = p /\ v = w) => read'[q][v] = read[q][v]
    BY <1>3 DEF FindExpired, TypeOK
  <2>4. Expired(Get(p, w))
    BY <1>3 DEF FindExpired
  <2>5. CASE q = p /\ v = w
    BY <2>1, <2>2, <2>3, <2>4, <2>5 DEF Holds, Relies
  <2>6. CASE ~(q = p /\ v = w)
    BY <1>0, <2>1, <2>2, <2>3, <2>6, HoldsFrame
  <2> QED
    BY <2>5, <2>6
<1>4. CASE FindOwn(p, w)
  <2>1. pc'[q][v] = IF q = p /\ v = w THEN "working" ELSE pc[q][v]
    BY <1>4, GoToEffect DEF FindOwn
  <2>2. lease' = lease /\ read' = read /\ Begins(p, w)
    BY <1>4 DEF FindOwn, apiVars
  <2>3. CASE q = p /\ v = w
    BY <2>1, <2>2, <2>3, BeginsEffect DEF Holds
  <2>4. CASE ~(q = p /\ v = w)
    <3>1. astray'[q][v] = astray[q][v]
      BY <2>2, <2>4, BeginsEffect
    <3> QED
      BY <1>0, <2>1, <2>2, <2>4, <3>1, HoldsFrame
  <2> QED
    BY <2>3, <2>4
<1>5. CASE TakeoverDelete(p, w)
  <2>1. pc'[q][v] = IF q = p /\ v = w THEN "recreate" ELSE pc[q][v]
    BY <1>5, GoToEffect DEF TakeoverDelete
  <2>2. CASE Store(w, Absent)
    <3>1. /\ lease'[v] = IF v = w THEN Absent ELSE lease[v]
          /\ v = w => ~read'[q][v]
          /\ v # w => read'[q][v] = read[q][v]
      BY <2>2, StoreEffect
    <3>2. \/ read[p][w] /\ astray' = astray
          \/ astray' = LedAstray(w)
          \/ UNCHANGED <<lease, astray>>
      BY <1>5 DEF TakeoverDelete
    <3>3. CASE v # w
      <4>1. astray[q][v] => astray'[q][v]
        BY <3>2, <3>3, LedAstrayEffect
      <4> QED
        BY <1>0, <2>1, <3>1, <3>3, <4>1, HoldsFrame
    <3>4. CASE v = w
      <4>1. Relies(q, v)' => Relies(q, v)
        BY <2>1 DEF Relies
      <4>2. CASE astray' = LedAstray(w)
        BY <3>1, <3>4, <4>1, <4>2, LedAstrayEffect DEF Holds
      <4>3. CASE read[p][w] /\ astray' = astray
        <5>1. Expired(lease[v])
          BY <1>0, <1>5, <3>4, <4>3 DEF Holds, TakeoverDelete, At
        <5> QED
          BY <1>0, <3>1, <3>4, <4>1, <4>3, <5>1 DEF Holds
      <4>4. CASE UNCHANGED <<lease, astray>>
        BY <1>0, <3>1, <3>4, <4>1, <4>4 DEF Holds
      <4> QED
        BY <3>2, <4>2, <4>3, <4>4
    <3> QED
      BY <3>3, <3>4
  <2>3. CASE lease' = lease /\ astray' = astray /\ read' = [read EXCEPT ![p][w] = FALSE]
    <3>1. read'[q][v] => read[q][v]
      BY <2>3 DEF TypeOK
    <3> QED
      BY <1>0, <2>1, <2>3, <3>1, HoldsFrame
  <2> QED
    BY <1>5, <2>2, <2>3 DEF TakeoverDelete
<1>6. CASE TakeoverWins(p, w)
  <2>1. pc'[q][v] = IF q = p /\ v = w THEN "working" ELSE pc[q][v]
    BY <1>6, GoToEffect DEF TakeoverWins
  <2>2. Store(w, NewLease(p)) /\ Begins(p, w) /\ ~Exists(lease[w])
    BY <1>6 DEF TakeoverWins
  <2>3. /\ lease'[v] = IF v = w THEN NewLease(p) ELSE lease[v]
        /\ v = w => ~read'[q][v]
        /\ v # w => read'[q][v] = read[q][v]
    BY <2>2, StoreEffect
  <2>4. CASE q = p /\ v = w
    BY <2>1, <2>2, <2>4, BeginsEffect DEF Holds
  <2>5. CASE ~(q = p /\ v = w)
    <3>1. astray'[q][v] = astray[q][v]
      BY <2>2, <2>5, BeginsEffect
    <3>2. CASE v # w
      BY <1>0, <2>1, <2>3, <3>1, <3>2, HoldsFrame
    <3>3. CASE v = w
      <4>1. lease[v].holder # q
        BY <2>2, <3>3 DEF Exists
      <4>2. pc'[q][v] = pc[q][v] /\ ~read'[q][v]
        BY <2>1, <2>3, <2>5, <3>3
      <4> QED
        BY <1>0, <3>1, <4>1, <4>2 DEF Holds, Relies
    <3> QED
      BY <3>2, <3>3
  <2> QED
    BY <2>4, <2>5
<1> QED
  BY <1>1, <1>2, <1>3, <1>4, <1>5, <1>6 DEF Acquire

LEMMA HoldsRelease ==
  ASSUME TypeOK, Registration, Holding, NEW p \in Pods, NEW w \in Workspaces,
         Release(p, w), NEW q \in Pods, NEW v \in Workspaces
  PROVE  Holds(q, v)'
<1> USE NoneAssumption
<1>0. Holds(q, v) /\ Holds(p, w)
  BY DEF Holding
<1>1. CASE ReleaseTake(p, w) /\ leases[p][leaseName[w]] # None
  <2>1. pc'[q][v] = IF q = p /\ v = w THEN "releasing" ELSE pc[q][v]
    BY <1>1, GoToEffect DEF ReleaseTake
  <2>2. UNCHANGED <<lease, astray, read>> /\ pc[p][w] = "working"
    BY <1>1 DEF ReleaseTake, apiVars, At
  <2> QED
    BY <1>0, <2>1, <2>2 DEF Holds, Relies
<1>2. CASE \/ ReleaseTake(p, w) /\ leases[p][leaseName[w]] = None
          \/ ReleaseFails(p, w)
  <2>1. pc'[q][v] = IF q = p /\ v = w THEN "idle" ELSE pc[q][v]
    BY <1>2, GoToEffect DEF ReleaseTake, ReleaseFails
  <2>2. UNCHANGED <<lease, read>> /\ Ends(p, w)
    BY <1>2 DEF ReleaseTake, ReleaseFails, apiVars
  <2>3. astray[q][v] => astray'[q][v] \/ pc'[q][v] = "idle"
    BY <2>1, <2>2, EndsEffect
  <2> QED
    BY <1>0, <2>1, <2>2, <2>3, HoldsFrame
<1>3. CASE ReleaseDelete(p, w)
  <2>1. pc'[q][v] = IF q = p /\ v = w THEN "idle" ELSE pc[q][v]
    BY <1>3, GoToEffect DEF ReleaseDelete
  <2>2. target[p][w] = w /\ Relies(p, w)
    BY <1>3 DEF ReleaseDelete, At, Registration, Relies
  <2>3. /\ lease'[v] = IF v = w THEN Absent ELSE lease[v]
        /\ v = w => ~read'[q][v]
        /\ v # w => read'[q][v] = read[q][v]
    BY <1>3, <2>2, StoreEffect DEF ReleaseDelete
  <2>4. CASE q = p /\ v = w
    BY <2>1, <2>4 DEF Holds, Relies
  <2>5. CASE ~(q = p /\ v = w)
    <3>1. astray'[q][v] = IF astray[p][w] THEN LedAstray(w)[q][v] ELSE astray[q][v]
      <4>1. LedAstray(w) \in [Pods -> [Workspaces -> BOOLEAN]]
        <5>1. ASSUME NEW r \in Pods
              PROVE  [astray[r] EXCEPT ![w] = @ \/ Relies(r, w)] \in [Workspaces -> BOOLEAN]
          <6>1. (astray[r][w] \/ Relies(r, w)) \in BOOLEAN
            BY DEF Relies, TypeOK
          <6> QED
            BY <6>1 DEF TypeOK
        <5> QED
          BY <5>1 DEF LedAstray
      <4>2. CASE astray[p][w]
        BY <1>3, <2>2, <2>5, <4>1, <4>2 DEF ReleaseDelete
      <4>3. CASE ~astray[p][w]
        BY <1>3, <2>2, <2>5, <4>3 DEF ReleaseDelete, TypeOK
      <4> QED
        BY <4>2, <4>3
    <3>2. CASE v # w
      <4>1. astray'[q][v] = astray[q][v]
        BY <3>1, <3>2, LedAstrayEffect
      <4> QED
        BY <1>0, <2>1, <2>3, <3>2, <4>1, HoldsFrame
    <3>3. CASE v = w
      <4>1. pc'[q][v] = pc[q][v] /\ ~read'[q][v]
        BY <2>1, <2>3, <2>5, <3>3
      <4>2. CASE astray[p][w]
        <5>1. Relies(q, v)' => astray'[q][v]
          BY <3>1, <3>3, <4>1, <4>2, LedAstrayEffect DEF Relies
        <5> QED
          BY <4>1, <5>1 DEF Holds
      <4>3. CASE ~astray[p][w]
        <5>1. lease[v].holder = p
          BY <1>0, <2>2, <3>3, <4>3 DEF Holds
        <5> QED
          BY <1>0, <2>5, <3>1, <3>3, <4>1, <4>3, <5>1 DEF Holds, Relies
      <4> QED
        BY <4>2, <4>3
    <3> QED
      BY <3>2, <3>3
  <2> QED
    BY <2>4, <2>5
<1> QED
  BY <1>1, <1>2, <1>3 DEF Release

\* What the refresher of p does to the Lease of another workspace, or its own.
LEMMA RefreshLease ==
  ASSUME TypeOK, CopyOK, NEW p \in Pods, Refresh(p), NEW v \in Workspaces
  PROVE  /\ pc' = pc /\ astray' = astray /\ alive' = alive
         /\ \/ lease'[v] = lease[v]
            \/ /\ lease'[v].holder = lease[v].holder /\ lease'[v].age = 0
               /\ \A q \in Pods : excused'[q][v] = 0 /\ ~read'[q][v]
         /\ \A q \in Pods : read'[q][v] => read[q][v]
<1>1. CASE RefreshUpdates(p)
  <2> DEFINE u == refresher[p].ws
  <2>1. u \in Workspaces /\ lease[u].holder = refresher[p].holder
    BY <1>1 DEF RefreshUpdates, CopyOK
  <2>2. lease'[v] = IF v = u THEN NewLease(refresher[p].holder) ELSE lease[v]
    BY <1>1, <2>1 DEF RefreshUpdates, Renew, TypeOK
  <2>3. ASSUME NEW q \in Pods
        PROVE  /\ v = u => ~read'[q][v] /\ excused'[q][v] = 0
               /\ v # u => read'[q][v] = read[q][v]
    BY <1>1, <2>1 DEF RefreshUpdates, Renew, TypeOK
  <2>4. pc' = pc /\ astray' = astray /\ alive' = alive
    BY <1>1 DEF RefreshUpdates, workerVars, faultVars
  <2>5. CASE v = u
    BY <2>1, <2>2, <2>3, <2>4, <2>5 DEF NewLease
  <2>6. CASE v # u
    BY <2>2, <2>3, <2>4, <2>6
  <2> QED
    BY <2>5, <2>6
<1>2. CASE ~RefreshUpdates(p)
  BY <1>2 DEF Refresh, RefreshBegins, RefreshUpdateFails, RefreshStores, RefreshEnds,
              RefreshSkips, RefreshGets, apiVars, workerVars, faultVars, observations
<1> QED
  BY <1>1, <1>2

\* Every step keeps what workers and takers rely on.
LEMMA HoldingStep ==
  ASSUME TypeOK, CopyOK, Registration, Holding, [Next]_vars
  PROVE  Holding'
<1> USE TimesAssumption
<1> SUFFICES ASSUME NEW q \in Pods, NEW v \in Workspaces PROVE Holds(q, v)'
  BY DEF Holding
<1>0. Holds(q, v)
  BY DEF Holding
<1>1. ASSUME NEW p \in Pods, NEW w \in Workspaces, Acquire(p, w) PROVE Holds(q, v)'
  BY <1>1, HoldsAcquire
<1>2. ASSUME NEW p \in Pods, NEW w \in Workspaces, Release(p, w) PROVE Holds(q, v)'
  BY <1>2, HoldsRelease
<1>3. ASSUME NEW p \in Pods, Refresh(p) PROVE Holds(q, v)'
  <2>1. /\ pc' = pc /\ astray' = astray /\ (read'[q][v] => read[q][v])
        /\ \/ lease'[v] = lease[v]
           \/ lease'[v].holder = lease[v].holder /\ lease'[v].age = 0 /\ ~read'[q][v]
    BY <1>3, RefreshLease
  <2>2. CASE lease'[v] = lease[v]
    BY <1>0, <2>1, <2>2, HoldsFrame
  <2>3. CASE lease'[v].holder = lease[v].holder /\ lease'[v].age = 0 /\ ~read'[q][v]
    <3>1. ~Expired(lease'[v])
      BY <2>3 DEF Expired
    <3> QED
      BY <1>0, <2>1, <2>3, <3>1 DEF Holds, Relies
  <2> QED
    BY <2>1, <2>2, <2>3
<1>4. ASSUME NEW p \in Pods, Crash(p) PROVE Holds(q, v)'
  <2>1. lease' = lease
    BY <1>4 DEF Crash, apiVars
  <2>2. CASE q = p
    <3>1. pc'[q][v] = "idle"
      BY <1>4, <2>2 DEF Crash, TypeOK
    <3> QED
      BY <3>1 DEF Holds, Relies
  <2>3. CASE q # p
    <3>1. pc'[q] = pc[q] /\ astray'[q] = astray[q] /\ read'[q] = read[q]
      BY <1>4, <2>3 DEF Crash, TypeOK
    <3> QED
      BY <1>0, <2>1, <3>1, HoldsFrame
  <2> QED
    BY <2>2, <2>3
<1>5. CASE \/ \E p \in Pods : Restart(p)
           \/ \E p \in Pods, w \in Workspaces : Deliver(p, w)
           \/ UNCHANGED vars
  <2>1. UNCHANGED <<lease, pc, astray, read>>
    BY <1>5 DEF Restart, Deliver, vars, workerVars, observations
  <2> QED
    BY <1>0, <2>1, HoldsFrame
<1>6. CASE Tick
  <2>1. lease'[v].holder = lease[v].holder
    BY <1>6, OlderType DEF Tick, TypeOK
  <2>2. Expired(lease[v]) => Expired(lease'[v])
    <3>1. lease[v].age \in Nat /\ lease'[v] = Older(lease[v]) /\ Duration \in Nat
      BY <1>6 DEF Tick, TypeOK, LeaseObjects, Ages
    <3> QED
      BY <3>1 DEF Older, Expired
  <2>3. pc' = pc /\ read' = read
    BY <1>6 DEF Tick, workerVars
  <2>4. astray'[q][v] <=> astray[q][v] \/ (Relies(q, v) /\ Expired(lease'[v]))
    BY <1>6 DEF Tick
  <2> QED
    BY <1>0, <2>1, <2>2, <2>3, <2>4 DEF Holds, Relies
<1> QED
  BY <1>1, <1>2, <1>3, <1>4, <1>5, <1>6 DEF Next

\* Workers that have not gone astray hold their Leases, and takers with a copy
\* that is up to date delete none of them.
LEMMA HoldingInvariant ==
  ASSUME DistinctNames
  PROVE  Spec => [](TypeOK /\ CopyOK /\ Registration /\ Holding)
<1>1. Init => Holding
  BY DEF Init, Holding, Holds, Relies
<1>2. TypeOK /\ CopyOK /\ Registration /\ Holding /\ [Next]_vars => Holding'
  BY HoldingStep
<1> QED
  BY <1>1, <1>2, RegistrationInvariant, PTL DEF Spec

-----------------------------------------------------------------------------
(* The age of a Lease under work *)

\* What the age of the Lease of v may have gained since its holder p was last
\* excused: the pause so far, or a whole one while the pass has yet to come to v.
Due(p, v) ==
  LET r == refresher[p] IN
  IF r.step = "sleep" THEN sleptFor[p]
  ELSE IF leaseName[v] \in r.todo \/ (r.step = "update" /\ r.ws = v)
       THEN RefreshEvery ELSE 0

Paced(p, v) ==
  /\ pc[p][v] # "idle" => alive[p]
  /\ pc[p][v] = "working" /\ lease[v].holder = p
       => lease[v].age <= excused[p][v] + Due(p, v)

Pace == \A p \in Pods, v \in Workspaces : Paced(p, v)

\* The quantities of Paced are numbers.
LEMMA PaceType ==
  ASSUME TypeOK, NEW q \in Pods, NEW v \in Workspaces
  PROVE  /\ lease[v].age \in Nat /\ lease[v].age <= Duration + 1
         /\ excused[q][v] \in Nat /\ sleptFor[q] \in Nat /\ sleptFor[q] <= RefreshEvery
         /\ Due(q, v) \in Nat /\ Due(q, v) <= RefreshEvery
<1> USE TimesAssumption
<1>1. lease[v].age \in 0 .. (Duration + 1) /\ excused[q][v] \in 0 .. (Duration + RefreshEvery)
      /\ sleptFor[q] \in 0 .. RefreshEvery
  BY DEF TypeOK, LeaseObjects, Ages
<1> QED
  BY <1>1 DEF Due

\* Where a Lease that is not renewed stays on the pace.
LEMMA PacedFrame ==
  ASSUME NEW q \in Pods, NEW v \in Workspaces, Paced(q, v), alive'[q] = alive[q],
         pc'[q][v] = pc[q][v],
         lease'[v] = lease[v] \/ lease'[v].holder # q,
         excused'[q][v] = excused[q][v], sleptFor'[q] = sleptFor[q],
         /\ refresher'[q].step = refresher[q].step
         /\ refresher'[q].todo = refresher[q].todo
         /\ refresher'[q].ws = refresher[q].ws
  PROVE  Paced(q, v)'
<1>1. Due(q, v)' = Due(q, v)
  BY DEF Due
<1> QED
  BY <1>1 DEF Paced

\* A write to a Lease only outdates the refreshers' copies.
LEMMA StoreRefreshers ==
  ASSUME TypeOK, NEW w, NEW l, Store(w, l), NEW q \in Pods
  PROVE  /\ refresher'[q].step = refresher[q].step
         /\ refresher'[q].todo = refresher[q].todo
         /\ refresher'[q].ws = refresher[q].ws
BY DEF Store, Outdated, TypeOK, Refreshers

LEMMA PacedAcquire ==
  ASSUME TypeOK, TypeOK', Pace, NEW p \in Pods, NEW w \in Workspaces, Acquire(p, w),
         NEW q \in Pods, NEW v \in Workspaces
  PROVE  Paced(q, v)'
<1> USE NoneAssumption
<1>0. Paced(q, v)
  BY DEF Pace
<1>1. alive' = alive /\ sleptFor' = sleptFor
  BY DEF Acquire, Create, LookupFails, FindExpired, FindForeign, FindOwn,
         TakeoverDelete, TakeoverWins, TakeoverLoses, Fail, refresherVars, faultVars
<1>2. /\ refresher'[q].step = refresher[q].step
      /\ refresher'[q].todo = refresher[q].todo
      /\ refresher'[q].ws = refresher[q].ws
  BY StoreRefreshers
  DEF Acquire, Create, LookupFails, FindExpired, FindForeign, FindOwn,
      TakeoverDelete, TakeoverWins, TakeoverLoses, refresherVars
<1>3. /\ alive[p]
      /\ \/ excused' = excused /\ \E s \in WorkerSteps \ {"working"} : GoTo(p, w, s)
         \/ Begins(p, w) /\ GoTo(p, w, "working")
  BY DEF Acquire, Create, LookupFails, FindExpired, FindForeign, FindOwn,
         TakeoverDelete, TakeoverWins, TakeoverLoses, observations, At, WorkerSteps
<1>4. CASE q = p /\ v = w
  <2>1. alive'[q]
    BY <1>1, <1>3, <1>4
  <2>2. CASE \E s \in WorkerSteps \ {"working"} : GoTo(p, w, s)
    <3>1. pc'[q][v] # "working"
      BY <1>4, <2>2, GoToEffect
    <3> QED
      BY <2>1, <3>1 DEF Paced
  <2>3. CASE Begins(p, w)
    <3>1. excused'[q][v] = lease'[v].age
      BY <1>4, <2>3, BeginsEffect
    <3>2. lease'[v].age \in Nat /\ Due(q, v)' \in Nat
      BY TimesAssumption DEF TypeOK, LeaseObjects, Ages, Due
    <3> QED
      BY <2>1, <3>1, <3>2 DEF Paced
  <2> QED
    BY <1>3, <2>2, <2>3
<1>5. CASE ~(q = p /\ v = w)
  <2>1. pc'[q][v] = pc[q][v]
    BY <1>3, <1>5, GoToEffect
  <2>2. excused'[q][v] = excused[q][v]
    BY <1>3, <1>5, BeginsEffect
  <2>3. lease'[v] = lease[v] \/ lease'[v].holder # q
    <3>1. \/ lease' = lease
          \/ Store(w, Absent)
          \/ Store(w, NewLease(p))
      BY DEF Acquire, Create, LookupFails, FindExpired, FindForeign, FindOwn,
             TakeoverDelete, TakeoverWins, TakeoverLoses, apiVars
    <3>2. ASSUME NEW l, Store(w, l) PROVE lease'[v] = IF v = w THEN l ELSE lease[v]
      BY <3>2, StoreEffect
    <3> QED
      BY <1>5, <3>1, <3>2 DEF Absent, NewLease
  <2> QED
    BY <1>0, <1>1, <1>2, <2>1, <2>2, <2>3, PacedFrame
<1> QED
  BY <1>4, <1>5

LEMMA PacedRelease ==
  ASSUME TypeOK, Registration, Pace, NEW p \in Pods, NEW w \in Workspaces, Release(p, w),
         NEW q \in Pods, NEW v \in Workspaces
  PROVE  Paced(q, v)'
<1> USE NoneAssumption
<1>0. Paced(q, v)
  BY DEF Pace
<1>1. alive' = alive /\ sleptFor' = sleptFor
  BY DEF Release, ReleaseTake, ReleaseDelete, ReleaseFails,
         refresherVars, faultVars
<1>2. /\ refresher'[q].step = refresher[q].step
      /\ refresher'[q].todo = refresher[q].todo
      /\ refresher'[q].ws = refresher[q].ws
  BY StoreRefreshers
  DEF Release, ReleaseTake, ReleaseDelete, ReleaseFails, refresherVars
<1>3. alive[p] /\ \E s \in {"idle", "releasing"} : GoTo(p, w, s)
  BY DEF Release, ReleaseTake, ReleaseDelete, ReleaseFails, At
<1>4. CASE q = p /\ v = w
  <2>1. pc'[q][v] # "working"
    BY <1>3, <1>4, GoToEffect
  <2> QED
    BY <1>1, <1>3, <1>4, <2>1 DEF Paced
<1>5. CASE ~(q = p /\ v = w)
  <2>1. pc'[q][v] = pc[q][v]
    BY <1>3, <1>5, GoToEffect
  <2>2. excused'[q][v] = excused[q][v]
    <3>1. \/ excused' = excused
          \/ Ends(p, w)
          \/ excused' = [excused EXCEPT ![p][w] = 0]
      BY DEF Release, ReleaseTake, ReleaseDelete, ReleaseFails
    <3> QED
      BY <1>5, <3>1, EndsEffect DEF TypeOK
  <2>3. lease'[v] = lease[v] \/ lease'[v].holder # q
    <3>1. lease' = lease \/ Store(w, Absent)
      BY DEF Release, ReleaseTake, ReleaseDelete, ReleaseFails,
             At, Registration, apiVars
    <3>2. Store(w, Absent) => lease'[v] = IF v = w THEN Absent ELSE lease[v]
      BY StoreEffect
    <3> QED
      BY <3>1, <3>2 DEF Absent
  <2> QED
    BY <1>0, <1>1, <1>2, <2>1, <2>2, <2>3, PacedFrame
<1> QED
  BY <1>4, <1>5

\* A pass that comes by the Lease of v without renewing it excuses its holder
\* for one pause more, if it was not excused for the Lease's duration already.
LEMMA MissedEffect ==
  ASSUME TypeOK, NEW p \in Pods, NEW w \in Workspaces \cup {None}, Missed(p, w),
         NEW q \in Pods, NEW v \in Workspaces
  PROVE  /\ q # p => excused'[q][v] = excused[q][v]
         /\ excused[q][v] <= excused'[q][v]
         /\ q = p /\ v = w /\ pc[p][v] = "working"
              => \/ excused'[q][v] = excused[q][v] + RefreshEvery
                 \/ excused'[q][v] > Duration
<1> USE TimesAssumption
<1>1. excused[q][v] \in 0 .. (Duration + RefreshEvery)
  BY DEF TypeOK
<1>2. CASE w # None /\ pc[p][w] = "working" /\ excused[p][w] <= Duration
  <2>1. w \in Workspaces
    BY <1>2
  <2>2. excused' = [excused EXCEPT ![p][w] = @ + RefreshEvery]
    BY <1>2 DEF Missed
  <2>3. excused'[q][v] = IF q = p /\ v = w THEN excused[q][v] + RefreshEvery ELSE excused[q][v]
    BY <2>1, <2>2 DEF TypeOK
  <2> QED
    BY <1>1, <2>3
<1>3. CASE ~(w # None /\ pc[p][w] = "working" /\ excused[p][w] <= Duration)
  <2>1. excused' = excused
    BY <1>3 DEF Missed
  <2> QED
    BY <1>1, <1>3, <2>1, NoneAssumption
<1> QED
  BY <1>2, <1>3

\* refreshLeases: what its own pass leaves of the pace, renewal apart.
LEMMA PacedOwnPass ==
  ASSUME TypeOK, CopyOK, Registration, Pace, NEW q \in Pods, Refresh(q),
         NEW v \in Workspaces, lease'[v] = lease[v], pc' = pc, alive' = alive,
         pc[q][v] = "working"
  PROVE  Paced(q, v)'
<1> USE NoneAssumption, TimesAssumption, LeaseNamesAssumption
<1>0. Paced(q, v) /\ leases[q][leaseName[v]] = v
  BY DEF Pace, Registration, ReleaseFindsEntry
<1>t. /\ lease[v].age \in Nat /\ lease[v].age <= Duration + 1
      /\ excused[q][v] \in Nat /\ sleptFor[q] \in Nat /\ sleptFor[q] <= RefreshEvery
      /\ Due(q, v) \in Nat /\ Due(q, v) <= RefreshEvery
  BY PaceType
<1>f. refresher[q].todo \in SUBSET LeaseNames /\ refresher[q].ws \in Workspaces \cup {None}
  BY DEF TypeOK, Refreshers
\* Enough: nothing is due any less, or the pause that was due is excused.
<1>g. ASSUME excused'[q][v] \in Nat, Due(q, v)' \in Nat,
             \/ excused'[q][v] + Due(q, v)' >= excused[q][v] + Due(q, v)
             \/ excused'[q][v] > Duration
      PROVE  Paced(q, v)'
  BY <1>0, <1>t, <1>g DEF Paced
<1>1. CASE RefreshBegins(q)
  <2>1. refresher'[q].step = "range" /\ leaseName[v] \in refresher'[q].todo
    BY <1>0, <1>1 DEF RefreshBegins, TypeOK, Ranging, Refresher
  <2>2. Due(q, v)' = RefreshEvery /\ excused' = excused
    BY <1>1, <2>1 DEF Due, RefreshBegins, observations
  <2> QED
    BY <1>g, <1>t, <2>2
<1>2. CASE RefreshStores(q)
  <2>1. refresher[q].step = "store" /\ refresher'[q].step = "range"
        /\ refresher'[q].todo = refresher[q].todo
    BY <1>2 DEF RefreshStores, TypeOK, Ranging, Refresher
  <2>2. Due(q, v)' = Due(q, v) /\ excused' = excused
    BY <1>2, <2>1 DEF Due, RefreshStores, observations
  <2> QED
    BY <1>g, <1>t, <2>2
<1>3. CASE RefreshEnds(q)
  <2>1. refresher[q].step = "range" /\ refresher[q].todo = {}
    BY <1>3 DEF RefreshEnds
  <2>2. refresher'[q].step = "sleep" /\ sleptFor'[q] = 0
    BY <1>3 DEF RefreshEnds, TypeOK, Asleep, Refresher
  <2>3. Due(q, v) = 0 /\ Due(q, v)' = 0 /\ excused' = excused
    BY <1>3, <2>1, <2>2 DEF Due, RefreshEnds, observations
  <2> QED
    BY <1>g, <1>t, <2>3
<1>4. CASE RefreshUpdateFails(q)
  <2>1. refresher[q].step = "update" /\ refresher'[q].step = "range"
        /\ refresher'[q].todo = refresher[q].todo /\ Missed(q, refresher[q].ws)
    BY <1>4 DEF RefreshUpdateFails, TypeOK, Ranging, Refresher
  <2>2. /\ excused[q][v] <= excused'[q][v]
        /\ v = refresher[q].ws => \/ excused'[q][v] = excused[q][v] + RefreshEvery
                                  \/ excused'[q][v] > Duration
    BY <1>f, <2>1, MissedEffect
  <2>3. excused'[q][v] \in Nat
    BY <1>f, <2>1 DEF Missed, TypeOK
  <2>4. Due(q, v)' \in Nat /\ (v # refresher[q].ws => Due(q, v)' = Due(q, v))
    BY <2>1 DEF Due
  <2> QED
    BY <1>g, <1>t, <2>2, <2>3, <2>4
<1>5. ASSUME NEW n \in LeaseNames, RefreshSkips(q, n) PROVE Paced(q, v)'
  <2>1. refresher[q].step = "range" /\ refresher'[q].step = "range"
        /\ refresher'[q].todo = refresher[q].todo \ {n} /\ Missed(q, leases[q][n])
    BY <1>5 DEF RefreshSkips, Reaches, TypeOK, Ranging, Refresher
  <2>t. leases[q][n] \in Workspaces \cup {None}
    BY DEF TypeOK
  <2>2. /\ excused[q][v] <= excused'[q][v]
        /\ n = leaseName[v] => \/ excused'[q][v] = excused[q][v] + RefreshEvery
                               \/ excused'[q][v] > Duration
    BY <1>0, <2>1, <2>t, MissedEffect
  <2>3. excused'[q][v] \in Nat
    BY <2>1, <2>t DEF Missed, TypeOK
  <2>4. Due(q, v)' \in Nat /\ (n # leaseName[v] => Due(q, v)' = Due(q, v))
    BY <2>1 DEF Due
  <2> QED
    BY <1>g, <1>t, <2>2, <2>3, <2>4
<1>6. ASSUME NEW n \in LeaseNames, RefreshGets(q, n) PROVE Paced(q, v)'
  <2>1. refresher[q].step = "range"
    BY <1>6 DEF RefreshGets, Reaches
  <2>2. refresher'[q].step = "update" /\ refresher'[q].todo = refresher[q].todo \ {n}
        /\ refresher'[q].ws = leases[q][n]
    BY <1>6 DEF RefreshGets, TypeOK, Refresher
  <2>3. excused' = excused
    BY <1>6 DEF RefreshGets, observations
  <2>4. Due(q, v)' \in Nat /\ Due(q, v)' >= Due(q, v)
    BY <1>0, <2>1, <2>2 DEF Due
  <2> QED
    BY <1>g, <1>t, <2>3, <2>4
<1>7. CASE RefreshUpdates(q)
  <2> DEFINE u == refresher[q].ws
  <2>1. u \in Workspaces /\ refresher[q].step = "update"
    BY <1>7 DEF RefreshUpdates, CopyOK
  <2>2. Outdated(u)[q].todo = refresher[q].todo
    BY DEF Outdated, TypeOK, Refreshers
  <2>3. refresher'[q].step = "store" /\ refresher'[q].todo = refresher[q].todo
    BY <1>7, <2>2 DEF RefreshUpdates, Outdated, Refresher
  <2>4. excused'[q][v] = IF v = u THEN 0 ELSE excused[q][v]
    BY <1>7, <2>1 DEF RefreshUpdates, Renew, TypeOK
  <2>5. CASE v = u
    <3>1. lease'[v].age = 0
      BY <1>7, <2>1, <2>5 DEF RefreshUpdates, Renew, TypeOK, NewLease
    <3>2. Due(q, v)' \in Nat
      BY <2>3 DEF Due
    <3> QED
      BY <1>0, <2>4, <2>5, <3>1, <3>2 DEF Paced
  <2>6. CASE v # u
    <3>1. Due(q, v)' = Due(q, v)
      BY <2>1, <2>3, <2>6 DEF Due
    <3> QED
      BY <1>g, <1>t, <2>4, <2>6, <3>1
  <2> QED
    BY <2>5, <2>6
<1> QED
  BY <1>1, <1>2, <1>3, <1>4, <1>5, <1>6, <1>7 DEF Refresh

\* refreshLeases of any pod p, seen from the worker of q.
LEMMA PacedRefresh ==
  ASSUME TypeOK, TypeOK', CopyOK, Registration, Pace, NEW p \in Pods, Refresh(p),
         NEW q \in Pods, NEW v \in Workspaces
  PROVE  Paced(q, v)'
<1> USE NoneAssumption, TimesAssumption
<1>0. Paced(q, v)
  BY DEF Pace
<1>1. /\ pc' = pc /\ alive' = alive
      /\ \/ lease'[v] = lease[v]
         \/ lease'[v].age = 0 /\ excused'[q][v] = 0
  BY RefreshLease
<1>2. CASE pc[q][v] # "working"
  BY <1>0, <1>1, <1>2 DEF Paced
<1>3. CASE lease'[v].age = 0 /\ excused'[q][v] = 0
  <2>1. Due(q, v)' \in Nat
    BY DEF TypeOK, Due
  <2> QED
    BY <1>0, <1>1, <1>3, <2>1 DEF Paced
<1>4. CASE q = p /\ pc[q][v] = "working" /\ lease'[v] = lease[v]
  BY <1>1, <1>4, PacedOwnPass
<1>5. CASE q # p /\ lease'[v] = lease[v] /\ ~(excused'[q][v] = 0 /\ lease'[v].age = 0)
  <2>1. /\ refresher'[q].step = refresher[q].step
        /\ refresher'[q].todo = refresher[q].todo
        /\ refresher'[q].ws = refresher[q].ws
    <3>1. CASE RefreshUpdates(p)
      <4>1. refresher'[q] = Outdated(refresher[p].ws)[q]
        BY <1>5, <3>1 DEF RefreshUpdates, Outdated
      <4> QED
        BY <4>1 DEF Outdated, TypeOK, Refreshers
    <3>2. CASE ~RefreshUpdates(p)
      <4>1. refresher'[q] = refresher[q]
        BY <1>5, <3>2
        DEF Refresh, RefreshBegins, RefreshUpdateFails, RefreshStores, RefreshEnds,
            RefreshSkips, RefreshGets, TypeOK
      <4> QED
        BY <4>1
    <3> QED
      BY <3>1, <3>2
  <2>2. sleptFor'[q] = sleptFor[q]
    BY <1>5
    DEF Refresh, RefreshBegins, RefreshUpdates, RefreshUpdateFails, RefreshStores,
        RefreshEnds, RefreshSkips, RefreshGets, TypeOK
  <2>3. excused'[q][v] = excused[q][v]
    <3>1. CASE RefreshUpdates(p)
      <4>1. excused'[q] = [excused[q] EXCEPT ![refresher[p].ws] = 0]
        BY <3>1 DEF RefreshUpdates, Renew
      <4>2. refresher[p].ws = v => excused'[q][v] = 0 /\ lease'[v].age = 0
        BY <3>1, <4>1 DEF RefreshUpdates, Renew, TypeOK, NewLease
      <4> QED
        BY <1>5, <4>1, <4>2 DEF TypeOK
    <3>2. CASE RefreshUpdateFails(p)
      <4>1. refresher[p].ws \in Workspaces \cup {None} /\ Missed(p, refresher[p].ws)
        BY <3>2 DEF RefreshUpdateFails, TypeOK, Refreshers
      <4> QED
        BY <1>5, <4>1, MissedEffect
    <3>3. ASSUME NEW n \in LeaseNames, RefreshSkips(p, n) PROVE excused'[q][v] = excused[q][v]
      <4>1. leases[p][n] \in Workspaces \cup {None} /\ Missed(p, leases[p][n])
        BY <3>3 DEF RefreshSkips, TypeOK
      <4> QED
        BY <1>5, <4>1, MissedEffect
    <3> QED
      BY <3>1, <3>2, <3>3
      DEF Refresh, RefreshBegins, RefreshStores, RefreshEnds, RefreshGets, observations
  <2>4. alive'[q] = alive[q] /\ pc'[q][v] = pc[q][v]
    BY <1>1
  <2> QED
    BY <1>0, <1>5, <2>1, <2>2, <2>3, <2>4, PacedFrame
<1> QED
  BY <1>1, <1>2, <1>3, <1>4, <1>5

\* A minute passes: pods that keep the pace have their refreshers asleep.
LEMMA PacedTick ==
  ASSUME ~Stalls, TypeOK, Pace, Tick, NEW q \in Pods, NEW v \in Workspaces
  PROVE  Paced(q, v)'
<1> USE TimesAssumption
<1>0. Paced(q, v)
  BY DEF Pace
<1>1. Timely /\ pc' = pc /\ alive' = alive /\ refresher' = refresher /\ excused' = excused
  BY DEF Tick, workerVars, faultVars
<1>2. lease'[v].holder = lease[v].holder
  BY OlderType DEF Tick, TypeOK
<1>3. CASE pc[q][v] = "working"
  <2>1. refresher[q].step = "sleep" /\ sleptFor[q] < RefreshEvery
    BY <1>0, <1>1, <1>3 DEF Paced, Timely
  <2>2. lease[v].age \in Nat /\ excused[q][v] \in Nat /\ sleptFor[q] \in Nat
    BY PaceType
  <2>3. sleptFor'[q] = sleptFor[q] + 1
    BY <2>1 DEF Tick
  <2>4. lease'[v].age <= lease[v].age + 1 /\ lease'[v].age \in Nat
    <3>1. lease[v] \in LeaseObjects
      BY DEF TypeOK
    <3>2. lease'[v] = Older(lease[v])
      BY DEF Tick
    <3> QED
      BY <2>2, <3>1, <3>2 DEF Older, LeaseObjects
  <2>5. Due(q, v) = sleptFor[q] /\ Due(q, v)' = sleptFor'[q]
    BY <1>1, <2>1 DEF Due
  <2> QED
    BY <1>0, <1>1, <1>2, <2>2, <2>3, <2>4, <2>5 DEF Paced
<1>4. CASE pc[q][v] # "working"
  BY <1>0, <1>1, <1>4 DEF Paced
<1> QED
  BY <1>3, <1>4

LEMMA PaceStep ==
  ASSUME ~Stalls, TypeOK, TypeOK', CopyOK, Registration, Pace, [Next]_vars
  PROVE  Pace'
<1> SUFFICES ASSUME NEW q \in Pods, NEW v \in Workspaces PROVE Paced(q, v)'
  BY DEF Pace
<1>0. Paced(q, v)
  BY DEF Pace
<1>1. ASSUME NEW p \in Pods, NEW w \in Workspaces, Acquire(p, w) PROVE Paced(q, v)'
  BY <1>1, PacedAcquire
<1>2. ASSUME NEW p \in Pods, NEW w \in Workspaces, Release(p, w) PROVE Paced(q, v)'
  BY <1>2, PacedRelease
<1>3. ASSUME NEW p \in Pods, Refresh(p) PROVE Paced(q, v)'
  BY <1>3, PacedRefresh
<1>4. ASSUME NEW p \in Pods, Crash(p) PROVE Paced(q, v)'
  <2>1. CASE q = p
    <3>1. pc'[q][v] = "idle"
      BY <1>4, <2>1 DEF Crash, TypeOK
    <3> QED
      BY <3>1 DEF Paced
  <2>2. CASE q # p
    <3>1. /\ pc'[q] = pc[q] /\ alive'[q] = alive[q] /\ refresher'[q] = refresher[q]
          /\ excused'[q] = excused[q] /\ lease' = lease /\ sleptFor' = sleptFor
      BY <1>4, <2>2 DEF Crash, TypeOK, apiVars
    <3> QED
      BY <1>0, <3>1, PacedFrame
  <2> QED
    BY <2>1, <2>2
<1>5. ASSUME NEW p \in Pods, Restart(p) PROVE Paced(q, v)'
  <2>1. UNCHANGED <<lease, pc, refresher, excused>>
    BY <1>5 DEF Restart, workerVars, observations
  <2>2. CASE q = p
    <3>1. pc[q][v] = "idle"
      BY <1>0, <1>5, <2>2 DEF Restart, Paced
    <3> QED
      BY <2>1, <3>1 DEF Paced
  <2>3. CASE q # p
    <3>1. alive'[q] = alive[q] /\ sleptFor'[q] = sleptFor[q]
      BY <1>5, <2>3 DEF Restart, TypeOK
    <3> QED
      BY <1>0, <2>1, <3>1, PacedFrame
  <2> QED
    BY <2>2, <2>3
<1>6. CASE (\E p \in Pods, w \in Workspaces : Deliver(p, w)) \/ UNCHANGED vars
  <2>1. UNCHANGED <<lease, pc, alive, refresher, sleptFor, excused>>
    BY <1>6 DEF Deliver, vars, workerVars, refresherVars, faultVars, observations
  <2> QED
    BY <1>0, <2>1, PacedFrame
<1>7. CASE Tick
  BY <1>7, PacedTick
<1> QED
  BY <1>1, <1>2, <1>3, <1>4, <1>5, <1>6, <1>7 DEF Next

-----------------------------------------------------------------------------
(* The results *)

\* Any number of pods and workspaces, any crashes, failed calls, stalls and
\* lagging caches: of two pods that reconcile a workspace, one has gone astray
\* in one of the named ways.  [acquireLease]
THEOREM MutualExclusion ==
  ASSUME DistinctNames
  PROVE  Spec => []Exclusive
<1>1. Holding => Exclusive
  BY DEF Holding, Holds, Relies, Exclusive
<1> QED
  BY <1>1, HoldingInvariant, PTL

\* In the same generality, a release deletes its own pod's lease, unless the pod
\* has gone astray.  [releaseLease]
THEOREM ReleaseOfOwn ==
  ASSUME DistinctNames
  PROVE  Spec => []ReleasesOwnLease
<1>1. Registration /\ Holding => ReleasesOwnLease
  BY DEF Registration, Holding, Holds, Relies, ReleasesOwnLease
<1> QED
  BY <1>1, HoldingInvariant, PTL

\* With pods that keep their pace, whatever their caches say and however many
\* calls fail: a lease expires under its holder's work only if its age at the
\* start and the passes that did not renew it explain that.  [refreshLeases]
THEOREM WorkUnderLease ==
  ASSUME DistinctNames, ~Stalls
  PROVE  Spec => []WorkerHoldsLease
<1>1. Init => Pace
  BY DEF Init, Pace, Paced
<1>2. TypeOK /\ CopyOK /\ Registration /\ Pace /\ [Next]_vars /\ TypeOK' => Pace'
  BY PaceStep
<1>3. TypeOK /\ Pace => WorkerHoldsLease
  <2> SUFFICES ASSUME TypeOK, Pace, NEW p \in Pods, NEW w \in Workspaces,
                      pc[p][w] = "working", lease[w].holder = p,
                      excused[p][w] + RefreshEvery <= Duration
               PROVE  ~Expired(lease[w])
    BY DEF WorkerHoldsLease
  <2>1. lease[w].age <= excused[p][w] + Due(p, w)
    BY DEF Pace, Paced
  <2>2. /\ lease[w].age \in Nat /\ excused[p][w] \in Nat
        /\ Due(p, w) \in Nat /\ Due(p, w) <= RefreshEvery
    BY PaceType
  <2> QED
    BY <2>1, <2>2, TimesAssumption DEF Expired
<1> QED
  BY <1>1, <1>2, <1>3, RegistrationInvariant, PTL DEF Spec

=============================================================================
