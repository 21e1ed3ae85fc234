--------------------------- MODULE WorkspaceLease ---------------------------
(***************************************************************************)
(* The per-workspace lease of the operator: acquireLease, releaseLease,    *)
(* addLease and the refreshLeases goroutine of                             *)
(* internal/controller/workspace.go, run by several operator pods against  *)
(* one API server.                                                         *)
(*                                                                         *)
(* A pod runs at most one worker per workspace (the controller's work      *)
(* queue serialises a key), any number of workspaces at once, and one      *)
(* refresher.  Every call on the API server is a step of its own, as is    *)
(* every access to the pod's r.leases map that another goroutine can see   *)
(* between two calls.                                                      *)
(*                                                                         *)
(* Time is counted in ticks of about the refresher's minute.  A Lease      *)
(* object keeps its age, the ticks since its renewTime, up to Duration+1,  *)
(* which is "expired".                                                     *)
(***************************************************************************)
EXTENDS Naturals

CONSTANTS
  Pods,          \* operator pods, named by their hostname (the holder identity)
  Workspaces,    \* Workspace objects: a namespace and a name
  LeaseNames,    \* the values leaseName() can return
  leaseName,     \* leaseName[w]: built from the name of w, not its namespace
  None,          \* no pod, no workspace
  Duration,      \* leaseDurationSeconds, in ticks
  RefreshEvery,  \* sleep of the refresher between two passes, in ticks
  Restartable,   \* pods whose container restarts in place, under the same hostname
  MaxFaults,     \* bound on crashes and failed API calls
  Stalls,        \* TRUE: a live pod may be suspended, or cut off, for any time
  StaleReads     \* TRUE: Get answers from the pod's informer cache

ASSUME LeaseNamesAssumption == leaseName \in [Workspaces -> LeaseNames]
ASSUME NoneAssumption == None \notin Pods /\ None \notin Workspaces
ASSUME TimesAssumption ==
  /\ Duration \in Nat /\ RefreshEvery \in Nat \ {0} /\ RefreshEvery <= Duration
ASSUME FaultsAssumption ==
  /\ Restartable \subseteq Pods /\ MaxFaults \in Nat
  /\ Stalls \in BOOLEAN /\ StaleReads \in BOOLEAN

VARIABLES
  lease,      \* the Lease object of each workspace, as the API server stores it
  view,       \* each pod's informer cache of it
  leases,     \* each pod's r.leases: lease name -> workspace of the stored Lease
  pc,         \* where each pod's worker for each workspace is
  target,     \* the Lease a releasing worker took out of r.leases
  refresher,  \* the refreshLeases goroutine of each pod
  sleptFor,   \* ticks since that goroutine's last pass
  alive,      \* whether the pod's process runs
  faults,     \* crashes and failed calls so far
  read,       \* observation: the Lease a taker read is still the one stored
  astray,     \* observation: the worker lost its Lease, or never had it, in one
              \*   of the ways that the code does nothing against
  excused     \* observation: the ticks that the age of a worker's Lease has
              \*   from before the work and from passes that did not renew it

vars == <<lease, view, leases, pc, target, refresher, sleptFor, alive, faults,
          read, astray, excused>>

apiVars == <<lease, view>>
workerVars == <<leases, pc, target>>
refresherVars == <<refresher, sleptFor>>
faultVars == <<alive, faults>>
observations == <<read, astray, excused>>

-----------------------------------------------------------------------------
(* Lease objects *)

Ages == 0 .. (Duration + 1)
LeaseObjects == [holder : Pods \cup {None}, age : Ages]

Absent == [holder |-> None, age |-> 0]
NewLease(p) == [holder |-> p, age |-> 0]

Exists(l) == l.holder # None

\* expiresAt.Before(renewTime)
Expired(l) == l.age > Duration

\* Faulty variant: the age is not capped.
OlderForever(l) == IF Exists(l) THEN [l EXCEPT !.age = @ + 1] ELSE l

Older(l) == IF Exists(l) /\ l.age <= Duration THEN [l EXCEPT !.age = @ + 1] ELSE l

\* The client the manager hands out reads from its cache and writes through.
Get(p, w) == IF StaleReads THEN view[p][w] ELSE lease[w]

-----------------------------------------------------------------------------
(* Workers and refreshers *)

\* Steps of a worker: "get", "takeover" and "recreate" are inside acquireLease,
\* "working" is the rest of Reconcile, "releasing" is inside releaseLease.
WorkerSteps == {"idle", "get", "takeover", "recreate", "working", "releasing"}

\* A refresher that has read the Lease of ws keeps a copy of it: the holder it
\* read, and whether the resourceVersion it read is still the current one.
Refresher(step, todo, ws, holder, fresh) ==
  [step |-> step, todo |-> todo, ws |-> ws, holder |-> holder, fresh |-> fresh]
Asleep == Refresher("sleep", {}, None, None, FALSE)
Ranging(todo) == Refresher("range", todo, None, None, FALSE)
Refreshers == [step : {"sleep", "range", "update", "store"},
               todo : SUBSET LeaseNames,
               ws : Workspaces \cup {None},
               holder : Pods \cup {None},
               fresh : BOOLEAN]

\* A write to the Lease of w moves its resourceVersion: the copies that
\* refreshers and takers hold of it are out of date from now on.
Outdated(w) ==
  [q \in Pods |-> IF refresher[q].ws = w
                  THEN [refresher[q] EXCEPT !.fresh = FALSE]
                  ELSE refresher[q]]

Store(w, l) ==
  /\ lease' = [lease EXCEPT ![w] = l]
  /\ refresher' = Outdated(w)
  /\ read' = [q \in Pods |-> [read[q] EXCEPT ![w] = FALSE]]

\* The refresher's Update renews the Lease of the copy it read.
Renew(p) ==
  /\ lease' = [lease EXCEPT ![refresher[p].ws] = NewLease(refresher[p].holder)]
  /\ read' = [q \in Pods |-> [read[q] EXCEPT ![refresher[p].ws] = FALSE]]
  /\ excused' = [q \in Pods |-> [excused[q] EXCEPT ![refresher[p].ws] = 0]]

MayFail == faults < MaxFaults
Fail == MayFail /\ faults' = faults + 1

Init ==
  /\ lease = [w \in Workspaces |-> Absent]
  /\ view = [p \in Pods |-> [w \in Workspaces |-> Absent]]
  /\ leases = [p \in Pods |-> [n \in LeaseNames |-> None]]
  /\ pc = [p \in Pods |-> [w \in Workspaces |-> "idle"]]
  /\ target = [p \in Pods |-> [w \in Workspaces |-> None]]
  /\ refresher = [p \in Pods |-> Asleep]
  /\ sleptFor = [p \in Pods |-> RefreshEvery]
  /\ alive = [p \in Pods |-> TRUE]
  /\ faults = 0
  /\ read = [p \in Pods |-> [w \in Workspaces |-> FALSE]]
  /\ astray = [p \in Pods |-> [w \in Workspaces |-> FALSE]]
  /\ excused = [p \in Pods |-> [w \in Workspaces |-> 0]]

-----------------------------------------------------------------------------
(* Observations: they record, and no action waits for them *)

\* Steps at which a worker relies on the Lease of its workspace.
Relies(p, w) == pc[p][w] \in {"working", "releasing"}

\* Whoever works on w goes on without the Lease that is deleted now.
LedAstray(w) ==
  [p \in Pods |-> [astray[p] EXCEPT ![w] = @ \/ Relies(p, w)]]

\* The worker of p for w begins under its own Lease: as old as it is, and
\* misled if the cache says it is p's and unexpired but the API server does not.
Begins(p, w) ==
  /\ excused' = [excused EXCEPT ![p][w] = lease'[w].age]
  /\ astray' = [astray EXCEPT
       ![p][w] = lease'[w].holder # p \/ Expired(lease'[w])]

Ends(p, w) ==
  /\ excused' = [excused EXCEPT ![p][w] = 0]
  /\ astray' = [astray EXCEPT ![p][w] = FALSE]

\* A pass of p comes by without renewing the Lease of w.
Missed(p, w) ==
  excused' = IF w # None /\ pc[p][w] = "working" /\ excused[p][w] <= Duration
             THEN [excused EXCEPT ![p][w] = @ + RefreshEvery] ELSE excused

-----------------------------------------------------------------------------
(* acquireLease *)

\* The worker is at step s of a live pod.
At(p, w, s) == alive[p] /\ pc[p][w] = s
GoTo(p, w, s) == pc' = [pc EXCEPT ![p][w] = s]

\* addLease: sync.Map.Store under the lease's name, whatever was there.
addLease(p, w) == leases' = [leases EXCEPT ![p][leaseName[w]] = w]

\* Create, retried on AlreadyExists; its error is not looked at.
Create(p, w) ==
  /\ At(p, w, "idle")
  /\ IF Exists(lease[w])
     THEN UNCHANGED <<lease, refresher, read>>
     ELSE Store(w, NewLease(p))
  /\ GoTo(p, w, "get")
  /\ UNCHANGED <<view, leases, target, sleptFor, faultVars, astray, excused>>

\* The Get finds nothing, or fails: the reconcile is put off.  A Lease the
\* Create above made stays behind.
LookupFails(p, w) ==
  /\ At(p, w, "get")
  /\ \/ ~Exists(Get(p, w)) /\ UNCHANGED faults
     \/ Exists(Get(p, w)) /\ Fail
  /\ GoTo(p, w, "idle")
  /\ UNCHANGED <<apiVars, leases, target, refresherVars, alive, observations>>

\* Faulty variant: the age is compared with the refresh period.
FindUnrefreshed(p, w) ==
  /\ At(p, w, "get")
  /\ Get(p, w).age >= RefreshEvery
  /\ GoTo(p, w, "takeover")
  /\ read' = [read EXCEPT ![p][w] = Get(p, w) = lease[w]]
  /\ UNCHANGED <<apiVars, leases, target, refresherVars, faultVars, astray, excused>>

FindExpired(p, w) ==
  /\ At(p, w, "get")
  /\ Expired(Get(p, w))
  /\ GoTo(p, w, "takeover")
  /\ read' = [read EXCEPT ![p][w] = Get(p, w) = lease[w]]
  /\ UNCHANGED <<apiVars, leases, target, refresherVars, faultVars, astray, excused>>

\* Not ours: the next check is pushed into the future.
FindForeign(p, w) ==
  /\ At(p, w, "get")
  /\ Exists(Get(p, w)) /\ ~Expired(Get(p, w)) /\ Get(p, w).holder # p
  /\ GoTo(p, w, "idle")
  /\ UNCHANGED <<apiVars, leases, target, refresherVars, faultVars, observations>>

\* Faulty variant: the holder is not compared.
FindAny(p, w) ==
  /\ At(p, w, "get")
  /\ Exists(Get(p, w)) /\ ~Expired(Get(p, w))
  /\ addLease(p, w)
  /\ GoTo(p, w, "working")
  /\ UNCHANGED <<apiVars, target, refresherVars, faultVars, observations>>

\* Ours, whether the Create above made it or an earlier life of this hostname.
FindOwn(p, w) ==
  /\ At(p, w, "get")
  /\ ~Expired(Get(p, w)) /\ Get(p, w).holder = p
  /\ addLease(p, w)
  /\ GoTo(p, w, "working")
  /\ UNCHANGED <<apiVars, target, refresherVars, faultVars, read>>
  /\ Begins(p, w)

\* Faulty variant: the expired Lease is not deleted before the Create.
TakeoverKeeps(p, w) ==
  /\ At(p, w, "takeover")
  /\ GoTo(p, w, "recreate")
  /\ UNCHANGED <<apiVars, leases, target, refresherVars, faultVars, observations>>

\* Delete by name, with no precondition on what is there; its error is ignored.
TakeoverDelete(p, w) ==
  /\ At(p, w, "takeover")
  /\ \/ /\ Store(w, Absent)
        /\ astray' = IF read[p][w] THEN astray ELSE LedAstray(w)
        /\ UNCHANGED faults
     \/ /\ Fail
        /\ read' = [read EXCEPT ![p][w] = FALSE]
        /\ UNCHANGED <<lease, refresher, astray>>
  /\ GoTo(p, w, "recreate")
  /\ UNCHANGED <<view, leases, target, sleptFor, alive, excused>>

TakeoverWins(p, w) ==
  /\ At(p, w, "recreate")
  /\ ~Exists(lease[w])
  /\ Store(w, NewLease(p))
  /\ addLease(p, w)
  /\ GoTo(p, w, "working")
  /\ Begins(p, w)
  /\ UNCHANGED <<view, target, sleptFor, faultVars>>

\* Somebody else was first, or the Create fails: given up either way.
TakeoverLoses(p, w) ==
  /\ At(p, w, "recreate")
  /\ \/ Exists(lease[w]) /\ UNCHANGED faults
     \/ Fail
  /\ GoTo(p, w, "idle")
  /\ UNCHANGED <<apiVars, leases, target, refresherVars, alive, observations>>

-----------------------------------------------------------------------------
(* releaseLease, deferred by Reconcile *)

\* LoadAndDelete under the lease's name; with no entry there ("lease not found
\* during release") the Lease is left to expire.
ReleaseTake(p, w) ==
  /\ At(p, w, "working")
  /\ IF leases[p][leaseName[w]] # None
     THEN /\ leases' = [leases EXCEPT ![p][leaseName[w]] = None]
          /\ target' = [target EXCEPT ![p][w] = leases[p][leaseName[w]]]
          /\ GoTo(p, w, "releasing")
          /\ excused' = [excused EXCEPT ![p][w] = 0] /\ UNCHANGED astray
     ELSE GoTo(p, w, "idle") /\ Ends(p, w) /\ UNCHANGED <<leases, target>>
  /\ UNCHANGED <<apiVars, refresherVars, faultVars, read>>

\* Delete of the Lease taken out, by name: whoever holds it by now.
ReleaseDelete(p, w) ==
  /\ At(p, w, "releasing")
  /\ Store(target[p][w], Absent)
  /\ target' = [target EXCEPT ![p][w] = None]
  /\ GoTo(p, w, "idle")
  /\ astray' = [(IF astray[p][w] THEN LedAstray(target[p][w]) ELSE astray)
                EXCEPT ![p][w] = FALSE]
  /\ UNCHANGED <<view, leases, sleptFor, faultVars, excused>>

\* The Delete fails: the Lease is left to expire.
ReleaseFails(p, w) ==
  /\ At(p, w, "releasing")
  /\ Fail
  /\ target' = [target EXCEPT ![p][w] = None]
  /\ GoTo(p, w, "idle")
  /\ Ends(p, w)
  /\ UNCHANGED <<apiVars, leases, refresherVars, alive, read>>

-----------------------------------------------------------------------------
(* refreshLeases *)

RefreshBegins(p) ==
  /\ alive[p]
  /\ refresher[p].step = "sleep" /\ sleptFor[p] = RefreshEvery
  /\ refresher' = [refresher EXCEPT
       ![p] = Ranging({n \in LeaseNames : leases[p][n] # None})]
  /\ UNCHANGED <<apiVars, workerVars, sleptFor, faultVars, observations>>

\* The pass of p comes to name n.
Reaches(p, n) ==
  alive[p] /\ refresher[p].step = "range" /\ n \in refresher[p].todo

\* The entry under name n is still in r.leases and its Lease can be read.
Refreshable(p, n) == leases[p][n] # None /\ Exists(Get(p, leases[p][n]))

\* Faulty variant: an entry whose Lease is not found is dropped from r.leases.
RefreshForgets(p, n) ==
  /\ Reaches(p, n) /\ ~Refreshable(p, n)
  /\ leases' = [leases EXCEPT ![p][n] = None]
  /\ refresher' = [refresher EXCEPT ![p] = Ranging(@.todo \ {n})]
  /\ UNCHANGED <<apiVars, pc, target, sleptFor, faultVars, observations>>

\* The next entry of the Range: gone since the pass began, or its Lease is, or
\* the Get fails.
RefreshSkips(p, n) ==
  /\ Reaches(p, n)
  /\ \/ (Stalls \/ ~Refreshable(p, n)) /\ UNCHANGED faults
     \/ Fail
  /\ refresher' = [refresher EXCEPT ![p] = Ranging(@.todo \ {n})]
  /\ Missed(p, leases[p][n])
  /\ UNCHANGED <<apiVars, workerVars, sleptFor, alive, read, astray>>

\* Get, which overwrites the copy, holder included.
RefreshGets(p, n) ==
  /\ Reaches(p, n) /\ Refreshable(p, n)
  /\ refresher' = [refresher EXCEPT
       ![p] = Refresher("update", @.todo \ {n}, leases[p][n],
                        Get(p, leases[p][n]).holder,
                        Get(p, leases[p][n]) = lease[leases[p][n]])]
  /\ UNCHANGED <<apiVars, workerVars, sleptFor, faultVars, observations>>

\* Faulty variant: the renewTime is not set before the Update.
RefreshKeepsTime(p) ==
  /\ alive[p]
  /\ refresher[p].step = "update" /\ refresher[p].fresh
  /\ refresher' = [Outdated(refresher[p].ws) EXCEPT
       ![p] = Refresher("store", @.todo, @.ws, None, FALSE)]
  /\ UNCHANGED <<apiVars, workerVars, sleptFor, faultVars, observations>>

\* Faulty variant: the write does not depend on the resourceVersion.
RefreshOverwrites(p) ==
  /\ alive[p]
  /\ refresher[p].step = "update" /\ Exists(lease[refresher[p].ws])
  /\ Renew(p)
  /\ refresher' = [Outdated(refresher[p].ws) EXCEPT
       ![p] = Refresher("store", @.todo, @.ws, None, FALSE)]
  /\ UNCHANGED <<view, workerVars, sleptFor, faultVars, astray>>

\* Update of the whole object under the resourceVersion read.
RefreshUpdates(p) ==
  /\ alive[p]
  /\ refresher[p].step = "update" /\ refresher[p].fresh
  /\ Renew(p)
  /\ refresher' = [Outdated(refresher[p].ws) EXCEPT
       ![p] = Refresher("store", @.todo, @.ws, None, FALSE)]
  /\ UNCHANGED <<view, workerVars, sleptFor, faultVars, astray>>

\* A conflict, which a retry with the same copy meets again, or any other
\* failure: on to the next entry.
RefreshUpdateFails(p) ==
  /\ alive[p]
  /\ refresher[p].step = "update"
  /\ \/ (Stalls \/ ~refresher[p].fresh) /\ UNCHANGED faults
     \/ Fail
  /\ refresher' = [refresher EXCEPT ![p] = Ranging(@.todo)]
  /\ Missed(p, refresher[p].ws)
  /\ UNCHANGED <<apiVars, workerVars, sleptFor, alive, read, astray>>

\* r.leases.Store after the Update, whether or not the entry is still there.
RefreshStores(p) ==
  /\ alive[p]
  /\ refresher[p].step = "store"
  /\ addLease(p, refresher[p].ws)
  /\ refresher' = [refresher EXCEPT ![p] = Ranging(@.todo)]
  /\ UNCHANGED <<apiVars, pc, target, sleptFor, faultVars, observations>>

RefreshEnds(p) ==
  /\ alive[p]
  /\ refresher[p].step = "range" /\ refresher[p].todo = {}
  /\ refresher' = [refresher EXCEPT ![p] = Asleep]
  /\ sleptFor' = [sleptFor EXCEPT ![p] = 0]
  /\ UNCHANGED <<apiVars, workerVars, faultVars, observations>>

-----------------------------------------------------------------------------
(* The world around the pods *)

\* A pod's process dies with everything in its memory.
Crash(p) ==
  /\ alive[p] /\ Fail
  /\ alive' = [alive EXCEPT ![p] = FALSE]
  /\ leases' = [leases EXCEPT ![p] = [n \in LeaseNames |-> None]]
  /\ pc' = [pc EXCEPT ![p] = [w \in Workspaces |-> "idle"]]
  /\ target' = [target EXCEPT ![p] = [w \in Workspaces |-> None]]
  /\ refresher' = [refresher EXCEPT ![p] = Asleep]
  /\ read' = [read EXCEPT ![p] = [w \in Workspaces |-> FALSE]]
  /\ astray' = [astray EXCEPT ![p] = [w \in Workspaces |-> FALSE]]
  /\ excused' = [excused EXCEPT ![p] = [w \in Workspaces |-> 0]]
  /\ UNCHANGED <<apiVars, sleptFor>>

\* The container restarts in the same pod: same hostname, caches listed anew.
Restart(p) ==
  /\ ~alive[p] /\ p \in Restartable
  /\ alive' = [alive EXCEPT ![p] = TRUE]
  /\ view' = [view EXCEPT ![p] = lease]
  /\ sleptFor' = [sleptFor EXCEPT ![p] = RefreshEvery]
  /\ UNCHANGED <<lease, workerVars, refresher, faults, observations>>

\* The informer of p catches up with the Lease of w.
Deliver(p, w) ==
  /\ StaleReads /\ alive[p] /\ view[p][w] # lease[w]
  /\ view' = [view EXCEPT ![p][w] = lease[w]]
  /\ UNCHANGED <<lease, workerVars, refresherVars, faultVars, observations>>

\* What the code takes for granted of live pods: calls on the API server end
\* well within a minute, and so does a pass over r.leases.
Timely ==
  \A p \in Pods : alive[p] =>
    /\ refresher[p].step = "sleep" /\ sleptFor[p] < RefreshEvery
    /\ \A w \in Workspaces : pc[p][w] \in {"idle", "working"}

Tick ==
  /\ Stalls \/ Timely
  /\ lease' = [w \in Workspaces |-> Older(lease[w])]
  /\ view' = [p \in Pods |-> [w \in Workspaces |-> Older(view[p][w])]]
  /\ sleptFor' = [p \in Pods |-> IF sleptFor[p] < RefreshEvery
                                 THEN sleptFor[p] + 1 ELSE RefreshEvery]
  /\ astray' = [p \in Pods |-> [w \in Workspaces |->
       astray[p][w] \/ (Relies(p, w) /\ Expired(lease'[w]))]]
  /\ UNCHANGED <<workerVars, refresher, faultVars, read, excused>>

-----------------------------------------------------------------------------

Acquire(p, w) ==
  \/ Create(p, w) \/ LookupFails(p, w) \/ FindExpired(p, w)
  \/ FindForeign(p, w) \/ FindOwn(p, w)
  \/ TakeoverDelete(p, w) \/ TakeoverWins(p, w) \/ TakeoverLoses(p, w)

Release(p, w) ==
  ReleaseTake(p, w) \/ ReleaseDelete(p, w) \/ ReleaseFails(p, w)

Refresh(p) ==
  \/ RefreshBegins(p) \/ RefreshUpdates(p) \/ RefreshUpdateFails(p)
  \/ RefreshStores(p) \/ RefreshEnds(p)
  \/ \E n \in LeaseNames : RefreshSkips(p, n) \/ RefreshGets(p, n)

Next ==
  \/ \E p \in Pods, w \in Workspaces :
       Acquire(p, w) \/ Release(p, w) \/ Deliver(p, w)
  \/ \E p \in Pods : Refresh(p) \/ Crash(p) \/ Restart(p)
  \/ Tick

Spec == Init /\ [][Next]_vars

\* Every worker and refresher that can move does (the Go scheduler); the work
\* queue brings a workspace back after every outcome; a container that can be
\* restarted is.  Minutes pass although workers keep polling, whence SF.
Fairness ==
  /\ \A p \in Pods, w \in Workspaces :
       /\ WF_vars(Acquire(p, w))
       /\ WF_vars(Release(p, w))
  /\ \A p \in Pods : WF_vars(Refresh(p)) /\ WF_vars(Restart(p))
  /\ SF_vars(Tick)

LiveSpec == Spec /\ Fairness

-----------------------------------------------------------------------------
(* Properties *)

TypeOK ==
  /\ lease \in [Workspaces -> LeaseObjects]
  /\ view \in [Pods -> [Workspaces -> LeaseObjects]]
  /\ leases \in [Pods -> [LeaseNames -> Workspaces \cup {None}]]
  /\ pc \in [Pods -> [Workspaces -> WorkerSteps]]
  /\ target \in [Pods -> [Workspaces -> Workspaces \cup {None}]]
  /\ refresher \in [Pods -> Refreshers]
  /\ sleptFor \in [Pods -> 0 .. RefreshEvery]
  /\ alive \in [Pods -> BOOLEAN]
  /\ faults \in 0 .. MaxFaults
  /\ read \in [Pods -> [Workspaces -> BOOLEAN]]
  /\ astray \in [Pods -> [Workspaces -> BOOLEAN]]
  /\ excused \in [Pods -> [Workspaces -> 0 .. (Duration + RefreshEvery)]]

\* Of two pods that reconcile a workspace at the same time, one has gone astray:
\* its lease expired under it, or was deleted by a pod that read it before a
\* change or had itself gone astray, or its cache still called the lease its
\* own.  Crashes, restarts, failed calls, takeovers and lagging caches lead to
\* two workers in no other way.  [acquireLease and releaseLease: "if we don't
\* get it, then we don't proceed"]
Exclusive ==
  \A w \in Workspaces : \A p, q \in Pods :
    (/\ pc[p][w] = "working" /\ ~astray[p][w]
     /\ pc[q][w] = "working" /\ ~astray[q][w]) => p = q

\* The refresher is fast enough: a pod's lease does not expire under its work
\* unless so many passes in a row failed to renew it, or it was so old when the
\* work began, that their time and one more pause exceed its duration.
\* [refreshLeases against leaseDurationSeconds]
WorkerHoldsLease ==
  \A p \in Pods, w \in Workspaces :
    (/\ pc[p][w] = "working" /\ lease[w].holder = p
     /\ excused[p][w] + RefreshEvery <= Duration) => ~Expired(lease[w])

\* A pod about to delete a lease on release deletes its own, never one that
\* another pod holds, unless it has gone astray.  [releaseLease]
ReleasesOwnLease ==
  \A p \in Pods, w \in Workspaces :
    (pc[p][w] = "releasing" /\ ~astray[p][w]) => lease[target[p][w]].holder = p

\* The deferred release always finds its entry in r.leases, and it is the
\* entry of its own workspace, in spite of the refresher's concurrent Stores.
\* [releaseLease: "lease not found during release"; "This should never happen"]
ReleaseFindsEntry ==
  \A p \in Pods, w \in Workspaces :
    pc[p][w] = "working" => leases[p][leaseName[w]] = w

\* A Lease passes from one pod to another by being deleted and made again,
\* never by a refresher's Update of a copy it read before the change of hands.
\* [refreshLeases: Get, set RenewTime, Update of the whole object]
ChangesHandsByDeletion ==
  [][\A w \in Workspaces :
       Exists(lease[w]) /\ Exists(lease'[w]) => lease'[w].holder = lease[w].holder]_vars

\* A worker that won a takeover by Delete and Create, or found the Lease its
\* own, is the only one at work: the unconditional form of Exclusive.
\* [acquireLease: "if it is it means we took over the lease"]
AlwaysExclusive ==
  \A w \in Workspaces : \A p, q \in Pods :
    pc[p][w] = "working" /\ pc[q][w] = "working" => p = q

\* A worker's release finds an entry in r.leases, whatever other workspaces the
\* pod works on.  [releaseLease: "lease not found during release"; "This should
\* never happen"]
EntryNeverMissing ==
  \A p \in Pods, w \in Workspaces :
    pc[p][w] = "working" => leases[p][leaseName[w]] # None

\* releaseLease leaves alone a lease that another pod holds, in every case.
NeverReleasesForeignLease ==
  \A p \in Pods, w \in Workspaces :
    pc[p][w] = "releasing" => lease[target[p][w]].holder \in {p, None}

\* Whatever is left behind by crashes and failed calls, each workspace goes on
\* being reconciled by some pod: an expired lease is taken over in the end, and
\* a lease that is refused as foreign is indeed somebody's who works.
\* [acquireLease: "assume someone else handles refresh of this workspace"]
AlwaysHandledAgain ==
  \A w \in Workspaces : []<>(\E p \in Pods : pc[p][w] = "working")

=============================================================================
