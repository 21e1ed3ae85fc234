------------------------------- MODULE InitSkip -------------------------------
(***************************************************************************)
(* When a replica may go without "init -upgrade":                          *)
(* handleRefreshDependencies, initSkipDecision and recordSuccessfulInit of *)
(* internal/controller/workspace.go over the marker and the fingerprint of *)
(* pkg/runner/fingerprint.go.                                              *)
(*                                                                         *)
(* One workspace, several pods, each with a workspace directory of its     *)
(* own; the lease lets one pod reconcile at a time, in any order.  What a  *)
(* pod goes by is spread over its disk (main.tf, the lock file, the        *)
(* marker), its memory (the BootID) and the status that all pods share.    *)
(* The reconcile around init is in WorkspaceReconcile; here it only ends   *)
(* well, or not.                                                           *)
(***************************************************************************)
EXTENDS Naturals

CONSTANTS
  Pods,         \* replicas of the operator
  None,         \* nothing there
  Configs,      \* what main.tf can be rendered to
  Settings,     \* of the tool: which, its version and .terraformrc
  Envs,         \* values of the environment read from secrets and config maps
  Specs,        \* what users ask for, in main.tf and settings
  Starts,       \* of specs with the environment: what they may be at first, when made
  Pinned,       \* TRUE: the module and its nested modules are pinned
  Interval,     \* forceInitInterval, in ticks
  Delay,        \* ticks that may pass between an init and the writing of its marker
  Losable,      \* of Writes: those, their errors logged or dropped, that can fail
  MaxEdits, MaxReleases, MaxFaults   \* bounds

\* Of an init: the phase before it, the marker's removal, the fingerprint, the marker.
Writes == {"phase", "removal", "fingerprint", "marker"}

ASSUME SettingAssumption ==
  /\ None \notin Pods
  /\ Specs \subseteq [main : Configs, settings : Settings]
  /\ Starts \subseteq [spec : Specs, env : Envs]
  /\ Pinned \in BOOLEAN /\ Losable \subseteq Writes
ASSUME NumbersAssumption ==
  {Interval, Delay, MaxEdits, MaxReleases, MaxFaults} \subseteq Nat

VARIABLES
  object,    \* generation, spec, and the status fields init reads
  env,       \* the environment as it is now
  dir,       \* each pod's workspace directory
  marker,    \* the init marker in it
  worker,    \* the reconcile that runs, and its pod
  upstream,  \* version of the dependencies that init -upgrade would install
  released,  \* observation: how long ago each version came out, in ticks
  lastInit,  \* observation: version that the last successful init installed
  unstored,  \* observation: the fingerprint of the last init that got that far was not stored
  edits, faults   \* how many so far

objectVars == <<object, env, edits>>
diskVars == <<dir, marker>>
worldVars == <<upstream, released>>
initVars == <<lastInit, unstored>>
vars == <<objectVars, diskVars, worker, worldVars, initVars, faults>>

-----------------------------------------------------------------------------

Versions == 1 .. (1 + MaxReleases)
Updates == 2 .. (1 + MaxReleases)   \* the versions that come out later
Inputs == [main : Configs, settings : Settings, env : Envs]

\* What InitFingerprint hashes: main.tf, the settings, the environment, and the
\* files that init writes, which tell one version of the dependencies from another.
Fingerprints == [inputs : Inputs, lock : Versions \cup {0}]

Objects ==
  [generation : 1 .. (MaxEdits + 1), spec : Specs, observed : 0 .. (MaxEdits + 1),
   completed : BOOLEAN,    \* TerraformPhase = Completed
   retrying : BOOLEAN,     \* Backoff.RetryCount > 0
   valid : BOOLEAN,        \* ValidRender
   fingerprint : Fingerprints \cup {None}]    \* InitFingerprint

\* lock: the version in .terraform.lock.hcl and modules.json; intact: .terraform
\* has all of it; inputs: what it was made from.
Directories ==
  [lock : Versions \cup {0}, intact : BOOLEAN, inputs : Inputs \cup {None}]

\* tool: observation, the settings of the tool that ran the init.
InitMarkers ==
  [fingerprint : Fingerprints, generation : 1 .. (MaxEdits + 1),
   thisBoot : BOOLEAN, age : 0 .. (Interval + 1), tool : Settings]
Markers == InitMarkers \cup {None}

ASSUME NoRecordAssumption == None \notin Fingerprints /\ None \notin InitMarkers

Steps ==
  {"init", "skip", "initializing", "installed", "validated", "recorded", "using",
   "errored", "backoff"}

\* settings, generation: of the worker's copy of the object, as it read it last;
\* the tool keeps the settings among its inputs.  delay: ticks since the tool ended.
Workers ==
  [pod : Pods, step : Steps, inputs : Inputs, settings : Settings,
   generation : 1 .. (MaxEdits + 1), delay : 0 .. Delay] \cup {None}

NewObject(s) ==
  [generation |-> 1, spec |-> s, observed |-> 0, completed |-> FALSE,
   retrying |-> FALSE, valid |-> FALSE, fingerprint |-> None]
NoDirectory == [lock |-> 0, intact |-> FALSE, inputs |-> None]

Init ==
  /\ \E i \in Starts : object = NewObject(i.spec) /\ env = i.env
  /\ dir = [p \in Pods |-> NoDirectory]
  /\ marker = [p \in Pods |-> None]
  /\ worker = None
  /\ upstream = 1 /\ lastInit = 0 /\ unstored = FALSE
  /\ released = [v \in Updates |-> 0]
  /\ edits = 0 /\ faults = 0

At(p, s) == worker # None /\ worker.pod = p /\ worker.step = s
GoTo(s) == worker' = [worker EXCEPT !.step = s, !.delay = 0]

Fail == faults < MaxFaults /\ faults' = faults + 1

\* A write of the status whose error the handler drops.
TryWrite(o) ==
  \/ object' = o /\ UNCHANGED faults
  \/ Fail /\ UNCHANGED object

-----------------------------------------------------------------------------
(* Rendering, and the decision *)

Now == [main |-> object.spec.main, settings |-> object.spec.settings, env |-> env]
Fingerprint(p, inputs) == [inputs |-> inputs, lock |-> dir[p].lock]

\* Faulty variant: the status's fingerprint is not compared.
GoesByMarker(p, force) ==
  /\ ~force /\ Pinned
  /\ object.observed = object.generation
  /\ object.completed /\ ~object.retrying /\ object.valid
  /\ marker[p] # None
  /\ marker[p].thisBoot
  /\ marker[p].generation = object.generation
  /\ marker[p].age <= Interval
  /\ marker[p].fingerprint = Fingerprint(p, Now)

\* Faulty variant: the current fingerprint is not calculated.
TrustsMarker(p, force) ==
  /\ ~force /\ Pinned
  /\ object.observed = object.generation
  /\ object.completed /\ ~object.retrying /\ object.valid
  /\ marker[p] # None
  /\ marker[p].thisBoot
  /\ marker[p].generation = object.generation
  /\ marker[p].age <= Interval
  /\ marker[p].fingerprint = object.fingerprint

\* Faulty variant: the age of the marker is not looked at.
IgnoresAge(p, force) ==
  /\ ~force /\ Pinned
  /\ object.observed = object.generation
  /\ object.completed /\ ~object.retrying /\ object.valid
  /\ marker[p] # None
  /\ marker[p].thisBoot
  /\ marker[p].generation = object.generation
  /\ marker[p].fingerprint = Fingerprint(p, Now)
  /\ object.fingerprint = marker[p].fingerprint

\* initSkipDecision.  An object under deletion is never skipped for, and is not
\* among the objects here.  Init is not skipped either when modules are found
\* missing from .terraform; nothing below relies on that.
SkipDecision(p, force) ==
  /\ ~force /\ Pinned
  /\ object.observed = object.generation
  /\ object.completed /\ ~object.retrying /\ object.valid
  /\ marker[p] # None
  /\ marker[p].thisBoot
  /\ marker[p].generation = object.generation
  /\ marker[p].age <= Interval
  /\ marker[p].fingerprint = Fingerprint(p, Now)
  /\ object.fingerprint = marker[p].fingerprint

\* The lease is p's; tool, environment and main.tf are set up from what is there
\* now.  A manual retry ends the backing off and forces a full init; so does an
\* edit before the decision reads the object again.
Begin(p, force) ==
  /\ worker = None
  /\ worker' = [pod |-> p, step |-> IF SkipDecision(p, force) THEN "skip" ELSE "init",
                inputs |-> Now, settings |-> Now.settings,
                generation |-> object.generation, delay |-> 0]
  /\ object' = [object EXCEPT !.retrying = @ /\ ~force]
  /\ UNCHANGED <<env, edits, diskVars, worldVars, initVars, faults>>

\* The annotation is not removed, or not even the backing off ended.
ManualRetryFails ==
  /\ worker = None
  /\ Fail
  /\ object' = [object EXCEPT !.retrying = FALSE]
  /\ UNCHANGED <<env, edits, diskVars, worker, worldVars, initVars>>

\* Setup, a secret that is missing, or rendering.
SetupFails(p) ==
  /\ At(p, "init") \/ At(p, "skip")
  /\ Fail
  /\ GoTo("errored")
  /\ UNCHANGED <<objectVars, diskVars, worldVars, initVars>>

SkipInit(p) ==
  /\ At(p, "skip")
  /\ TryWrite([object EXCEPT !.completed = FALSE])
  /\ GoTo("using")
  /\ UNCHANGED <<env, edits, diskVars, worldVars, initVars>>

-----------------------------------------------------------------------------
(* A full init *)

\* The phase, then RemoveInitMarker.
InitBegins(p) ==
  /\ At(p, "init")
  /\ \/ /\ object' = [object EXCEPT !.completed = FALSE]
        /\ marker' = [marker EXCEPT ![p] = None] /\ UNCHANGED faults
     \/ /\ "phase" \in Losable /\ Fail
        /\ marker' = [marker EXCEPT ![p] = None] /\ UNCHANGED object
     \/ /\ "removal" \in Losable /\ Fail
        /\ object' = [object EXCEPT !.completed = FALSE] /\ UNCHANGED marker
  /\ GoTo("initializing")
  /\ UNCHANGED <<env, edits, dir, worldVars, initVars>>

Installed == [lock |-> upstream, intact |-> TRUE, inputs |-> worker.inputs]

\* TerraformInit, with the tool as it was set up.
InitEnds(p) ==
  /\ At(p, "initializing")
  /\ dir' = [dir EXCEPT ![p] = Installed]
  /\ lastInit' = upstream
  /\ GoTo("installed")
  /\ UNCHANGED <<objectVars, marker, worldVars, unstored, faults>>

\* Validate, and the patch of validRender, which reads the object again.
Validate(p) ==
  /\ At(p, "installed")
  /\ object' = [object EXCEPT !.valid = TRUE]
  /\ worker' = [worker EXCEPT !.step = "validated", !.settings = object.spec.settings]
  /\ UNCHANGED <<env, edits, diskVars, worldVars, initVars, faults>>

\* The configuration is invalid, or either fails.
ValidateFails(p) ==
  /\ At(p, "installed")
  /\ Fail
  /\ \/ UNCHANGED object
     \/ object' = [object EXCEPT !.valid = FALSE]
  /\ GoTo("errored")
  /\ UNCHANGED <<env, edits, diskVars, worldVars, initVars>>

NewFingerprint(p) == Fingerprint(p, [worker.inputs EXCEPT !.settings = worker.settings])

\* recordSuccessfulInit: the fingerprint, of what is on the disk and of the copy
\* read for validRender, to the status, which reads the object once more.
StoreFingerprint(p) ==
  /\ At(p, "validated")
  /\ object' = [object EXCEPT !.fingerprint = NewFingerprint(p)]
  /\ worker' = [worker EXCEPT !.step = "recorded", !.generation = object.generation]
  /\ unstored' = FALSE
  /\ UNCHANGED <<env, edits, diskVars, worldVars, lastInit, faults>>

\* It cannot be computed or stored: there is no marker either.
StoreFingerprintFails(p) ==
  /\ At(p, "validated")
  /\ "fingerprint" \in Losable /\ Fail
  /\ unstored' = TRUE
  /\ GoTo("using")
  /\ UNCHANGED <<objectVars, diskVars, worldVars, lastInit>>

\* WriteInitMarker, with the generation that the status update returned.
WriteMarker(p) ==
  /\ At(p, "recorded")
  /\ \/ /\ marker' = [marker EXCEPT ![p] =
             [fingerprint |-> NewFingerprint(p), generation |-> worker.generation,
              thisBoot |-> TRUE, age |-> 0, tool |-> worker.inputs.settings]]
        /\ UNCHANGED faults
     \/ "marker" \in Losable /\ Fail /\ UNCHANGED marker
  /\ GoTo("using")
  /\ UNCHANGED <<objectVars, dir, worldVars, initVars>>

\* What an init that fails, or is killed, may leave behind: what was there, or
\* part of what it was to install, before or after it has written the lock file.
LeftBehind(p) ==
  {dir[p], Installed, [Installed EXCEPT !.intact = FALSE],
   [dir[p] EXCEPT !.intact = FALSE]}

InitFails(p) ==
  /\ At(p, "initializing")
  /\ Fail
  /\ \E left \in LeftBehind(p) : dir' = [dir EXCEPT ![p] = left]
  /\ GoTo("errored")
  /\ UNCHANGED <<objectVars, marker, worldVars, initVars>>

-----------------------------------------------------------------------------
(* The rest of the reconcile, which works with the installation *)

\* What plan and apply leave of the status: a reconcile that has nothing to
\* apply, or whose last update is dropped, ends in the phase it got to.
Worked ==
  {[object EXCEPT !.completed = c] : c \in BOOLEAN}
    \cup {[object EXCEPT !.completed = c, !.retrying = FALSE] : c \in BOOLEAN}

\* The generation found by handleReschedule, whatever was rendered.
Observed(o) == [o EXCEPT !.observed = o.generation]

Finish(p) ==
  /\ At(p, "using")
  /\ object' \in {Observed(o) : o \in Worked}
  /\ worker' = None
  /\ UNCHANGED <<env, edits, diskVars, worldVars, initVars, faults>>

\* The tool or a call fails, with or without an Errored phase; even the cleanup
\* of plans can, when the generation is already observed.
UseFails(p) ==
  /\ At(p, "using")
  /\ Fail
  /\ object' \in Worked \cup {Observed(o) : o \in Worked}
  /\ GoTo("errored") \/ GoTo("backoff")
  /\ UNCHANGED <<env, edits, diskVars, worldVars, initVars>>

Errored(p) ==
  /\ At(p, "errored")
  /\ TryWrite([object EXCEPT !.completed = FALSE])
  /\ GoTo("backoff")
  /\ UNCHANGED <<env, edits, diskVars, worldVars, initVars>>

Backoff(p) ==
  /\ At(p, "backoff")
  /\ TryWrite([object EXCEPT !.retrying = TRUE])
  /\ worker' = None
  /\ UNCHANGED <<env, edits, diskVars, worldVars, initVars>>

-----------------------------------------------------------------------------
(* Users, releases, time, and the processes *)

Edit(s) ==
  /\ edits < MaxEdits /\ s # object.spec
  /\ object' = [object EXCEPT !.spec = s, !.generation = @ + 1]
  /\ edits' = edits + 1
  /\ UNCHANGED <<env, diskVars, worker, worldVars, initVars, faults>>

\* A secret changes: the spec, and its generation, do not.
Rotate(e) ==
  /\ edits < MaxEdits /\ e # env
  /\ env' = e
  /\ edits' = edits + 1
  /\ UNCHANGED <<object, diskVars, worker, worldVars, initVars, faults>>

\* The workspace is deleted, which p works off, and made again under its name.
\* CleanupWorkspace removes the directory of p; those of other pods stay.
Recreate(p) ==
  /\ worker = None /\ edits < MaxEdits
  /\ \E i \in Starts : object' = NewObject(i.spec)
  /\ dir' = [dir EXCEPT ![p] = NoDirectory]
  /\ marker' = [marker EXCEPT ![p] = None]
  /\ edits' = edits + 1
  /\ unstored' = FALSE
  /\ UNCHANGED <<env, worker, worldVars, lastInit, faults>>

Release ==
  /\ upstream <= MaxReleases
  /\ upstream' = upstream + 1
  /\ UNCHANGED <<objectVars, diskVars, worker, released, initVars, faults>>

\* Faulty variant: the age is not capped.
OlderForever(m) == IF m # None THEN [m EXCEPT !.age = @ + 1] ELSE m

Older(m) == IF m # None /\ m.age <= Interval THEN [m EXCEPT !.age = @ + 1] ELSE m

\* The longest that a version may be lacking; one that has come out for longer stays so.
Lag == Interval + Delay
Out(v) == IF v <= upstream /\ released[v] <= Lag THEN released[v] + 1 ELSE released[v]

Recording == worker # None /\ worker.step \in {"installed", "validated", "recorded"}

Tick ==
  /\ marker' = [p \in Pods |-> Older(marker[p])]
  /\ released' = [v \in Updates |-> Out(v)]
  /\ IF Recording
     THEN worker.delay < Delay /\ worker' = [worker EXCEPT !.delay = @ + 1]
     ELSE UNCHANGED worker
  /\ UNCHANGED <<objectVars, dir, upstream, initVars, faults>>

\* The container restarts: the directory survives, the BootID is a new one.
Crash(p) ==
  /\ Fail
  /\ IF At(p, "initializing")
     THEN \E left \in LeftBehind(p) : dir' = [dir EXCEPT ![p] = left]
     ELSE UNCHANGED dir
  /\ marker' = [marker EXCEPT ![p] = IF @ = None THEN None ELSE [@ EXCEPT !.thisBoot = FALSE]]
  /\ worker' = IF worker # None /\ worker.pod = p THEN None ELSE worker
  /\ UNCHANGED <<objectVars, worldVars, initVars>>

-----------------------------------------------------------------------------

Reconcile(p) ==
  \/ \E force \in BOOLEAN : Begin(p, force)
  \/ SetupFails(p)
  \/ SkipInit(p) \/ InitBegins(p) \/ InitEnds(p) \/ InitFails(p)
  \/ Validate(p) \/ ValidateFails(p)
  \/ StoreFingerprint(p) \/ StoreFingerprintFails(p) \/ WriteMarker(p)
  \/ Finish(p) \/ UseFails(p) \/ Errored(p) \/ Backoff(p)

Next ==
  \/ \E p \in Pods : Reconcile(p) \/ Crash(p) \/ Recreate(p)
  \/ \E s \in Specs : Edit(s)
  \/ \E e \in Envs : Rotate(e)
  \/ ManualRetryFails \/ Release \/ Tick

Spec == Init /\ [][Next]_vars

\* Some pod takes the workspace up again (refresh and retry times) and goes on
\* with it; time passes, however often the workspace is reconciled meanwhile.
Fairness ==
  /\ WF_vars(\E p \in Pods : Reconcile(p))
  /\ SF_vars(Tick /\ marker' # marker)

LiveSpec == Spec /\ Fairness

-----------------------------------------------------------------------------
(* Properties *)

TypeOK ==
  /\ object \in Objects /\ env \in Envs
  /\ dir \in [Pods -> Directories] /\ marker \in [Pods -> Markers]
  /\ worker \in Workers
  /\ upstream \in Versions /\ released \in [Updates -> 0 .. (Lag + 1)]
  /\ lastInit \in Versions \cup {0} /\ unstored \in BOOLEAN
  /\ edits \in 0 .. MaxEdits /\ faults \in 0 .. MaxFaults

\* A plan or an apply works with a whole installation, of the version that the
\* last successful init of any pod has installed: a pod that was passed over for
\* a while does not fall back on its own older one, whether the workspace was
\* edited, retried, deleted and made again, or other pods failed meanwhile; but
\* while the status still names the installation before, the fingerprint of the
\* last one not having been stored, a pod that has that older one goes on with it.
\* [initSkipDecision: "Another replica may have run a newer init"]
UsesLatestInit ==
  worker # None /\ worker.step = "using" =>
    dir[worker.pod].intact /\ (dir[worker.pod].lock = lastInit \/ unstored)

\* p's fingerprint was made of other settings than its installation.
Swapped(p) == marker[p] # None /\ marker[p].fingerprint.inputs.settings # marker[p].tool

\* What a plan or an apply works with was installed for the main.tf and the
\* environment it runs with, and with the tool, version and .terraformrc that the
\* spec asks for, whatever is edited or rotated while init runs, while its
\* fingerprint is stored and while the marker is written, with a generation that
\* may be newer than main.tf; but for settings that were edited while that
\* installation was made: its fingerprint is made of the settings the spec has when
\* it ends.  [InitFingerprint, WriteInitMarker; initSkipDecision: "init inputs changed"]
UsesItsInputs ==
  worker # None /\ worker.step = "using" =>
    LET made == dir[worker.pod].inputs IN
    /\ made.main = worker.inputs.main /\ made.env = worker.inputs.env
    /\ made.settings = worker.inputs.settings \/ Swapped(worker.pod)

\* A pod that decides to go without init has an installation that lacks no release
\* older than the interval, and the time its marker took to be written, whatever was
\* lost or failed before, and whichever pod did the last init: edits, re-creations and
\* the other pods' work never make a marker young again.  An init is taken to fetch
\* as it ends.  [initSkipDecision: "last full init is older than"; WriteInitMarker]
LacksNoOldRelease ==
  [][ \A p \in Pods : worker = None /\ At(p, "skip")' =>
        \A v \in Updates : dir[p].lock < v /\ v <= upstream => released[v] <= Lag ]_vars

\* Released dependencies are installed in the end, however well every reconcile
\* could go without init: markers grow too old.
\* [initSkipDecision: "last full init is older than"]
UpgradesInTheEnd == <>[](lastInit = upstream)

=============================================================================
