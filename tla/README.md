# A verification project for kube-tf-reconciler

TLA+ modules that model the operator and its web UI, TLC configurations that
check them on small instances, and theorems that TLAPS checks for every
instance. Line numbers without a file are those of
`src/internal/controller/workspace.go`.

## 1. The system

The operator watches `Workspace` objects and runs Terraform or OpenTofu for each:
it renders the spec to `main.tf`, initialises, plans, applies, and destroys on
deletion. Leader election is off by default and the chart takes any number of
replicas, so several pods share the work; a `Lease` per workspace is to keep
two of them off the same one.

| Part | State | Operations |
|---|---|---|
| Workspace lease (1313-1441) | `Lease` objects; per pod `r.leases` and the refresher goroutine | acquire (create, get, take over when expired), release (deferred), refresh every minute |
| Reconcile loop (128-901, 1491) | spec, annotations, finalizer and status of the `Workspace`; the work queue; the worker's copy `ws` | gates, manual retry, setup and render, init, plan, finalizer and destroy, apply, reschedule, backoff |
| Plan records (1026-1124, 1279-1311) | `Plan` objects, `status.currentPlan` | create a record after a plan and after an apply; delete the oldest |
| Init skipping (`pkg/runner/fingerprint.go`, 390-466) | init marker on disk, `status.initFingerprint` | decide, record, remove |
| Output streaming (1443-1489, `pkg/runner/exec.go`) | two pipes, a channel of 512, a mutex | copy the tool's output to the status while it runs |
| Tool installation, workspace directory (`pkg/runner`) | binaries and directories on disk, one mutex | find or download a tool, set up, clean up, checksum |
| Web UI (`pkg/ui`) | current cluster and namespace, SSE subscribers | poll, broadcast, switch cluster, annotate |
| Rendering, environment, metrics, commands | none that outlives a call | translate the spec; look up secrets and tokens; count; start up |

How they interact: the lease brackets a reconcile (159-167, the release is
deferred). The first thing a reconcile decides is whether it can do without
`init -upgrade`; the decision joins the pod's disk and memory with the status
that all pods share. Whatever tool runs, its output goes through a channel to a
goroutine that patches the status. Every handler works on `ws`, updates the status with a get and a
merge patch under `RetryOnConflict`, and goes on with what the patch returned.
Plan records are made by `handlePlan` and `handleApply` and cleaned up by
`handleReschedule`. Users, and the UI on their behalf, only write specs and
annotations or delete; events (creation, generation change, annotation change)
and requeue times bring the workspace back to the queue. The UI is a separate
process that lists workspaces and broadcasts the lists to its pages.

What is hard here:

- *interleaving*: pods and refreshers around one lease; users who write between
  any two calls of a reconcile that lasts minutes;
- *failure*: any call or tool run may fail, any pod may die anywhere; some errors
  set the Errored phase, some only back off, some are dropped;
- *time*: lease expiry against the refresher's pace; backoff and refresh times
  that hold back the reconcile an event asked for;
- *stale state*: decisions taken on `ws`, on the informer cache, on a marker on
  disk, on a generation that has moved on, on the view a UI request began with;
- *blocking*: a bounded channel between goroutines of which one may be gone.

What makes each part correct: one pod at a time reconciles a workspace, under a
lease it holds, and every workspace is taken up again in the end (lease);
nothing is destroyed unasked or left behind, an approval applies what was
approved and once, what users wrote last is planned and applied in the end, and
deletion ends (reconcile); cleanup keeps the newest records and the one the
status refers to (plans); a pod that goes without init works with what the last
init of any pod installed, from its own inputs (init); the output is shown whole
and in order and the handler gets on (output); pages end up with the list of the
active view (UI).

`PROJECT.json` lists the components, the hazards of the code at their lines, and
for each definition of a module the lines it models.

## 2. Modules

Three abstract specifications say what a component promises, without the steps by
which the code gets there; each is checked by TLC as a property of the detailed
module and proved to be implemented by it (section 5).

| Abstract | Implemented by | Promise |
|---|---|---|
| `ManagedInfrastructure` | `WorkspaceReconcile` | the life of the infrastructure: made from recorded plans, then only taken down, then left |
| `RetainedPlans` | `PlanHistory` | plans come in order and go oldest first, down to the limit |
| `OutputLog` | `OutputStream` | the status shows a growing part of the output, in the end all of it |

### WorkspaceLease

Several pods, several workspaces, a worker per pod and workspace (the work queue
serialises a key), a refresher per pod. Any call may fail, those of the refresher
too, which then goes on to the next entry (1419-1422, 1430-1433). That one pod
reconciles a workspace at a time is what `WorkspaceReconcile`, `PlanHistory` and
`InitSkip` assume; this module says how far it holds.

| TLA+ | code |
|---|---|
| `lease[w]` (holder, age since `renewTime`) | the `Lease` objects |
| `view[p][w]`, `Deliver` | the informer cache behind `r.Client.Get` |
| `leases[p]` | `r.leases`, a map from `leaseName` |
| worker steps `get`, `takeover`, `recreate` | between the calls of `acquireLease` |
| `working` | the rest of `Reconcile` |
| `ReleaseTake`; `releasing`, `target` | `LoadAndDelete`; `releaseLease` between it and `Delete`. Only workspaces of one name reach the outcome without an entry (`ReleaseFindsEntry`; `lease_shared_name`) |
| `refresher[p]`: `sleep`, `range`, `update`, `store` | `refreshLeases`, with the resourceVersion its `Update` depends on (`fresh`) |
| `Tick` | a minute; it may pass only if pods keep their pace, unless `Stalls` |
| `Crash`, `Restart` | the process ends; its container restarts under the same hostname, if in `Restartable` |

Three variables are observations, which no action waits for:

- `astray[p][w]`: the worker of `p` lost its lease in one of the ways that the code
  does nothing against: the lease expired under it; it was deleted by a pod that had
  read an earlier one or had gone astray itself (deletes go by name); or, when the
  work began, the cache called a lease the pod's own that the API server did not.
  `Exclusive` and `ReleasesOwnLease` say that there is no other way;
- `read[p][w]`: what a pod about to take over has read is still what is stored;
- `excused[p][w]`: how old the lease was when the work began, and the time of the
  passes since its last renewal that did not renew it, for whatever reason.
  `WorkerHoldsLease` speaks of leases that this does not use up.

`Stalls` lets a live pod be suspended for any time, `StaleReads` lets `Get` answer
from the cache, as the manager's client does in every deployment.
Time is counted in ticks of about a minute. The code's lease lasts five and its
refresher sleeps one; the instances use a shorter lease, which is harder on the
refresher, and the proofs any `RefreshEvery <= Duration`.

### WorkspaceReconcile

One workspace under `Reconcile` with every handler it calls. The object is a
record of the spec, status and metadata fields that some decision reads; `pc`
names the step; `ws` is the worker's copy; each call on the API server and each
tool run ends a step, so users, the clock and crashes come between. Conventions:

- a helper that gets, changes and merge-patches is one step (`Write`): the patch
  has no resourceVersion and holds only the fields the worker sets;
- the finalizer is written by a whole `Update`, which conflicts when `ws` is not
  fresh (`AddFinalizer`, `RemoveFinalizer`, `FinalizerUpdateFails`);
- `TryWrite` is a write whose error the handler drops, `Errored` an end in the
  Errored phase, whose write may fail as well and whose error is dropped (this second
  failure is not counted in `faults`), `Aborted` an end that only backs off;
- `InitEnds` takes the init, its validation and the writes of their results (351-463)
  as one step, as this module's properties tell nothing of them apart; `InitSkip` has
  a step for each;
- `unserved` and `unplanned` are observations: an apply was requested and none has
  run since; the plan on record is an old one, because an apply on request put the
  next one off (547) or a generation was marked as observed that was not rendered
  (886);
- `blocked` and `due` stand for the backoff time to come and the refresh time
  past; `timers` are the `RequeueAfter`s that wait for them;
- `sum` and `hash` are the checksum of `.terraform`: the version of the
  dependencies; `modules` is what is installed and `upstream` what init fetches;
- `infra` is what the infrastructure was made from; a failed or killed tool may
  leave it as it was, half way or done;
- `streamOutput` reads `ws` again and again while a tool runs; the handlers decide
  on nothing of that, but for the generation a record is named by (PlanHistory).

A deletion counts as a generation, as on the API server. `Rest` lists where the
controller may stop for good; everywhere else TLC's deadlock check finds a
wake-up that was lost. The lease is taken as exclusive and reads as current;
both are what the lease module examines.

### ManagedInfrastructure

A workspace is `managed`, `leaving` or `gone`. While it is managed, plans are
recorded and applies carry out the one on record, done or half done; once a
deletion is noticed (`Notice`, or the end of the apply that was under way) its
infrastructure is only destroyed; it is forgotten with nothing left, or with
what the policy leaves. The mapping (`Managed`, `Stage`, `Leaving` in
`WorkspaceReconcile`) puts the change to `leaving` where the worker reads the
object with its deletion, or where its apply ends; from idle or from a late step
of a reconcile a deletion is noticed at once, as every later worker will read it.

### PlanHistory

The records of one workspace, each identified with the generation in its name.
The record of a plan and of an apply are made from the generation the object has
*when they are made*. Cleanup lists, then deletes one by one, and may be cut
short anywhere. `deferred` is an observation. Assumed: creation order is the
order of generations (creation times are in seconds, a plan takes longer), and
the limit is at least 1 (the CRD's minimum; it fills in 3).

### RetainedPlans

The records and how many of them the cleanup that runs has yet to delete. It
starts with the number of plans less the limit, drops the oldest ones, one by
one, and may be interrupted; nothing is added while it runs. The mapping
(`Retained`) counts `toDelete`.

### InitSkip

One workspace, several pods of which one reconciles at a time, each with a
directory of its own. The inputs of an init are main.tf, the environment and the
settings of the tool (which tool, its version, the `.terraformrc`). Versions of the
dependencies are numbers; a fingerprint is the inputs together with what the lock
file says.

| TLA+ | code |
|---|---|
| `object` (`observed`, `completed`, `retrying`, `valid`, `fingerprint`) | the status fields that `initSkipDecision` reads (390-439) |
| `env` | the part of the environment that `fingerprintEnvs` describes (764): config map values, UIDs and resourceVersions of secrets |
| `dir[p]` (`lock`, `intact`, `inputs`) | `.terraform`, the lock file, and what they were made from |
| `marker[p]` | `.krec-init.json`; `thisBoot` is `BootID` equal to the process's, `age` is capped above `Interval` |
| `upstream`, `Release`, `released` | what `init -upgrade` would fetch, and how long ago each version came out (an observation) |
| `Begin`, `SkipInit`, `InitBegins` | `handleManualRetry`, rendering and the decision; the start of `handleRefreshDependencies` |
| `InitEnds`, `InitFails`; `Validate`, `ValidateFails` | `TerraformInit` (321); `Validate` and the patch of `validRender` (340-376), which reads the object again |
| `StoreFingerprint`, `StoreFingerprintFails`, `WriteMarker` | `recordSuccessfulInit` (441-466): the fingerprint is made of `ws` as read at 352, the marker gets the generation of the copy read at 451 |
| `worker.settings`, `worker.generation` | those of the worker's last copy; `worker.inputs` has the settings that the tool was set up with |
| `Finish`, `UseFails`, `Errored`, `Backoff` | the rest of the reconcile, reduced to the status fields above: it ends well or not, in whatever phase it got to |
| `Crash`, `Recreate` | a container restart (the directory stays); deletion by one pod and creation anew (the directories of others stay) |

`Losable` names, of the writes around an init whose errors are logged or dropped,
those that can fail: the phase before it, the removal of the marker, the update of
the fingerprint, the writing of the marker. An init that fails or is killed leaves
what was there, part of the new installation, or all of it (`LeftBehind`).
`lastInit` is an observation, as are `unstored`, that the fingerprint of the last init
that came to storing it could not be stored, and `tool` in a marker, the settings
that its init ran with. `Delay` bounds the ticks that may pass between an init and the writing of
its marker. Tokens that are handed over as files are not part of the code's
fingerprint and not of `env`.

### OutputStream

The goroutines of one run of a tool: the tool, a reader per pipe, the action, the
drain, the handler. Output is counted in chunks (what one `Read` returns).

| TLA+ | code |
|---|---|
| `pipe[s]` | a `Write` on the `io.Pipe`, which lasts until its reader has read it |
| `reader[s]`, `body`, `mutex`, `message` | the two readers of `WithOutputStream`, `outBody`/`errBody`, `cbMu`, the arguments of `cb` |
| `action`, `closed` | the third goroutine: it runs the tool, then closes both pipes, one after the other |
| `channel`, `open` | `outputCh` (512 places; `Capacity`) and whether the handler has closed it |
| `drain`, `output`, `shown` | the goroutine of `streamOutput`, its last output, the output in the status |
| `handler` | `WithOutputStream` and `wg.Wait` as the three handlers call them |
| `cancelled` | the end of the context |

`Stuck` describes the one state from which the handler does not come back: the
drain returned when the context ended, the channel is full, and a reader waits
for a place under `cbMu`. It is reachable: the operator's process is about to
end then, but `TerraformInit` holds `providerInitMutex` (exec.go:110) as long.
`GetsOn` says that it is the only such state, and `SomeoneGoesOn` that there is no
ring of waiting parties in any other.

### OutputLog

What a reader of the status may rely on: it shows a beginning of each stream,
more and more of it, and when the handler goes on all of it, unless the context
ended or the last update failed (`broken`).

### WebUI

The server's one active view (context and namespace), the broker, the ticker,
the switches under way, and what each page shows. A list is a view with the
version it was read at; a poll, the poll that a switch starts, and the request a
page makes after its switch hold a list from when they read it to when it is
broadcast or shown (`task`).

| TLA+ | code |
|---|---|
| `active`, `HandleSwitch` | `state`, `POST /api/switch` |
| `clients`, `channel`, `stream` | `broker.clients`, the channel of 4 (`Places`), `ServeSSE` of each page |
| `Disconnect` | `ServeSSE` returns when its request ends (sse.go:60) |
| `Unsubscribe`, `CloseChannel` | the two halves of the deferred `unsubscribe`: broadcasts may come before either |
| `TickerPolls`, `PushAfterSwitch`, `Broadcast` | `pollAndBroadcast`, started by the ticker or by a switch |
| `PostSwitch`, `AskForList`, `ShowReply`, `Deliver` | `postSwitch`, `fetchWorkspaceList`, `onmessage` of `index.html` |
| `Stall` | a page whose connection stays open but takes nothing in any more |

The list requested when a page is opened is left out; the one after a switch is
the same request at any later time.

### MCWorkspaceLease, MCWorkspaceReconcile, MCInitSkip, MCWebUI

Values for TLC: sets of settings, name maps, symmetry of pods.

### WorkspaceLeaseProofs, WorkspaceReconcileProofs, WorkspaceLifecycleProofs, PlanHistoryProofs, InitSkipProofs, OutputStreamProofs, WebUIProofs

The theorems of section 5, a module for each module they are about, and a second
one, `WorkspaceLifecycleProofs`, for what spans whole lives of a workspace in
`WorkspaceReconcile`.

Each module also holds *faulty variants* of some actions, named as such: what the
code would do with a plausible mistake in it. They are in no next-state relation
and serve to show that each checked property fails when the code is wrong.

## 3. Runs

| Run | Instance | Shows |
|---|---|---|
| `lease_renewal` | 2 pods, 1 workspace, 2 crashes or failed calls, restarts in place, fresh reads | `WorkerHoldsLease`: a lease of two ticks survives a failed pass, and does not when two fail in a row; `AlwaysHandledAgain`: expiry, takeover or the old hostname always get a workspace going again |
| `lease_adverse` | 2 pods, stalls, stale reads, 1 fault | `Exclusive`, `ReleasesOwnLease`, `ReleaseFindsEntry`, `ChangesHandsByDeletion` need no timing and no fresh reads |
| `reconcile_safety` | 3 settings (all destroy policies), users at any time, 1 fault, a release or outage | `NothingLeftBehind`, `DestroysOnRequest`, `ObservedIsPlanned`; `NeverForgotten`: no path through `Reconcile` loses a wake-up; `ImplementsLifecycle` |
| `reconcile_requests` | requests to apply and edits at any time, no faults | `OneApplyPerRequest`, `AppliesThePlan` |
| `reconcile_liveness` | pinned modules, drift, 2 faults, users between reconciles | `SyncedInTheEnd`, `DeletionEnds` |
| `plan_history` | 6 generations, limits 1 to 3, interruptions anywhere | `KeepsTheLimit`, `CurrentKept`, `ImplementsRetention` |
| `init_skip` | 2 pods, 2 edits of settings, rotations or re-creations, 1 release, 1 fault; of the writes, those of the fingerprint and the marker may fail | `UsesLatestInit`, `UsesItsInputs`, `LacksNoOldRelease`, `UpgradesInTheEnd` |
| `output_stream` | 3 chunks per pipe, 2 places, 1 failed update, the context may end | `AllShown`, `NeverShrinks`, `SomeoneGoesOn`, `GetsOn`, `ImplementsLog` |
| `web_ui` | 2 pages, 2 views, 1 place, 2 events | `OldViewsRunOut`, `ShowsActiveInTheEnd` |
| `lease_shared_name` | 2 pods, 2 workspaces of one name | *violated*: `EntryNeverMissing` |
| `lease_takeover_race` | 3 pods, 1 crash | *violated*: `AlwaysExclusive` |
| `reconcile_dropped_change` | one apply that fails | *violated*: `SyncedInTheEnd` |

`TypeOK` is checked once per module. Why the bounds are enough to be of use:
two pods are enough for a hand-over in each direction and the proofs cover more;
the takeover race needs a third, whose lease the two take over; one fault is what
leaves a lease behind, and two let a retry fail as well, or two passes of a
refresher, after which a lease of two ticks does expire under its worker; three generations allow
an edit before a deletion and one while it is worked off; two configurations tell
"planned" from "edited since"; two versions of the dependencies tell an init that
upgraded from one that did not; two requests let the second meet what the first
left. Plans of six generations and limits up to
three make several cleanups delete several records. With one release, two pods
hold different installations, each the newer one in turn; an edit and a rotation
can both fall into one init, before or after its validation. Edits in `init_skip`
are of settings: an edit of `main.tf` is to the fingerprint what a rotation is. A channel of two
places is full while one reader holds the mutex and the other waits for it; three
chunks fill it. One place lets a second message find a full channel; two events
allow two switches of the same or of two pages, or one with anything else that
goes wrong. The cases happen:
between them the passing runs fire every action and every disjunct of the
next-state relations, and for each property one faulty variant makes its run fail.

What the conditions of the passing runs mean:

- `Exclusive`, `ReleasesOwnLease` and `WorkerHoldsLease` leave out workers that have
  gone astray or used up their lease, as named in section 2; what the code promises
  without that is violated (section 4).
- `ObservedIsPlanned` excepts a generation that came while a reconcile ran and was
  not rendered, and one whose plan an apply on request put off; `AppliesThePlan`
  excepts what such an apply does. Neither has any other exception, and both runs let
  users write between any two steps. Section 4 shows each exception.
- `UsesItsInputs` excepts settings that were edited while the installation was made,
  `UsesLatestInit` the time in which the status still names an earlier installation
  because the fingerprint of the last could not be stored.
- `reconcile_safety` has no requests to apply (`ImplementsLifecycle` fails with them),
  `reconcile_requests` no failures (`OneApplyPerRequest` fails with them),
  `reconcile_liveness` no interrupts and pinned modules: section 4 shows why.
  Annotations are removed by the controller only; a user who removes one is not
  modelled.
- `DestroysOnRequest` and `OneApplyPerRequest` let a worker go by the copy it has
  read: a policy or spec that changes after that read is not seen, which the code
  could not do otherwise between its call and the tool.
- `CurrentKept` names two cases in which the code does delete the plan that the
  status refers to: a limit of 1 with an edit between plan and apply (684: the
  apply's record is then another one), and applies on request that no plan came
  before.
- `NeverForgotten` excepts one wait: that of an object under deletion for its
  user's leave to destroy, which an annotation ends.
- `LacksNoOldRelease` counts from the moment a version is out, or from the end of
  the init that missed it (an init is taken to fetch as it ends), and adds to the
  interval the time between that end and the marker's own time stamp, `Delay`.

## 4. Where the code does not do what it says

The three violated runs are findings of `PROJECT.json`:

1. **Two pods take over one expired lease** (1365): `Delete` goes by name without a
   precondition, so the second removes the lease the first has just created.
2. **Workspaces of one name share an entry** (1314): the key of `r.leases` has no
   namespace; one release takes, and deletes, the lease of the other, whose own then
   finds nothing, which "should never happen" (1389).
3. **A change whose apply failed is dropped** (555): nothing changed since the plan,
   so the retry bypasses it and resets `HasChanges`.

More of the same can be reproduced with a cfg of its own; the properties are in
the modules, the constants not named are as in the run given, and "without" names
a part of the property to leave out:

| Property | Base | Constants | What happens |
|---|---|---|---|
| `NeverReleasesForeignLease` | `lease_adverse` | `Duration = 2`, `MaxFaults = 0`, `StaleReads = FALSE` | a pod that stalled past expiry deletes the new holder's lease (1394) |
| `AlwaysExclusive` | `lease_adverse` | `Duration = 2`, `MaxFaults = 0`, `Stalls = FALSE` | the `Get` after the failed `Create` answers from a cache that shows the pod's own old lease (1353): two workers without any fault |
| `AlwaysExclusive` | `lease_renewal` | - | two passes of the refresher fail (1419, 1430), the lease expires under its worker and is taken over |
| `AlwaysHandledAgain` | `lease_renewal` | `Restartable = {}`, `MaxFaults = 1` | a refresher stores an entry again after its release (1435) and then renews the lease of a dead pod for ever |
| `ObservedIsPlanned` without `unplanned` | `reconcile_dropped_change` | `Interrupts = TRUE`, `Surprises = {}`, `MaxGeneration = 2`, `MaxFaults = 0` | `ObservedGeneration` is set to the generation found at the end and not the one rendered (886): an edit made while a reconcile runs counts as observed, and the reconcile it caused returns at once (175) |
| `AppliesThePlan` without `unplanned` | `reconcile_requests` | `Specs <- Approvable`, `Interrupts = FALSE`, `MaxGeneration = 2`, `MaxRequests = 1` | an approval renders, initialises and applies the current spec without the plan's file (547, 948), against "proceeding with existing plan" (548): an edit since the plan is applied unplanned |
| `OneApplyPerRequest` | `reconcile_requests` | `Specs <- Approvable`, `Interrupts = FALSE`, `MaxGeneration = 1`, `MaxRequests = 1`, `MaxFaults = 1` | a failure after the tool has applied leaves the annotation: it applies again (684) |
| `RequestsAreServed` | `reconcile_requests` | `Specs <- Approvable`, `MaxGeneration = 1`, `MaxRequests = 1` | a request that arrives before the first plan makes it skip the plan; nothing is applied and the request is removed (547, 874) |
| `DeletionEnds` | `reconcile_dropped_change` | `Surprises = {"outage"}`, `MaxFaults = 0` | init comes before the finalizer (210): what it cannot fetch keeps the object, also under `destroy: skip` |
| `UsesItsInputs` without `Swapped` | `init_skip` | `MaxFaults = 0` | `toolVersion` or `terraformRC` is edited between the init and 352: fingerprint and marker are made with the new settings (444, 463), the next reconcile finds its "inputs unchanged" (438) and skips the init that they call for |
| `UsesLatestInit` without `unstored` | `init_skip` | - | storing the fingerprint of a newer installation fails; another pod, whose older one the status still names, skips init (450), although the log says "init will not be skipped next time" (459) |
| `UsesLatestInit` | `init_skip` | `Losable = {"removal"}`, `MaxFaults = 2` | the marker that could not be removed (317) vouches for an installation that the init after it left half done |
| `UsesLatestInit` | `init_skip` | `Losable = {"phase"}`, `MaxFaults = 2` | the phase Initializing is not stored (308) and the pod ends between its init and the fingerprint: another pod finds the workspace completed and skips with its older installation |

## 5. Proofs

All proofs hold for every value of the constants that the modules' `ASSUME`s allow,
so for every bound too. Every safety property of the passing runs is a theorem,
some under a condition that the run's instance meets; section 4 has examples of
what happens outside these conditions. The three refinements are theorems as well:
the initial states are mapped to initial states, and a lemma per module shows that
each step is mapped to a step of the abstract module or leaves its variables alone.

### WorkspaceLease

`WorkspaceLeaseProofs` proves, for any number of pods, workspaces and faults and
any `RefreshEvery <= Duration`:

| Theorem | Assumes | States |
|---|---|---|
| `TypeInvariant` | - | `[]TypeOK` |
| `LeaseHandover` | - | `ChangesHandsByDeletion` |
| `ReleaseAlwaysFinds` | `DistinctNames` | `[]ReleaseFindsEntry` |
| `MutualExclusion`, `ReleaseOfOwn` | `DistinctNames` | `[]Exclusive`, `[]ReleasesOwnLease` |
| `WorkUnderLease` | `DistinctNames`, `~Stalls` | `[]WorkerHoldsLease` |

`DistinctNames`: lease names tell workspaces apart (workspaces of one name are in
no two namespaces). Only `WorkUnderLease` takes pods to keep their pace; none of
them takes reads to be fresh or calls to succeed.

The argument has four layers, each inductive relative to the ones before.
*CopyOK*: a refresher's copy whose resourceVersion is current names the holder the
lease has, since every write outdates every copy; so an `Update` that gets through
does not change the holder, and that is `LeaseHandover`. *Registration*: while a
worker is `working` its pod's `r.leases` has its entry, and what a release takes
out is its own; a refresher may store an entry again but only under the same
name. *Holding*: a worker that has not gone astray holds its lease, unexpired, which
is more than `Exclusive`; it is inductive with the remark that a pod whose takeover
goes by a current copy has an expired lease before it, which no such worker holds,
so that its `Delete` harms none of them; the `Delete` of a release that has not gone
astray is of the pod's own. *Pace*: the age of a lease under work is at most what it
is excused for and what is `Due`, the pause so far, or a whole one until the pass
that runs has come to the entry; a tick waits for refreshers that are due, so one
pause is all that adds to the excuses.

### WorkspaceReconcile

| Theorem | Assumes | States |
|---|---|---|
| `TypeInvariant` | - | `[]TypeOK` |
| `NothingIsLeftBehind` | - | `[]NothingLeftBehind` |
| `DestroysWhatIsDeleted` | - | `DestroysOnRequest` |
| `AppliesWhatWasPlanned` | - | `[]AppliesThePlan` |
| `AppliesOncePerRequest` | `NothingFails` | `OneApplyPerRequest` |
| `ObservesWhatItPlanned` | - | `[]ObservedIsPlanned` |
| `NothingIsForgotten` | - | `[]NeverForgotten` |
| `LifecycleImplemented` | `NoRequests` | `Spec => ImplementsLifecycle` |

`NoRequests`: users do not annotate with `apply`; `NothingFails`: no call, tool or
pod fails.
The module's own assumption `NoneAssumption` says that the value for "nothing"
is none of the others.

The fifty actions are sorted once by what they touch (`Kinds`, `Untouched`,
`RequestsKept`, `PlanKept`) and by the steps they come from (`Paths`,
`PlanPaths`); an invariant is then proved from these lemmas and the few actions
that matter to it. *Copy*: while `fresh` holds the worker's copy agrees with the
object, and any copy is right about a finalizer or a deletion it has seen, since
neither is ever undone behind the worker's back. *Finalized* strengthens
`NothingLeftBehind`: infrastructure is made only where the finalizer is there,
and the worker is at "cleanup" only when there is none or the policy is to skip;
as removing the finalizer conflicts unless `fresh`, the policy it went by still
stands. *Tracked* and *Planned*: what `HasChanges` lets through was planned in this very
reconcile, or its plan was put off for the annotation that the worker has seen. *Once*: a served request that is still there is about to be removed by
the worker that served it. *Current*: a worker that works on an observed
generation has its spec, and has rendered it. *PlanComes*: between rendering and the
end of a reconcile either `NewPlanNeeded` is set, or the plan on record is one of the
spec that was rendered, or it was put off; so what is recorded as observed was
planned, unless it was not what was rendered.

`NeverForgotten` speaks of idle workers only, and is not inductive: whether the
last return leaves a timer or a queued event depends on what happened meanwhile.
*Heard* and *HeardOfDeletion* say that what the worker has not heard of (an
annotation or spec newer than its copy, a deletion) is queued behind it. Then
every way to become idle (`WaysToIdle`) either leaves a timer that is still to
come, finds the workspace queued, or is the wait for the user's leave; and events
take the timers' part afterwards.

The *lifecycle* needs that an idle or late worker does not plan or apply any more
before it has read the object again (`LateSteps`), that a worker which has seen the
deletion never gets to a plan or an apply (`LeavingStep`), and from *Planned* that
what is applied is the plan on record (`WorkerApplies`). Without `NoRequests` the
last fails, as in section 4: an approval applies what is on disk.

### PlanHistory

`TypeInvariant`, `NewestAreKept` (`KeepsTheLimit`) and `CurrentPlanIsKept`
(`CurrentKept`), without assumptions. `KeepsTheLimit` needs *Split*: what is
still to be deleted is older than what is left, and what is left is enough.
That the list of the `n` oldest has at most `n` members is shown with ranks: two
of more than `n` would have the same rank, by the pigeonhole principle, but a
later plan has a greater rank. `CurrentKept` adds *Followed*: at most one plan is
newer than the current one, unless an apply on request came in between, and so a
limit above 1 keeps it.

`RetentionImplemented` (`Spec => ImplementsRetention`), without assumptions. It
needs the exact count: a cleanup lists neither fewer nor more than there are too
many. `AsManyBelow` shows that exactly `n` of at least `n` members have a rank below
`n`: at most `n` have, and of the others there are at most as many as ranks from `n`
up, both by `FewBetween`.
*Listed* says that there is nothing to delete between cleanups.

### InitSkip

`TypeInvariant`; `WorksWithItsInputs` (`[]UsesItsInputs`), which assumes
`MarkersRemoved`; `WorksWithTheLatest` (`[]UsesLatestInit`), which assumes
`PhaseStored` as well, that the phase before an init is stored: of the four writes
around an init, those of the fingerprint and of the marker may always fail. *Vouched*: a marker speaks of the
installation next to it, through edits, rotations and the other pods' work;
*Latest*: the fingerprint in the status, when there is one, is that of the last
init of any pod, unless the phase tells that a newer init may have run whose
fingerprint is not stored yet, or `unstored` that it could not be.

`LagIsBounded` (`LacksNoOldRelease`) assumes nothing of what fails. *Aged*: a marker
is at least as old as every version that has come out since the version it names;
`MarkersKept` shows that a marker comes from an init that has just ended, and
otherwise only ages; `Delay` is what it may be younger by. So when the decision finds one that matches the directory and
is no older than the interval, no release that the directory lacks is older than `Lag`.

### OutputStream

`TypeInvariant`, `OutputGrows` (`NeverShrinks`), `OutputComplete` (`[]AllShown`), `NoRing` (`[]SomeoneGoesOn`) and
`LogImplemented` (`Spec => ImplementsLog`), for every capacity. *Locked*:
`cbMu` is held by one reader whose message is the two bodies as they are;
*Ordered*: what is shown, what the channel holds in its order, and the bodies grow
along that line; *Conserved*: a chunk is in the pipe, with the reader or in the
body; *Ended* and *Drained*: the handler goes on only after the tool, the readers
and the drain, which leaves nothing in the channel unless the context ended;
*Closing*: pipes, channel and handler are done with in that order. That there is no
ring is a case analysis on who waits: a reader that waits for `cbMu` waits for one
that sends, which waits for a place and so for the drain, which has something to
receive unless it has returned; and that is `Stuck`, or the end.

### WebUI

`TypeInvariant` and
`EarlierViewsRunOut` (`OldViewsRunOut`) from `NothingElseTurnsUp`: what is shown or
under way after a step was so before it, or is a list of the active view.

### Only model-checked

All liveness, which is beyond the prover as is ENABLED (`AlwaysHandledAgain`,
`SyncedInTheEnd`, `DeletionEnds`, `UpgradesInTheEnd`, `GetsOn`,
`ShowsActiveInTheEnd`), and that the modules do not deadlock as a whole (`NoRing`
and `NothingIsForgotten` are the safety part of that for the output and for the
reconcile loop).

## 6. Fairness

- Lease: weak fairness of each worker's acquire and release steps, of each
  refresher and each restart (the Go scheduler, the work queue that brings a
  workspace back after every outcome, the kubelet). Strong fairness of `Tick`:
  minutes pass although workers keep polling.
- Reconcile: weak fairness of the worker as a whole and of the retry and refresh
  times. Strong fairness of `SkipInit`: a full init is forced once a day, refreshes
  come every half hour, so a skippable init that comes up again and again is
  skipped some time. Nothing is assumed of users, faults, releases or drift.
- InitSkip: weak fairness of the reconciles together (refresh and retry times
  bring the workspace back to some pod, not to a given one) and strong fairness of
  a `Tick` that ages a marker.
- OutputStream: weak fairness of the tool (it writes a bounded output and ends),
  the handler, each reader and the updates. Strong fairness of `Gather`, since Go's
  mutex does not starve, and of the drain's receive or return, since a `select`
  picks at random and a ticker that is always ready is not always picked. No
  fairness of `Cancel`.
- WebUI: weak fairness of the server's goroutines, the ticker and the pages'
  scripts. A page that has stalled owes nothing.

## 7. What is not modelled, and the plan

Not modelled: rendering (a pure translation with golden-file tests), environment
and secrets (lookups that succeed or fail: `RenderFails`, `SetupFails`; that they
change is `Rotate`), metrics (nothing reads them), commands and chart. The
scripts under `.pages/static` are third-party libraries of the documentation site
(mermaid, deflate, plantuml): no part of the operator.

Of modelled parts:

- which strings count as a pinned source (fingerprint.go 38-98): `Pinned` is a setting;
- reads that lag behind in `WorkspaceReconcile`, where a merge patch would be made
  from an old copy (710); in the lease they are modelled;
- plans created within one second, whose order `sort.Slice` may swap (1299): a
  plan takes longer;
- details, plans, contexts and namespaces of the UI, which only read; its
  annotations, which go to the active view and not to the one a page shows
  (server.go:168);
- the growth of the backoff (1494): `blocked` says whether a retry time is to come.

Planned, in this order:

1. `ToolInstall`: the binaries, the cache and its mutex, downloads cut short;
   property: what `getBinary` returns is whole and of the version asked for.
2. Lagging reads in `WorkspaceReconcile`.
3. Proofs that go further where a theorem has an assumption: the lifecycle with an
   infrastructure that an apply on request may take elsewhere (`NoRequests`); which of
   two workspaces of one name a release can hit (`DistinctNames`).
