# A verification project for mcg-osd-deployer

mcg-osd-deployer is a Kubernetes operator, written with controller-runtime, that
installs Multicloud Object Gateway (NooBaa) as a managed add-on of OpenShift
Dedicated, keeps it installed, and takes it down again. Its difficulty is not in
its data: it is a sequence of API calls against objects that users, NooBaa's own
operator, OLM and OCM change at the same time, decided on caches that lag behind,
and cut off anywhere by failed calls and restarts. These modules model that.

## Inventory

| Part | State | Operations | Interacts with |
|---|---|---|---|
| Reconciler, life cycle (`controllers/managedmcg_controller.go`) | fields of `ManagedMCGReconciler`, rebuilt by `initializeReconciler` in every pass | `Reconcile`, `reconcilePhases`, `addManagedMCG`, `removeManagedMCG`, `removeNoobaa`, `removeOLMComponents` | API server through a cached client |
| Process (`main.go`) | none across restarts | `ensureManagedMCG`, `mgr.Start` | creates the ManagedMCG before the manager runs |
| Watches and queue (`SetupWithManager`) | informer caches, one reconcile request | predicates, handlers | wake the reconciler; the BucketClass predicate also *does* work |
| BucketClass handlers (`controllers/mcg_bucket.go`) | `r.objectBucketClaim`, `r.bucketClass`, `r.ctx`, shared with the worker without a lock | `bucketClassAdded`, `bucketClassDeleted` | create and delete ObjectBucketClaims |
| Resource reconciliation (`reconcileResources`) | the owned objects | NooBaa, console plugin, console cluster, OCS CSV, service, policies | one after the other, up to the first error |
| Alerting (`controllers/monitoring_alert.go`) | Prometheus, Alertmanager, rules, secrets | `reconcileAlertMonitoring` and its parts | part of `reconcileResources` |
| Status (`Update...ComponentStatus`) | `status.components` | recomputed in every pass | decides teardown and uninstallation |
| Readiness probe (`readinessProbe/`), a process of its own | none | `isReady`, the handler of `/readyz/` | reads `status.components` from the API server |
| Helpers, templates, console, API types | none | pure | used above |

What is hard, and what correctness means:

* **Life cycle.** Every read is from a cache, deletes are by name and
  unconditional, updates are conditional on the version read. A pass takes
  seconds. Correct: a teardown is only ever run for a ManagedMCG that is in
  deletion; an installing pass acts only for a ManagedMCG that is still there;
  the finalizer goes after NooBaa; the CSV goes last; an uninstallation ends.
* **Process.** A restart re-creates a missing ManagedMCG, also in the middle of an
  uninstallation. Correct: the uninstallation still ends.
* **Watches.** Status updates and finalizers do not trigger a pass, StatefulSets
  are not watched, some errors are swallowed. Correct: nothing waits forever.
* **BucketClass handlers.** Events are handled in order, each for up to ten
  seconds, beside reconcile passes that swap the fields in use. Correct: a Ready
  class has its claim, a claim does not outlive its class.
* **Resources and alerting.** A sequence cut off by the first error, on objects
  that are partly watched and partly not, some of them shared with others. Correct:
  a watched object that was changed is restored by the events alone; everything is
  restored by repeated passes; rules and monitors end up selected by Prometheus;
  remote write follows its secret; what others did to the console is kept.
* **Alert receivers.** One object is filled from four secrets, read at different
  moments of a pass, and compared with a cached copy nobody watches. Correct: at
  rest every alert has a receiver as the secrets say now, and exactly the
  numbered addresses up to the first gap are notified.
* **Status and probe.** The status is computed from lagging reads and stored at the
  end of the pass. Correct: the probe turns to OK only on first-hand knowledge of
  the instance it asks about, and follows the components in the end.

`PROJECT.json` lists every component with its status and every hazard with its
line and the properties that watch it.

## Modules

| Module | Models |
|---|---|
| `Informer` | external: an API object as a log of versions. Its head is the cache, its last element the server, and between them is what the watch has not delivered yet. |
| `ManagedMCG` | life cycle, process, watches, and the cluster around them |
| `Addon` | the abstract life cycle: what the operator promises of the add-on |
| `Readiness` | the readiness server, a function of the state of `ManagedMCG` |
| `MCManagedMCG` | `Readiness` (and with it `ManagedMCG`) for TLC: the sets of adverse events of the TLC runs |
| `Informer_proofs` | lemmas about logs: what reading, writing, delivering and relisting do |
| `ManagedMCG_proofs` | types, and what the copy of a pass is worth |
| `Addon_proofs` | the finalizer, the order of the uninstallation, and the refinement of `Addon` |
| `Readiness_proofs` | first-hand readiness |
| `Stores_proofs` | the release of stores |
| `BucketClaims` | the BucketClass handlers beside reconcile passes |
| `MCBucketClaims` | the bucket classes of the TLC runs |
| `BucketClaims_proofs` | theorems about `BucketClaims` |
| `Resources` | the objects of `reconcileResources` and `reconcileAlertMonitoring` one by one, and their watches |
| `MCResources` | the objects and adverse events of the TLC runs |
| `Resources_proofs` | theorems about `Resources` |
| `AlertReceivers` | what the step for the AlertmanagerConfig reads, decides and stores |
| `MCAlertReceivers` | the versions and adverse events of the TLC run |
| `AlertReceivers_proofs` | theorems about `AlertReceivers` |

The modules share `Informer` and describe one process at three depths: in
`ManagedMCG` the pipeline after NooBaa is the single step `ReconcileRest`; in
`Resources` that step is unfolded and the ManagedMCG is there and active; in
`AlertReceivers` the step `alertmanagerConfig` of `Resources` is unfolded, its object
and its secrets have contents, and the other steps are in the failures of a pass.
`BucketClaims` runs beside all of them.

### ManagedMCG

`pc` is the API call the operator's process makes next; each that writes is one
action, and each read of `removeNoobaa`, so that everything else may happen between
two calls. The eight cached reads that open `reconcilePhases` (components, key, NooBaa,
ManagedMCG) are one action: none of them writes, each but the ManagedMCG's is of an
informer of its own, whose lag the model chooses freely, and the properties
for which it matters when they are made (`StrandedOnlyUnseen`, `CSVDeletedLast`) look at it
relative to the writes. `r` holds the fields of the
reconciler that live for one pass (`r.managedMCG` is the code's `r.managedMCG`).

| Code | Actions |
|---|---|
| `Reconcile` up to the get | `Reconcile` |
| `verifyAddonDeletionKey`, `updateComponentStatus`, the switch of `reconcilePhases` | `ReconcilePhases` (`Observe`, `Phase`) |
| `addManagedMCG`, `updateAddonParams`, `reconcileNoobaaComponent`, rest of `reconcileResources`, deletion of the ManagedMCG | `AddManagedMCG`, `UpdateAddonParams`, `ReconcileNoobaa`, `ReconcileRest`, `DeleteManagedMCG` |
| `removeManagedMCG` | `RemoveManagedMCG` |
| `removeNoobaa`: list, delete, poll, update, delete, list, delete... | `ListObjects`, `DeleteObject`, `PollBucketClass`, `UpdateNooBaa`, `DeleteNooBaa` |
| `removeOLMComponents` | `RemoveOLMComponents` |
| status update, result of `Reconcile` | `Finish` |
| any call that fails without effect | `FailStep`; one that has its effect and whose reply is lost is a branch of the call's own action (`Reply`) |
| `ensureManagedMCG`, `mgr.Start` | `EnsureManagedMCG`, `StartManager` |
| predicates and handlers of the watches | `DeliverMCG`, `DeliverNooBaa`, `DeliverKey`, `DeliverObjects`, `Resync`, `OtherEvent` |

Details of the code that matter and are kept: not-found is not an error of a
get of the ManagedMCG nor of a delete; a component that cannot be read is Unknown,
which is not NotFound; an unreadable ConfigMap means no key; the reply to the
update that adds the finalizer replaces the status computed by the pass; the
status update is skipped without a UID and fails after the finalizer is gone;
`removeOLMComponents` swallows a failed lookup; only an error puts the request
back into the queue; a generation does not change with status or finalizers.

Abstractions: a resourceVersion is a bit, "still the server's"; `status.components`
is none, ready (all four Ready) or notReady; all objects of `reconcileResources`
other than NooBaa are one step, `ReconcileRest`, which creates any part of the
missing components if it fails. Two histories serve the properties only:
`witnessed` (a pass of a ManagedMCG has seen this NooBaa) and `owed` (stores that
were in every version still to be read when NooBaa was deleted).

### Addon, and the refinement

`Addon` has a phase of the ManagedMCG, a gateway, the request to uninstall and the
installed CSV, and seven actions; there are no caches, passes or failures in it.
`ManagedMCG` maps to it by `Life`: the phase is that of the ManagedMCG at the server,
the gateway a NooBaa that exists and was `witnessed`. `ImplementsAddon` says that
every step of the detailed specification, a lost reply and a restart included, is
one of the seven or a stutter: deletions are not taken back (`Activate` needs
absence), the finalizer goes after the gateway (`Release`), a gateway is witnessed
only beside a ManagedMCG (`Serve`), the CSV goes last and on request (`Uninstall`).
It holds while nobody goes behind the finalizer, so it is checked in `lifecycle`.

### Readiness

The server keeps nothing and reads without a cache, so `Answer` is an operator on
the state of `ManagedMCG`. Its properties are about the status it reads:
`ReadyFirstHand` is checked in `teardown`, whose users create ManagedMCGs without the
finalizer or strip it and whose components go down: it takes both, two adverse
events, for the update that adds the finalizer to bring a status back into a pass that
computed another. `AnswerFollows` is checked
under the fairness of `uninstall`.

### BucketClaims

`h` is the handler's next step and the class it works on, `events` the events the
watch has not handed out. `field` is the object `r.objectBucketClaim` points to,
`arg` the one `CreateOrUpdate` was called with, `same` whether they are one object.
`InitializeReconciler` is the only part of a pass the handler can notice. A class
without the annotation has no claim and is not modelled.

| Code | Actions |
|---|---|
| predicate of the BucketClass watch | `Handle` (`FirstStep`) |
| `isBucketClassCreationSuccess` | `Poll`, which ends in time or not, on a cache that may be behind |
| nil check of `r.ctx`, `getObjectBucketClaim` | `GetClaim` (`Context`, `Found`) |
| `setOBCDesiredState` | `NewClaim`, `SetName`, `SetNamespace` |
| `ctrl.CreateOrUpdate`: its get, the closure, the write | `Call`, `Mutate`, then `Create` or `Update` |
| `bucketClassDeleted` | `DeleteClaim`, or `DeletePanics` |

Claims are logs, as the handler writes them at the server and looks them up in the
manager's cache. That cache is restricted to the operator's namespace (`Namespace` in
the manager's options, main.go), while the annotation may name any: `LocalClass` are the
classes whose claims the cache holds, and of the others `Found` never finds one. A local
claim may be found although it is gone at the server; then the handler leaves it as it is,
in the first lookup, or its update is refused, in the second.

The histories `lost` and `excuse` record for which classes a deletion was lost, and
for which the last addition left no complete claim and why: the class was not seen
Ready in the ten seconds (`late`), the claim that was found, by the lookup or by
the server, is of a namesake and in deletion or gone (`former`), a call failed
(`failed`), a pass replaced the fields while they were in use (`raced`). A new addition
forgets the excuse, unless a claim without a spec is in its way. `ctx` says that
`r.ctx` is set: by a pass, or by the handler of an addition. `bucketClassDeleted` does not
check it, and a deletion handled before that ends the process (`DeletePanics`: the
client's rate limiter is handed a nil context on the informer's goroutine).

### Resources

`pc` walks along `Pipeline`, the calls of `updateAddonParams`, `reconcileResources`
and `reconcileAlertMonitoring` in their order; the first error leads to `finish`,
and only an error puts the request back.

| Code | Actions |
|---|---|
| `Reconcile`, `updateComponentStatus` (NooBaa) | `Reconcile` |
| `updateAddonParams` | `UpdateAddonParams` |
| every `ctrl.CreateOrUpdate` with its closure | `CreateOrUpdate(step)`; the closure is `Desired` and `ClosureFails` |
| `reconcileConsoleCluster`: list, then get, append, update | `ConsoleList`, `ConsoleUpdate` |
| `reconcileOCSCSV` | `OCSCSV` |
| `reconcileMonitoringResources`: a list per kind, an update per item | `ListMonitored`, `UpdateMonitored` |
| status update, result | `Finish` |
| predicates and `Owns` of `SetupWithManager` | `DeliverObject`, `DeliverSecret`, `DeliverNooBaa`; `DeliverUnwatched` for what is cached and not watched |

Details kept: an update is conditional on the version read and fails on a lagging
cache; a create of an object the cache has missed fails, except in
`ensureConsolePlugin`, which tolerates that error; the closures of
`ensureConsolePlugin` assign no spec; the labelling step comes before the step
that creates the operator's own rules; the original rule loses the label that all
others get; a NooBaa that cannot be read counts as not Ready and is no error; a
deletion event carries the last version, on which the rule predicate decides.

One detail is not in this repository's code but decides a property. The template
of Prometheus leaves `scrapeInterval` and `evaluationInterval` empty and the CRD
(vendored prometheus-operator types) gives both a default, so `CreateOrUpdate`
never finds the object equal to its wish and always sends an update, which
conflicts when the cache lags (`Same`). Without that, a secret that comes and
goes faster than the cache follows would leave remote write wrong: the mutant
`SameAlways` shows it. The AlertmanagerConfig is always updated too: its routes are
raw JSON in the order of the Go struct, which the server returns sorted.

Abstractions: a spec is absent, proper, remote (Prometheus with remote write) or
drifted; the label is kept on rules and monitors only; a missing secret, CSV or
deployment is a member of `missing`; one object per foreign kind. The initial state
is an installed namespace without the objects of `Missing`, the pod about to start.

### AlertReceivers

| Code | Actions |
|---|---|
| `Reconcile`, `initializeReconciler` | `Reconcile` |
| `updateAddonParams`, at the start of the pass | `UpdateAddonParams` |
| `reconcileAlertmanagerConfig`: the get of `CreateOrUpdate` | `GetConfig` |
| its closure: `checkPrerequisites`, the URL, the SMTP secret | `CheckPagerduty`, `CheckDeadMansSnitch`, `GetSMTP` |
| `configReceiver` and the write of `CreateOrUpdate` | `StoreConfig` (`ConfigReceiver`, `AlertingAddresses`, `MailAccount`) |
| `secretPredicates` | `DeliverParams`, `DeliverSecret`; `DeliverConfig` wakes nobody |

Addresses are known by the numbers in their keys, URLs and mail accounts are versions.
`Routes` is the template's list and `Alert` the alerts of the rules the operator
installs, so that `AlertsReach` also says that no alert falls through to the
receiver `null`. Details kept: the parameters are older than everything else in
the pass; without an address the mail receiver stays empty; a missing secret or
entry fails the pass; keys and passwords are referred to, not copied, so a new
PagerDuty key needs no pass. `Same` is FALSE for the reason given above; with a comparison
by meaning (the mutant `SameMeaning`) a secret that changes and changes back
would leave the wrong receiver for good.

## Runs

| Run | Checks | Shows |
|---|---|---|
| `lifecycle` | `TeardownNeverOnActive`, `ActivePassHasItsCR`, `StrandedOnlyUnseen`, `CSVDeletedLast`, `ImplementsAddon` | install, uninstall and restart with any two of: failed call, crash, deletion of the ManagedMCG or NooBaa, component not ready, NooBaa edited, prerequisite missing |
| `teardown` | `StoresReleased`, `TeardownNeverOnActive`, `StrandedOnlyUnseen`, `ReadyFirstHand` | with any two of: bucket class or store created, ManagedMCG created without the finalizer or stripped of it, ManagedMCG or NooBaa deleted, component not ready; no call fails |
| `uninstall` | `UninstallCompletes`, `AnswerFollows` | liveness under `FairSpec` |
| `deletion` | `DeletionCompletes` | liveness under `EventSpec`, without resync or readiness |
| `claims` | `TypeOK`, `NoOrphan`, `ClaimedUnlessExcused`, `ClaimsFollow` | handler, passes, a lagging cache, users, crashes and failed calls, under `FairSpec` |
| `at_rest` | `TypeOK`, `RulesSelected`, `WatchedRestored`, `RemoteWriteFollows`, `PluginsKept` | whenever nothing runs, is queued or is in flight; `PluginsKept` is an action property of the update of the console |
| `converges` | `Converges` | liveness under `FairSpec`, for what nobody watches |
| `receivers` | `TypeOK`, `AlertsReach`, `AddressesFollow`, `ReceiversConverge` | secrets that come, change and go, users, failures and crashes beside the passes that copy them |
| `ready_stale` | violates `DeletesOnlyWhenReady` | a log message's claim |
| `claims_race` | violates `ReadyClassClaimed` | a unit test's expectation, with a pass beside the handler |
| `plugin_twice` | violates `PluginListedOnce` | a log message's claim |
| `plugin_stays` | violates `PluginUpdated` | a comment's claim, under `FairSpec` |

`ActivePassHasItsCR` and `CSVDeletedLast` are false once somebody creates a
ManagedMCG without the finalizer or strips it (a pass may then hold a copy of an
active ManagedMCG that is already gone); this is why only `lifecycle` checks
them. `StrandedOnlyUnseen` states the most that holds: the finalizer may go
before a NooBaa that no pass has seen since its creation, because a cache that
has not received the creation answers NotFound.

**Bounds.** One component stands for the three besides NooBaa: only "all of them
are Ready" matters and one can spoil it. One object per kind is enough for the
order of the kinds and for a list that is stale. `MaxHazards` bounds the adverse
events; each known way to break a property takes at most two (for instance a
lost reply and a deletion); an old status comes back
into a pass by two as well (a finalizer stripped, a component that goes down). Logs, UIDs and the number of passes are not bounded: the
normal course of the cluster converges, so the state space is finite without it.
Two classes, each of which may be there at
the start, let one event wait behind another; one creation lets a class be
re-created under a claim that is still being finalized or still in the cache; two
failures let a crash follow a lost deletion; one class has its claim in the operator's
namespace and one elsewhere. In `Resources` users touch
the objects of `Editable` only: objects of one kind are treated alike, and each run
names one of each kind its question tells apart. `at_rest` starts without the
console plugin and without a rule that the pass creates after its labelling step. `RulesSelected`, `WatchedRestored` and
`RemoteWriteFollows` (and `AlertsReach`, `AddressesFollow`) speak of the states in which only a resync could bring another
pass, so they do not lean on it. In `receivers` two numbers allow a list with a gap (1
without 0), two versions a secret that changes and changes back, and two adverse
events are what that takes. CHECK_DEADLOCK is off
for `ManagedMCG` only: the add-on, once uninstalled, really stops.

**Fairness.** `OperatorFairness`: one worker goes on with its pass and takes what
is queued, watches deliver, the kubelet restarts the pod, OLM removes a deployment
whose CSV is gone. `ClusterFairness`: noobaa-operator releases bucket classes
and missing secrets are provided. `FairSpec` adds the resync of the informers, and
the code needs it: nothing watches the StatefulSets, and two swallowed errors are
never retried. That components come up is no fairness assumption but the premise of
`UninstallCompletes` (an active ManagedMCG sees all of them Ready again and again),
because the decision to delete waits for it; CONTRIBUTING.md:310 ("the operator will start
deleting addon specific resources once this `ConfigMap` is created") does not
mention it, and an add-on that never comes up is never uninstalled. `Resources` assumes the worker, the
watches, the restart, the resync (the informers' default period), and that missing
prerequisites are provided and NooBaa comes up, which the code waits for; `AlertReceivers`
the same without NooBaa. All of it is weak
fairness. Crashes and failures are never fair; their number is finite.

**Mutants.** Every property of a passing run is shown to be breakable by a
plausible change of the code (PROJECT.json, `mutants`; the definitions named
"Mutant:" in the modules, which nothing else uses).

## Findings

* `ready_stale`: the update that adds the finalizer overwrites the states just
  computed, and the ManagedMCG is deleted on the stored ones. It takes a
  ManagedMCG that has a stored status and no finalizer.
* `claims_race`: the data race on `r.objectBucketClaim` yields a claim without a
  spec, or none, for a Ready class.
* `plugin_twice`: `reconcileConsoleCluster` checks one read of the console and
  appends to another; the cache may have received its own earlier append between.
* `plugin_stays`: `ensureConsolePlugin` "creates or updates", but what it reads
  overwrites what it wants, so an edited ConsolePlugin (and service) stays edited.

## Proofs

Every safety property the passing runs check is also a theorem (and so is the type
invariant of `ManagedMCG`, which no run needs to check): it holds for all
values of the constants (components, objects, classes, versions, adverse events
and their number) that the modules' assumptions allow, while a run shows it on
one instance. The names are those of `PROJECT.json`, `theorems`.

| Theorem | Property | Beyond the modules' assumptions |
|---|---|---|
| `ManagedMCG_proofs!TypeCorrect`, `TeardownSafe` | (types), `TeardownNeverOnActive` | |
| `Addon_proofs!StrandedSafe` | `StrandedOnlyUnseen` | |
| `Addon_proofs!ActivePassSafe`, `CSVSafe`, `Refinement` | `ActivePassHasItsCR`, `CSVDeletedLast`, `ImplementsAddon` | `NoTampering` |
| `Readiness_proofs!ReadySafe` | `ReadyFirstHand` | |
| `Stores_proofs!StoresSafe` | `StoresReleased` | `NoFailures` |
| `BucketClaims_proofs!TypeCorrect`, `OrphanSafe`, `ClaimedSafe` | `TypeOK`, `NoOrphan`, `ClaimedUnlessExcused` | |
| `Resources_proofs!TypeCorrect`, `PluginsSafe`, `RestoredSafe`, `RemoteWriteSafe`, `RulesSafe` | `TypeOK`, `PluginsKept`, `WatchedRestored`, `RemoteWriteFollows`, `RulesSelected` | |
| `AlertReceivers_proofs!TypeCorrect`, `AlertsSafe`, `AddressesSafe` | `TypeOK`, `AlertsReach`, `AddressesFollow` | |

**Assumptions.** Two hypotheses restrict the adverse events, and only where the
property is false without them. `NoTampering` (`Hazards` has neither `createMCG` nor
`stripFinalizer`): nobody goes behind the finalizer. The operator itself always
creates the ManagedMCG through `addManagedMCG` or `ensureManagedMCG`, with it; users
who take it off take the guarantee off. Failed calls, lost replies, crashes,
deletions and edits of NooBaa, outages and missing prerequisites all remain.
`NoFailures` (neither `fault` nor `crash`): `removeNoobaa` deletes the stores in the
pass that deleted NooBaa and no later pass returns to them, so one failure is
enough to leave some. The runs `lifecycle` and `teardown` check these properties
under the same restrictions. `ClassAssumption` asks for a finite set of classes: the relist
at a restart is a sequence of all of them.

**Inductive invariants.** Each was checked by TLC on the instance of a run before
it was proved.

*Copies.* `TeardownNeverOnActive` says nothing of the versions still in the cache, on
which the next pass will decide. `CopyInv` adds `Decided` (a teardown step is only
reached with a copy in deletion), `FreshCopy` (a copy with the server's
resourceVersion is the server's object, but for its status), `Issued` (no UID in the
log or the copy is larger than the server's counter, so that a new ManagedMCG is
none of them) and `DeletionSticks`, the heart: of the versions of one UID, all
after one in deletion are in deletion, and so is every version in the log of
a UID the copy has in deletion. A DeletionTimestamp is never taken back, hence
a stale copy errs only on the safe side.

*The finalizer.* `reconcilePhases` drops it on a NotFound from a cache.
`Seen`: a NooBaa that is at the server and that a pass has seen is in every version
still to be read, so a NotFound is about its removal and not about the time before
its creation. Without tampering, `LifeInv` adds `Finalized`, `Superseded` (a version
whose ManagedMCG is gone is in deletion, so an active copy is that of the
server), `Gone` (while the process runs nobody creates a ManagedMCG: one that was
found absent stays absent), `Served` (a NooBaa that was seen is not there without a
ManagedMCG) and `Asked` (the key that was found is there).

*Refinement.* `LifeInv` is what the steps of `Addon` need of the state. The proof
goes by what a step writes: `CRSteps` and `StepTouches` reduce the actions to the few
ways in which they write the ManagedMCG, NooBaa, the key and the CSV; `AddonStep` maps
each way to an action of `Addon` or a stutter.

*Readiness.* `Honest`: a copy that may still be stored and says "ready" says so by
what its own pass has read, or repeats what the server holds. It needs no
assumption on tampering: a copy of another instance is refused by its version.

*Stores.* `Owed`: what is owed is in every version still to be read, is not in
deletion, and is owed only until the loop over its kind has ended; each loop
has all of it before it. The list may be stale, but not older than the deletion.

*Claims.* The queue is a sequence of any length, so the invariants speak of
its order. `Ordered`: the last event about a class agrees with the server, or
its deletion is on record as lost. `Deleted`: a claim whose class is gone is in
deletion, or the deletion is in the queue or in the handler's hands. `Intact`: unless a pass
got in the way, the claim under construction has what the steps so far put into it,
in the object that will be sent. `Claimed`: a class has a complete claim that stays,
or an addition is still coming, or its excuse is on record; what the cache shows
is only constrained by the log, so a claim found there is the server's or a former one.

*Coming to rest.* The properties of `Resources` speak of states where nothing
remains to be done; the invariants say that whatever is wrong still has somebody to
put it right. `Ahead(step)`: the step is ahead in this pass, or another pass is
bound to come (`Bound`: queued, down, or ending in an error). `AheadStep` proves once
that a step that lies ahead does so until a pass goes through it and on; the three
invariants then only say when a step must be ahead: `Restoring` (a watched object
differs and no event is on its way), `Writing` (Prometheus contradicts the secret the
operator knows), `Labelling` (a rule is not selected and no event is on its way;
at the step itself it is among the items left). `PipelineIs` and `SuccAt` compute
the order of the steps once.

*Receivers.* `Following`: unless another pass is bound to come, what a pass has read
of each secret is what the cache says, and what the last pass stored says what
it read, or a user has written since. This is where every secret's watch is
needed. `AddressesFound` says what the recursive loop over the numbers computes, for
every `MaxAddresses`: the function of the addresses up to the first gap solves
the loop's equation (`UnbrokenLoops`) and nothing else does (`LoopUnique`, from the
least number of steps before the end at which two solutions differ;
`LeastNumber` is the library's well-foundedness of the naturals, which unlike
its induction theorems needs no operator as a parameter).

**A change to the model for the proofs.** `Receiver` takes the least matching index
of `Routes` where it had filtered the sequence.

**Only model-checked.** `UninstallCompletes`, `AnswerFollows`, `DeletionCompletes`,
`ClaimsFollow`, `Converges` and `ReceiversConverge` are liveness under fairness, which
is out of the prover's reach, and so are the four violations, which are
counterexamples. Nothing is proved of the fairness conditions themselves (ENABLED).

## Not modelled

* Generated code, scheme registration, flags and environment variables: no state
  after start-up; a missing variable ends the process before anything happens.
* Templates and console resources other than the routes and receivers of alerts
  and the selector of Prometheus: constants, the spec "proper" of `Resources`.
* What the other specs say: images, relabelling, resource requirements, the rules'
  expressions. The annotation naming a default backing store is part of NooBaa's
  drift.
* The field `reconcileStrategy` of the API: recorded and never consulted.
* Two pods at once: `config/manager/manager.yaml:19` has one replica with the
  strategy Recreate, so that a pod starts after its predecessor ended.

## Plan

Done: the modules above, the refinement, and a theorem for each safety property of
a passing run. Left:

1. What `NoTampering` and `NoFailures` cost: the part of `ImplementsAddon` that remains
   with tampering (deletions are not taken back), and the stores released up to the first
   failure, as properties with theorems of their own.
2. Safety lemmas under the liveness properties: that a ManagedMCG in deletion always
   has a pass, a queued request or an event ahead of it (the safety half of
   `DeletionCompletes`), in the manner of `Ahead`.
3. Hazards without a property (PROJECT.json): a restart between the deletion of the
   CSV and the removal of the pod, and the decision on the default backing store.
