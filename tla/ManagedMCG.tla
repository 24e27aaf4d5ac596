----------------------------- MODULE ManagedMCG -----------------------------
(***************************************************************************)
(* The life cycle of the add-on: the ManagedMCG reconciler of              *)
(* controllers/managedmcg_controller.go together with the process that     *)
(* runs it (main.go) and the cluster it acts on.                           *)
(*                                                                         *)
(* A reconcile pass is a sequence of API calls.  Each call that writes is  *)
(* a step of its own, pc names the call that comes next, and between two   *)
(* steps the cluster, its users, the watches and the process itself may do *)
(* anything.  Reads come from lagging informer caches (module Informer),   *)
(* updates are conditional on the resourceVersion that was read, deletes   *)
(* are not.                                                                *)
(*                                                                         *)
(* Abstractions.                                                           *)
(*  - A resourceVersion is compared with the server's and with nothing     *)
(*    else, so the copies the pass holds in memory carry one bit, whether  *)
(*    they are still the server's version (r.fresh, r.noobaaFresh).        *)
(*  - status.components matters to the control flow only through "all four *)
(*    components are Ready"; a version's status is none (never written),   *)
(*    ready or notReady.                                                   *)
(*  - The reads that open reconcilePhases are one step.  They write nothing *)
(*    and each is of another informer's cache; as those caches lag each by *)
(*    its own amount, what reads at different moments can return together  *)
(*    is, but for the order in which the objects are seen to change, what  *)
(*    caches with other lags return at one.                                *)
(*  - The objects of reconcileResources other than NooBaa are the step     *)
(*    reconcileRest: it creates the missing components and may fail after  *)
(*    any part of them.  comp is the cache's view of them.                 *)
(*  - Everything the cluster does to the operator beyond its normal course *)
(*    (a failed call, a crash, a user's deletion...) spends one unit of    *)
(*    budget, and only the kinds in Hazards happen.                        *)
(***************************************************************************)
EXTENDS Informer, FiniteSets

CONSTANTS
  Component,   \* the components besides NooBaa: Prometheus, Alertmanager, Console
  Obj,         \* names of BucketClasses, BackingStores and NamespaceStores
  Preexisting, \* the kinds of which there may be objects from the start
  Hazards,     \* the kinds of adverse events that may happen
  MaxHazards   \* bound: how many of them happen in one behaviour

HazardKind == {"fault", "crash", "deleteMCG", "createMCG", "stripFinalizer",
               "deleteNooBaa", "drift", "unready", "createObj", "block"}

ASSUME HazardAssumption == Hazards \subseteq HazardKind /\ MaxHazards \in Nat

VARIABLES
  mcg,        \* log of the ManagedMCG custom resource
  uids,       \* how many UIDs the server has given to ManagedMCGs
  noobaa,     \* log of the NooBaa resource the operator manages
  objs,       \* per kind, log of the set of objects in the namespace
  deleting,   \* per kind, the objects whose deletion has been requested
  key,        \* log: the add-on ConfigMap carries the deletion label
  csv,        \* the operator's own ClusterServiceVersion exists
  comp,       \* state of the other components
  blocked,    \* steps whose prerequisites (secrets, CSVs) are missing
  pc,         \* next step of the operator's process
  queue,      \* the work queue holds the reconcile request
  r,          \* the reconciler's fields that live for one pass
  witnessed,  \* history: a pass has seen this NooBaa while its ManagedMCG existed
  owed,       \* history: stores a teardown still has to delete
  budget      \* adverse events left

cr      == <<mcg, uids>>
nb      == <<noobaa, witnessed>>
stores  == <<objs, deleting, owed>>
addon   == <<key, csv, comp, blocked>>
process == <<pc, queue, r>>
vars    == <<cr, nb, stores, addon, process, budget>>
-----------------------------------------------------------------------------
\* Objects and their versions.

NoMCG == [uid |-> 0, fin |-> FALSE, del |-> FALSE, status |-> "none"]
NoNooBaa == [exists |-> FALSE, ready |-> FALSE, fin |-> FALSE, del |-> FALSE,
             drift |-> FALSE]

\* An object in deletion exists only as long as it has a finalizer, and an
\* absent object has no fields.
MCGVersion ==
  {v \in [uid : Nat, fin : BOOLEAN, del : BOOLEAN,
          status : {"none", "ready", "notReady"}] :
     /\ v.uid = 0 => ~v.fin /\ v.status = "none"
     /\ v.del => v.fin}
NooBaaVersion ==
  {v \in [exists : BOOLEAN, ready : BOOLEAN, fin : BOOLEAN, del : BOOLEAN,
          drift : BOOLEAN] :
     /\ ~v.exists => ~v.fin /\ ~v.ready /\ ~v.drift
     /\ v.del => v.fin}

Kind  == {"BucketClass", "BackingStore", "NamespaceStore"}
Store == Kind \ {"BucketClass"}
State == {"NotFound", "Pending", "Ready"}

\* A delete request: the object goes at once, or when its finalizer goes.
Deleted(v, absent) ==
  IF v = absent THEN absent
  ELSE IF v.fin THEN [v EXCEPT !.del = TRUE] ELSE absent

\* An update that drops the finalizer.
Unfinalized(v, absent) == IF v.del THEN absent ELSE [v EXCEPT !.fin = FALSE]
-----------------------------------------------------------------------------
\* The steps of the process.

\* The phases of a pass for a ManagedMCG that is not being deleted.
ActivePass == {"addManagedMCG", "updateAddonParams", "reconcileNoobaa",
               "reconcileRest", "deleteManagedMCG"}

\* removeNoobaa lists and deletes the objects of each kind in turn.
ListStep   == [BucketClass    |-> "listBucketClass",
               BackingStore   |-> "listBackingStore",
               NamespaceStore |-> "listNamespaceStore"]
DeleteStep == [BucketClass    |-> "deleteBucketClass",
               BackingStore   |-> "deleteBackingStore",
               NamespaceStore |-> "deleteNamespaceStore"]

\* Mutant: removeNoobaa forgets the namespace stores.
AfterDeleteForgetful(k) ==
  CASE k = "BucketClass" -> "pollBucketClass" [] OTHER -> "finish"

AfterDelete(k) ==
  CASE k = "BucketClass"    -> "pollBucketClass"
    [] k = "BackingStore"   -> ListStep["NamespaceStore"]
    [] k = "NamespaceStore" -> "finish"

\* The steps of a pass for a ManagedMCG that is being deleted.
Teardown == {"removeManagedMCG", "pollBucketClass", "updateNooBaa", "deleteNooBaa"}
              \cup {ListStep[k] : k \in Kind} \cup {DeleteStep[k] : k \in Kind}

Stopped == {"down", "starting", "removed"}
Running == pc \notin Stopped

Pc == Stopped \cup {"idle", "reconcilePhases", "removeOLMComponents", "finish"}
        \cup ActivePass \cup Teardown

\* initializeReconciler: the fields a pass starts with.
InitializedReconciler ==
  [managedMCG  |-> NoMCG,  \* r.managedMCG
   fresh       |-> FALSE,  \* r.managedMCG has the server's resourceVersion
   noobaaFresh |-> FALSE,  \* so has r.noobaa
   foundKey    |-> FALSE,  \* foundAddonDeletionKey
   ready       |-> FALSE,  \* history: this pass read every component as Ready
   todo        |-> {},     \* objects listed and not yet deleted
   err         |-> FALSE]  \* reconcilePhases returns an error

Spend(h) == h \in Hazards /\ budget > 0 /\ budget' = budget - 1

Goto(step, rr) == pc' = step /\ r' = rr

Failed(rr) == [rr EXCEPT !.err = TRUE]

\* The call has had its effect and control goes on to the next step with rr,
\* or the reply is lost and the pass ends with an error, holding lost.
Reply(step, rr, lost) ==
  \/ Goto(step, rr) /\ UNCHANGED budget
  \/ Spend("fault") /\ Goto("finish", Failed(lost))

\* The server or the client refuses the call (conflict, already exists...).
Refused == Goto("finish", Failed(r)) /\ UNCHANGED budget
-----------------------------------------------------------------------------
\* Reconcile and reconcilePhases.

\* Reconcile up to the get of the ManagedMCG: not found is not an error, any
\* other failure sends the request back to the queue.
Reconcile ==
  /\ pc = "idle" /\ queue
  /\ \/ /\ queue' = FALSE
        /\ Goto("reconcilePhases",
                [InitializedReconciler EXCEPT !.managedMCG = Cached(mcg),
                                              !.fresh = ~Lagging(mcg)])
        /\ UNCHANGED budget
     \/ Spend("fault") /\ UNCHANGED process
  /\ UNCHANGED <<cr, nb, stores, addon>>

\* The state UpdateNoobaaComponentStatus derives from a successful get.
NooBaaState ==
  LET v == Cached(noobaa) IN
  IF ~v.exists THEN "NotFound" ELSE IF v.ready THEN "Ready" ELSE "Pending"

\* areComponentsReadyForUninstall, on the states updateComponentStatus found.
ReadyStatus(state) ==
  IF state = "Ready" /\ \A c \in Component : comp[c] = "Ready"
  THEN "ready" ELSE "notReady"

\* Mutant: a NooBaa that could not be read counts as gone.
TeardownPhaseHasty(state) ==
  IF state \in {"NotFound", "Unknown"} THEN "removeManagedMCG"
  ELSE ListStep["BucketClass"]

\* Mutant: only a NooBaa that is up is taken down.
TeardownPhaseReady(state) ==
  IF state # "Ready" THEN "removeManagedMCG" ELSE ListStep["BucketClass"]

\* Mutant: NooBaa's absence goes unnoticed.
TeardownPhaseStuck(state) == ListStep["BucketClass"]

TeardownPhase(state) ==
  IF state = "NotFound" THEN "removeManagedMCG" ELSE ListStep["BucketClass"]

\* Mutant: the absence of a ManagedMCG is enough for the operator to leave.
ActivePhaseUnasked(v, found) ==
  CASE v.uid # 0 /\ ~v.fin    -> "addManagedMCG"
    [] v.uid # 0 /\ v.fin     -> "updateAddonParams"
    [] v.uid = 0              -> "removeOLMComponents"

ActivePhase(v, found) ==
  CASE v.uid # 0 /\ ~v.fin    -> "addManagedMCG"
    [] v.uid # 0 /\ v.fin     -> "updateAddonParams"
    [] v.uid = 0 /\ found     -> "removeOLMComponents"
    [] v.uid = 0 /\ ~found    -> "finish"

\* Mutant: the deletion key alone starts the teardown.
PhaseKeyed(v, state, found) ==
  IF v.uid # 0 /\ found THEN TeardownPhase(state) ELSE ActivePhase(v, found)

\* Mutant: with the key set, a ManagedMCG in deletion is as good as gone.
PhaseImpatient(v, state, found) ==
  IF v.del /\ found THEN "removeOLMComponents"
  ELSE IF v.del THEN TeardownPhase(state) ELSE ActivePhase(v, found)

\* The switch of reconcilePhases, for the ManagedMCG v.
Phase(v, state, found) ==
  IF v.del THEN TeardownPhase(state) ELSE ActivePhase(v, found)

\* verifyAddonDeletionKey, updateComponentStatus and the switch.
Observe(found, state, status) ==
  /\ Goto(Phase(r.managedMCG, state, found),
          [r EXCEPT !.foundKey = found,
                    !.ready = (status = "ready"),
                    !.managedMCG.status =
                       IF r.managedMCG.uid = 0 THEN "none" ELSE status,
                    !.noobaaFresh = state \in {"Pending", "Ready"} /\ ~Lagging(noobaa)])
  /\ witnessed' = \/ witnessed
                   \/ /\ r.managedMCG.uid # 0
                      /\ r.managedMCG.uid = Current(mcg).uid
                      /\ state \in {"Pending", "Ready"}
                      /\ \A i \in DOMAIN noobaa : noobaa[i].exists

\* verifyAddonDeletionKey: the ConfigMap is there and carries the label.
FoundAddonDeletionKey == Cached(key)

\* A failed read is not an error of the pass: the key counts as absent, the
\* component as Unknown.
ReconcilePhases ==
  /\ pc = "reconcilePhases"
  /\ \/ /\ Observe(FoundAddonDeletionKey, NooBaaState, ReadyStatus(NooBaaState))
        /\ UNCHANGED budget
     \/ /\ Spend("fault")
        /\ \/ Observe(FALSE, NooBaaState, ReadyStatus(NooBaaState))
           \/ Observe(FoundAddonDeletionKey, "Unknown", "notReady")
           \/ Observe(FoundAddonDeletionKey, NooBaaState, "notReady")
  /\ UNCHANGED <<cr, noobaa, stores, addon, queue>>
-----------------------------------------------------------------------------
\* The pass of a ManagedMCG that is not being deleted.

\* The update's response is decoded into r.managedMCG: a stored status
\* replaces the one this pass has just computed.
AddManagedMCG ==
  /\ pc = "addManagedMCG"
  /\ IF r.fresh
     THEN LET v == [Current(mcg) EXCEPT !.fin = TRUE]
              status == IF v.status = "none" THEN r.managedMCG.status ELSE v.status IN
          /\ mcg' = Write(mcg, v)
          /\ Reply("updateAddonParams",
                   [r EXCEPT !.managedMCG = [v EXCEPT !.status = status]],
                   [r EXCEPT !.fresh = FALSE])
     ELSE Refused /\ UNCHANGED mcg
  /\ UNCHANGED <<uids, nb, stores, addon, queue>>

UpdateAddonParams ==
  /\ pc = "updateAddonParams"
  /\ IF pc \in blocked THEN Refused
     ELSE Goto("reconcileNoobaa", r) /\ UNCHANGED budget
  /\ UNCHANGED <<cr, nb, stores, addon, queue>>

\* reconcileNoobaaComponent: CreateOrUpdate decides on the cache, the server
\* has the last word.
ReconcileNoobaa ==
  /\ pc = "reconcileNoobaa"
  /\ LET cached == Cached(noobaa)
         done == Reply("reconcileRest", r, r) IN
     \/ /\ ~cached.exists /\ ~Current(noobaa).exists
        /\ noobaa' = Write(noobaa, [NoNooBaa EXCEPT !.exists = TRUE])
        /\ witnessed' = FALSE
        /\ done
     \/ /\ cached.exists /\ cached.drift /\ ~Lagging(noobaa)
        /\ noobaa' = Write(noobaa, [cached EXCEPT !.drift = FALSE])
        /\ done
        /\ UNCHANGED witnessed
     \/ /\ cached.exists /\ ~cached.drift
        /\ Goto("reconcileRest", r)
        /\ UNCHANGED <<nb, budget>>
     \/ /\ IF cached.exists THEN cached.drift /\ Lagging(noobaa)
           ELSE Current(noobaa).exists
        /\ Refused
        /\ UNCHANGED nb
  /\ UNCHANGED <<cr, stores, addon, queue>>

\* The components of S that are missing are created and start to come up.
Created(S) ==
  comp' = [c \in Component |->
             IF c \in S /\ comp[c] = "NotFound" THEN "Pending" ELSE comp[c]]

\* The rest of reconcileResources, in sequence, up to the first failure; then
\* the decision to delete the ManagedMCG.
ReconcileRest ==
  /\ pc = "reconcileRest"
  /\ \/ /\ pc \notin blocked
        /\ Created(Component)
        /\ Goto(IF r.foundKey /\ r.managedMCG.status = "ready"
                THEN "deleteManagedMCG" ELSE "finish", r)
        /\ UNCHANGED budget
     \/ /\ \E S \in SUBSET Component : Created(S)
        /\ IF pc \in blocked THEN Refused
           ELSE Spend("fault") /\ Goto("finish", Failed(r))
  /\ UNCHANGED <<cr, nb, stores, key, csv, blocked, queue>>

\* Delete by name, whatever ManagedMCG has that name by now.
DeleteManagedMCG ==
  /\ pc = "deleteManagedMCG"
  /\ LET v == Deleted(Current(mcg), NoMCG)
         rr == [r EXCEPT !.fresh = r.fresh /\ v = Current(mcg)] IN
     /\ mcg' = Write(mcg, v)
     /\ Reply("finish", rr, rr)
  /\ UNCHANGED <<uids, nb, stores, addon, queue>>
-----------------------------------------------------------------------------
\* The pass of a ManagedMCG that is being deleted.

\* Drop the finalizer; with it the ManagedMCG goes.
RemoveManagedMCG ==
  /\ pc = "removeManagedMCG"
  /\ IF r.fresh
     THEN LET rr == [r EXCEPT !.fresh = FALSE] IN
          /\ mcg' = Write(mcg, Unfinalized(Current(mcg), NoMCG))
          /\ Reply("finish", rr, rr)
     ELSE Refused /\ UNCHANGED mcg
  /\ UNCHANGED <<uids, nb, stores, addon, queue>>

ListObjects(k) ==
  /\ pc = ListStep[k]
  /\ LET listed == Cached(objs[k]) IN
     Goto(IF listed = {} THEN AfterDelete(k) ELSE DeleteStep[k],
          [r EXCEPT !.todo = listed])
  /\ UNCHANGED <<cr, nb, stores, addon, queue, budget>>

\* One iteration of a delete loop; not found is not an error.
DeleteObject(k) ==
  /\ pc = DeleteStep[k]
  /\ \E o \in r.todo :
       LET rest == r.todo \ {o} IN
       /\ deleting' = [deleting EXCEPT ![k] = @ \cup ({o} \cap Current(objs[k]))]
       /\ owed' = [s \in Store |-> IF s = k THEN owed[s] \ {o} ELSE owed[s]]
       /\ Reply(IF rest = {} THEN AfterDelete(k) ELSE pc,
                [r EXCEPT !.todo = rest], r)
  /\ UNCHANGED <<cr, nb, objs, addon, queue>>

\* Up to 10 seconds of polling until the listed bucket classes are gone; the
\* time-out is an error.
PollBucketClass ==
  /\ pc = "pollBucketClass"
  /\ IF Cached(objs["BucketClass"]) = {}
     THEN Goto("updateNooBaa", r) /\ UNCHANGED budget
     ELSE Refused
  /\ UNCHANGED <<cr, nb, stores, addon, queue>>

\* Drop NooBaa's graceful finalizer from the copy read before the polling.
UpdateNooBaa ==
  /\ pc = "updateNooBaa"
  /\ IF r.noobaaFresh
     THEN /\ noobaa' = Write(noobaa, Unfinalized(Current(noobaa), NoNooBaa))
          /\ Reply("deleteNooBaa", r, r)
     ELSE Refused /\ UNCHANGED noobaa
  /\ UNCHANGED <<cr, witnessed, stores, addon, queue>>

\* From here on the teardown owes the deletion of every store it can see.
DeleteNooBaa ==
  /\ pc = "deleteNooBaa"
  /\ noobaa' = Write(noobaa, Deleted(Current(noobaa), NoNooBaa))
  /\ owed' = [s \in Store |->
                {o \in Obj : \A i \in DOMAIN objs[s] : o \in objs[s][i]} \ deleting[s]]
  /\ Reply(ListStep["BackingStore"], r, r)
  /\ UNCHANGED <<cr, witnessed, objs, deleting, addon, queue>>
-----------------------------------------------------------------------------
\* The end of a pass.

\* removeOLMComponents: delete the operator's own CSV.  A failed lookup is
\* swallowed (err is shadowed), a failed delete is not.
RemoveOLMComponents ==
  /\ pc = "removeOLMComponents"
  /\ \/ /\ csv' = FALSE
        /\ Reply("finish", r, r)
     \/ /\ Spend("fault") /\ Goto("finish", r)
        /\ UNCHANGED csv
  /\ UNCHANGED <<cr, nb, stores, key, comp, blocked, queue>>

\* A call fails without any effect.
FailStep ==
  /\ pc \in ActivePass \cup Teardown \cup {"removeOLMComponents"}
  /\ Spend("fault")
  /\ Goto("finish", Failed(r))
  /\ UNCHANGED <<cr, nb, stores, addon, queue>>

\* Mutant: only a status update that fails is retried.
RequeueLossy(err, statusErr) == queue \/ statusErr

\* An error of the phases or of the status update sends the request back to
\* the rate-limited queue; a successful pass does not.
Requeue(err, statusErr) == queue \/ err \/ statusErr

\* Mutant: a conflict is answered by reading the ManagedMCG again and writing
\* the status into what is found.
StatusRetried == r.managedMCG.uid # 0 /\ Current(mcg).uid # 0

\* The server accepts the status: the copy was found and is still its version.
StatusAccepted == r.managedMCG.uid # 0 /\ r.fresh

\* Status().Update of the copy in memory, then the result of Reconcile.
Finish ==
  /\ pc = "finish"
  /\ Goto("idle", InitializedReconciler)
  /\ LET stored == Write(mcg, [Current(mcg) EXCEPT !.status = r.managedMCG.status]) IN
     \/ /\ IF StatusAccepted THEN mcg' = stored ELSE UNCHANGED mcg
        /\ queue' = Requeue(r.err, r.managedMCG.uid # 0 /\ ~StatusAccepted)
        /\ UNCHANGED budget
     \/ /\ StatusAccepted
        /\ Spend("fault")
        /\ mcg' \in {mcg, stored}
        /\ queue' = Requeue(r.err, TRUE)
  /\ UNCHANGED <<uids, nb, stores, addon>>

Pass ==
  \/ Reconcile \/ ReconcilePhases
  \/ AddManagedMCG \/ UpdateAddonParams \/ ReconcileNoobaa \/ ReconcileRest
  \/ DeleteManagedMCG
  \/ RemoveManagedMCG \/ PollBucketClass \/ UpdateNooBaa \/ DeleteNooBaa
  \/ \E k \in Kind : ListObjects(k) \/ DeleteObject(k)
  \/ RemoveOLMComponents \/ Finish
-----------------------------------------------------------------------------
\* The operator's process.

Crash ==
  /\ Running /\ Spend("crash")
  /\ Goto("down", InitializedReconciler)
  /\ queue' = FALSE
  /\ UNCHANGED <<cr, nb, stores, addon>>

\* Mutant: the ManagedMCG is created without the finalizer.
NewMCGBare(uid) == [NoMCG EXCEPT !.uid = uid]

NewMCG(uid) == [NoMCG EXCEPT !.uid = uid, !.fin = TRUE]

\* ensureManagedMCG, before the manager starts: already exists is not an
\* error, any other failure ends the process, to be started again.
EnsureManagedMCG ==
  /\ pc = "down"
  /\ IF Current(mcg).uid = 0
     THEN mcg' = Write(mcg, NewMCG(uids + 1)) /\ uids' = uids + 1
     ELSE UNCHANGED cr
  /\ \/ pc' = "starting" /\ UNCHANGED budget
     \/ Spend("fault") /\ UNCHANGED pc
  /\ UNCHANGED <<nb, stores, addon, queue, r>>

\* mgr.Start: the caches are filled, what they hold is announced as created.
StartManager ==
  /\ pc = "starting"
  /\ pc' = "idle"
  /\ mcg' = Relist(mcg) /\ noobaa' = Relist(noobaa) /\ key' = Relist(key)
  /\ objs' = [k \in Kind |-> Relist(objs[k])]
  /\ queue' = \/ Current(mcg).uid # 0
              \/ Current(key)
              \/ Current(noobaa).exists
              \/ Current(objs["BucketClass"]) # {}
  /\ UNCHANGED <<uids, witnessed, deleting, owed, csv, comp, blocked, r, budget>>

\* External: OLM removes the deployment of a CSV that is gone.
OLMRemovesOperator ==
  /\ ~csv /\ pc # "removed"
  /\ Goto("removed", InitializedReconciler)
  /\ queue' = FALSE
  /\ UNCHANGED <<cr, nb, stores, addon, budget>>

Process == EnsureManagedMCG \/ StartManager \/ OLMRemovesOperator
-----------------------------------------------------------------------------
\* The watches of SetupWithManager: what an event puts into the queue.

Enqueue(b) == queue' = (queue \/ b)

\* GenerationChangedPredicate: creation, deletion, and updates that change
\* the generation, as a deletion timestamp does; finalizers and status do not.
Triggers(old, new) == old.uid # new.uid \/ old.del # new.del

DeliverMCG ==
  /\ Running /\ Lagging(mcg)
  /\ mcg' = Deliver(mcg)
  /\ Enqueue(Triggers(mcg[1], mcg[2]))
  /\ UNCHANGED <<uids, nb, stores, addon, pc, r, budget>>

DeliverNooBaa ==
  /\ Running /\ Lagging(noobaa)
  /\ noobaa' = Deliver(noobaa)
  /\ Enqueue(TRUE)
  /\ UNCHANGED <<cr, witnessed, stores, addon, pc, r, budget>>

\* configMapPredicates: only with the deletion label.
DeliverKey ==
  /\ Running /\ Lagging(key)
  /\ key' = Deliver(key)
  /\ Enqueue(key[2])
  /\ UNCHANGED <<cr, nb, stores, csv, comp, blocked, pc, r, budget>>

\* Bucket classes are watched, stores are not.
DeliverObjects(k) ==
  /\ Running /\ Lagging(objs[k])
  /\ objs' = [objs EXCEPT ![k] = Deliver(@)]
  /\ Enqueue(k = "BucketClass")
  /\ UNCHANGED <<cr, nb, deleting, owed, addon, pc, r, budget>>

\* The informers' periodic resync repeats an update event for what they hold;
\* the generation of a ManagedMCG does not change by it.
Resync ==
  /\ Running /\ ~queue
  /\ Cached(key) \/ Cached(noobaa).exists \/ Cached(objs["BucketClass"]) # {}
  /\ queue' = TRUE
  /\ UNCHANGED <<cr, nb, stores, addon, pc, r, budget>>

\* An event of another watched kind (secrets, rules, owned objects).
OtherEvent ==
  /\ Running /\ ~queue
  /\ queue' = TRUE
  /\ UNCHANGED <<cr, nb, stores, addon, pc, r, budget>>

Delivery == DeliverMCG \/ DeliverNooBaa \/ DeliverKey \/ \E k \in Kind : DeliverObjects(k)
-----------------------------------------------------------------------------
\* The cluster around the operator (external to the repository).

\* OCM labels the add-on ConfigMap to uninstall the add-on.
SetDeletionKey ==
  /\ ~Current(key)
  /\ key' = Write(key, TRUE)
  /\ UNCHANGED <<cr, nb, stores, csv, comp, blocked, process, budget>>

\* Somebody else writes the ManagedMCG: the pass's copy is out of date.
WriteMCG(v) ==
  /\ mcg' = Write(mcg, v)
  /\ r' = [r EXCEPT !.fresh = FALSE]
  /\ UNCHANGED <<nb, stores, addon, pc, queue>>

UserDeletesMCG ==
  /\ Current(mcg).uid # 0 /\ ~Current(mcg).del
  /\ Spend("deleteMCG")
  /\ WriteMCG(Deleted(Current(mcg), NoMCG)) /\ UNCHANGED uids

\* By hand, without the finalizer.
UserCreatesMCG ==
  /\ Current(mcg).uid = 0
  /\ Spend("createMCG")
  /\ WriteMCG([NoMCG EXCEPT !.uid = uids + 1]) /\ uids' = uids + 1

UserStripsFinalizer ==
  /\ Current(mcg).fin
  /\ Spend("stripFinalizer")
  /\ WriteMCG(Unfinalized(Current(mcg), NoMCG)) /\ UNCHANGED uids

\* Somebody else writes the NooBaa.
WriteNooBaa(v) ==
  /\ noobaa' = Write(noobaa, v)
  /\ r' = [r EXCEPT !.noobaaFresh = FALSE]
  /\ UNCHANGED <<cr, witnessed, stores, addon, pc, queue>>

\* noobaa-operator: reports the phase, guards the deletion with a finalizer.
NooBaaReady ==
  /\ Current(noobaa).exists /\ ~Current(noobaa).ready /\ ~Current(noobaa).del
  /\ WriteNooBaa([Current(noobaa) EXCEPT !.ready = TRUE]) /\ UNCHANGED budget

NooBaaAddsFinalizer ==
  /\ Current(noobaa).exists /\ ~Current(noobaa).fin
  /\ WriteNooBaa([Current(noobaa) EXCEPT !.fin = TRUE]) /\ UNCHANGED budget

NooBaaFinalized ==
  /\ Current(noobaa).del
  /\ WriteNooBaa(NoNooBaa) /\ UNCHANGED budget

NooBaaNotReady ==
  /\ Current(noobaa).ready
  /\ Spend("unready")
  /\ WriteNooBaa([Current(noobaa) EXCEPT !.ready = FALSE])

UserDeletesNooBaa ==
  /\ Current(noobaa).exists /\ ~Current(noobaa).del
  /\ Spend("deleteNooBaa")
  /\ WriteNooBaa(Deleted(Current(noobaa), NoNooBaa))

\* The NooBaa differs from what the operator wants: its spec was edited, or a
\* first backing store gives it a default to be annotated with.
NooBaaDrifts ==
  /\ Current(noobaa).exists /\ ~Current(noobaa).drift
  /\ Spend("drift")
  /\ WriteNooBaa([Current(noobaa) EXCEPT !.drift = TRUE])

NooBaaSteps == NooBaaAddsFinalizer \/ NooBaaFinalized \/ NooBaaNotReady
                 \/ UserDeletesNooBaa \/ NooBaaDrifts

CreateObject(k, o) ==
  /\ o \notin Current(objs[k])
  /\ Spend("createObj")
  /\ objs' = [objs EXCEPT ![k] = Write(@, Current(@) \cup {o})]
  /\ UNCHANGED <<cr, nb, deleting, owed, addon, process>>

\* The controller of an object in deletion lets it go.
FinalizeObject(k, o) ==
  /\ o \in deleting[k]
  /\ objs' = [objs EXCEPT ![k] = Write(@, Current(@) \ {o})]
  /\ deleting' = [deleting EXCEPT ![k] = @ \ {o}]
  /\ UNCHANGED <<cr, nb, owed, addon, process, budget>>

ComponentReady(c) ==
  /\ comp[c] = "Pending"
  /\ comp' = [comp EXCEPT ![c] = "Ready"]
  /\ UNCHANGED <<cr, nb, stores, key, csv, blocked, process, budget>>

ComponentFails(c) ==
  /\ comp[c] = "Ready"
  /\ Spend("unready")
  /\ comp' \in {[comp EXCEPT ![c] = "Pending"], [comp EXCEPT ![c] = "NotFound"]}
  /\ UNCHANGED <<cr, nb, stores, key, csv, blocked, process>>

\* What a ManagedMCG owned is collected after it.
GarbageCollect(c) ==
  /\ Current(mcg).uid = 0 /\ comp[c] # "NotFound"
  /\ comp' = [comp EXCEPT ![c] = "NotFound"]
  /\ UNCHANGED <<cr, nb, stores, key, csv, blocked, process, budget>>

Block(step) ==
  /\ step \notin blocked
  /\ Spend("block")
  /\ blocked' = blocked \cup {step}
  /\ UNCHANGED <<cr, nb, stores, key, csv, comp, process>>

Unblock ==
  /\ blocked # {}
  /\ blocked' = {}
  /\ UNCHANGED <<cr, nb, stores, key, csv, comp, process, budget>>

Blockable == {"updateAddonParams", "reconcileRest"}

Cluster ==
  \/ SetDeletionKey
  \/ UserDeletesMCG \/ UserCreatesMCG \/ UserStripsFinalizer
  \/ NooBaaReady \/ NooBaaSteps
  \/ \E k \in Kind, o \in Obj : CreateObject(k, o) \/ FinalizeObject(k, o)
  \/ \E c \in Component : ComponentReady(c) \/ ComponentFails(c) \/ GarbageCollect(c)
  \/ Unblock \/ \E step \in Blockable : Block(step)
-----------------------------------------------------------------------------
\* A fresh installation: the CSV is there, the operator's pod is not up yet.
Init ==
  /\ mcg = Synced(NoMCG) /\ uids = 0
  /\ noobaa = Synced(NoNooBaa)
  /\ objs \in {f \in [Kind -> {Synced({}), Synced(Obj)}] :
                \A k \in Kind \ Preexisting : f[k] = Synced({})}
  /\ deleting = [k \in Kind |-> {}]
  /\ key \in {Synced(FALSE), Synced(TRUE)}
  /\ csv = TRUE
  /\ comp = [c \in Component |-> "NotFound"]
  /\ blocked = {}
  /\ pc = "down" /\ queue = FALSE /\ r = InitializedReconciler
  /\ witnessed = FALSE
  /\ owed = [s \in Store |-> {}]
  /\ budget = MaxHazards

Next == Pass \/ FailStep \/ Crash \/ Process \/ Delivery \/ Resync \/ OtherEvent \/ Cluster

Spec == Init /\ [][Next]_vars

\* One worker takes what is in the queue, a pass goes on, the watches deliver,
\* the kubelet restarts the pod, OLM removes a deployment without a CSV.
OperatorFairness ==
  /\ WF_vars(Pass) /\ WF_vars(Process)
  /\ WF_vars(DeliverMCG) /\ WF_vars(DeliverNooBaa) /\ WF_vars(DeliverKey)
  /\ \A k \in Kind : WF_vars(DeliverObjects(k))

\* noobaa-operator lets bucket classes go and the missing prerequisites of a
\* pass are provided in the end.
ClusterFairness ==
  /\ \A o \in Obj : WF_vars(FinalizeObject("BucketClass", o))
  /\ WF_vars(Unblock)

\* Without the periodic resync.
EventSpec == Spec /\ OperatorFairness /\ ClusterFairness

FairSpec == EventSpec /\ WF_vars(Resync)
-----------------------------------------------------------------------------
\* Properties.

Reconciler ==
  [managedMCG : MCGVersion, fresh : BOOLEAN, noobaaFresh : BOOLEAN,
   foundKey : BOOLEAN, ready : BOOLEAN, todo : SUBSET Obj, err : BOOLEAN]

\* Every variable has its type; in particular no object in deletion outlives
\* its finalizer, whichever of the concurrent writers removed it.
TypeOK ==
  /\ mcg \in Log(MCGVersion) /\ uids \in Nat
  /\ noobaa \in Log(NooBaaVersion)
  /\ objs \in [Kind -> Log(SUBSET Obj)]
  /\ deleting \in [Kind -> SUBSET Obj]
  /\ key \in Log(BOOLEAN)
  /\ csv \in BOOLEAN
  /\ comp \in [Component -> State]
  /\ blocked \in SUBSET Blockable
  /\ pc \in Pc /\ queue \in BOOLEAN /\ r \in Reconciler
  /\ witnessed \in BOOLEAN
  /\ owed \in [Store -> SUBSET Obj]
  /\ budget \in Nat

\* While a pass tears NooBaa down or drops the finalizer, the ManagedMCG
\* instance it works for is in deletion at the server or already gone,
\* however old the copy is on which the pass decided (reconcilePhases reads
\* DeletionTimestamp from a lagging cache, removeNoobaa runs for seconds).
TeardownNeverOnActive ==
  pc \in Teardown =>
    /\ r.managedMCG.del
    /\ Current(mcg).uid = r.managedMCG.uid => Current(mcg).del

\* A pass that installs (creates NooBaa, deletes the ManagedMCG by name) does
\* so for the ManagedMCG that is still there, never on a stale copy of one
\* that is gone: otherwise NooBaa would be re-created after its removal, or
\* the successor deleted.  Holds while nobody goes behind the finalizer
\* (creates a ManagedMCG without it, strips it).
ActivePassHasItsCR ==
  pc \in ActivePass => Current(mcg).uid = r.managedMCG.uid

\* The finalizer is dropped with NooBaa still at the server only if no pass
\* of a ManagedMCG has ever seen it: a NotFound from the cache (reconcilePhases) is
\* then about the time before its creation.
StrandedOnlyUnseen ==
  pc = "removeManagedMCG" => ~Current(noobaa).exists \/ ~witnessed

\* When the operator is about to delete its own CSV (removeOLMComponents)
\* there is no ManagedMCG left at the server, nor a NooBaa it has ever seen:
\* nothing is left that would need the operator.
CSVDeletedLast ==
  pc = "removeOLMComponents" =>
    /\ Current(mcg).uid = 0
    /\ ~Current(noobaa).exists \/ ~witnessed

\* By the time the finalizer is dropped, every backing store and namespace
\* store that removeNoobaa could see when it deleted NooBaa has been deleted.
\* NooBaa's absence makes the next pass skip removeNoobaa, so this holds only
\* when no call fails and the process survives in between.
StoresReleased ==
  pc = "removeManagedMCG" => \A s \in Store : owed[s] = {}

\* The phase of the ManagedMCG at the server.
LifePhase == IF Current(mcg).uid = 0 THEN "absent"
             ELSE IF Current(mcg).del THEN "deleting" ELSE "active"

Life == INSTANCE Addon WITH
          phase <- LifePhase,
          gateway <- Current(noobaa).exists /\ witnessed,
          requested <- Current(key),
          installed <- csv

\* However stale its reads and wherever it is cut off, the operator takes no
\* step the abstract add-on may not take: a deletion is never taken back, the
\* finalizer goes after NooBaa, NooBaa serves only beside a ManagedMCG, and
\* the CSV goes last and only when the deletion key asks for it.  Holds while
\* nobody goes behind the finalizer.
ImplementsAddon == Life!Spec

\* What the operator waits for before it deletes the ManagedMCG.
AllReady == Current(noobaa).ready /\ \A c \in Component : comp[c] = "Ready"

\* Once the deletion key is set the operator takes the add-on down up to its
\* own CSV, through failures, restarts and swallowed errors, provided that
\* the components of an active ManagedMCG come up.
UninstallCompletes ==
  []<>(LifePhase = "active" => AllReady) => (Current(key) ~> ~csv)

\* A ManagedMCG in deletion goes, on watch events and retries alone, whether
\* or not any component ever becomes ready.
DeletionCompletes == (csv /\ Current(mcg).del) ~> ~Current(mcg).del

\* reconcilePhases logs "commencing addon deletion Components in ready state":
\* the pass that deletes the ManagedMCG has read every component as Ready.
DeletesOnlyWhenReady == pc = "deleteManagedMCG" => r.ready
=============================================================================
