----------------------------- MODULE Addon_proofs -----------------------------
(***************************************************************************)
(* ManagedMCG implements Addon: what a NotFound from the NooBaa cache is   *)
(* worth, why the finalizer keeps every pass with its own ManagedMCG, and  *)
(* the refinement, for every value of the constants.                       *)
(***************************************************************************)
EXTENDS ManagedMCG_proofs

\* Nobody goes behind the finalizer: no ManagedMCG is created by hand without
\* it, and none is stripped of it.
NoTampering == Hazards \cap {"createMCG", "stripFinalizer"} = {}

\* The steps whose guards were decided on what reconcilePhases has read.
Critical == {"reconcilePhases", "removeOLMComponents", "removeManagedMCG"}

\* The critical steps are steps of a running process.
LEMMA CriticalApart ==
  /\ Critical \cap Stopped = {} /\ Critical \cap ActivePass = {}
  /\ \A p \in {"idle", "finish", "pollBucketClass", "updateNooBaa", "deleteNooBaa"} :
       p \notin Critical
  /\ \A k \in Kind : ListStep[k] \notin Critical /\ DeleteStep[k] \notin Critical
                     /\ AfterDelete(k) \notin Critical
  BY DEF Critical, Stopped, ActivePass, Kind, ListStep, DeleteStep, AfterDelete

\* The critical steps are reached by Reconcile and reconcilePhases alone, and
\* a stopped process runs again only through mgr.Start.
LEMMA PhaseMoves ==
  ASSUME TypeOK, Next
  PROVE  \/ Reconcile \/ ReconcilePhases \/ StartManager
         \/ pc' = pc /\ r'.managedMCG = r.managedMCG
         \/ pc' \notin Critical /\ (pc \in Stopped => pc' \in Stopped)
  <1> DEFINE Around == pc' = pc /\ r'.managedMCG = r.managedMCG
             Onward == pc' \notin Critical /\ (pc \in Stopped => pc' \in Stopped)
  <1> USE DEF process
  <1>a. ASSUME NEW step, NEW rr, NEW lost, Reply(step, rr, lost), step \notin Critical,
               pc \notin Stopped
        PROVE  Onward
    BY <1>a, CriticalApart DEF Reply, Goto
  <1>b. ASSUME Refused, pc \notin Stopped PROVE Onward
    BY <1>b, CriticalApart DEF Refused, Goto
  <1>c. {"addManagedMCG", "updateAddonParams", "reconcileNoobaa", "reconcileRest",
         "deleteManagedMCG"} \cap Critical = {}
    BY CriticalApart DEF ActivePass
  <1>1. CASE \/ AddManagedMCG \/ UpdateAddonParams \/ ReconcileNoobaa \/ ReconcileRest
             \/ DeleteManagedMCG
    <2>1. pc \in ActivePass /\ pc \notin Stopped
      BY <1>1, Apart DEF AddManagedMCG, UpdateAddonParams, ReconcileNoobaa, ReconcileRest,
                         DeleteManagedMCG, ActivePass
    <2>2. CASE AddManagedMCG
      BY <2>1, <2>2, <1>a, <1>b, <1>c DEF AddManagedMCG
    <2>3. CASE UpdateAddonParams
      BY <2>1, <2>3, <1>b, <1>c DEF UpdateAddonParams, Goto
    <2>4. CASE ReconcileNoobaa
      BY <2>1, <2>4, <1>a, <1>b, <1>c DEF ReconcileNoobaa, Goto
    <2>5. CASE ReconcileRest
      BY <2>1, <2>5, <1>b, <1>c, CriticalApart DEF ReconcileRest, Goto
    <2>6. CASE DeleteManagedMCG
      BY <2>1, <2>6, <1>a, CriticalApart DEF DeleteManagedMCG
    <2> QED
      BY <1>1, <2>2, <2>3, <2>4, <2>5, <2>6
  <1>2. CASE RemoveManagedMCG \/ PollBucketClass \/ UpdateNooBaa \/ DeleteNooBaa
    <2>1. pc \notin Stopped
      BY <1>2, Apart DEF RemoveManagedMCG, PollBucketClass, UpdateNooBaa, DeleteNooBaa, Teardown
    <2>2. CASE RemoveManagedMCG
      BY <2>1, <2>2, <1>a, <1>b, CriticalApart DEF RemoveManagedMCG
    <2>3. CASE PollBucketClass
      BY <2>1, <2>3, <1>b, CriticalApart DEF PollBucketClass, Goto
    <2>4. CASE UpdateNooBaa
      BY <2>1, <2>4, <1>a, <1>b, CriticalApart DEF UpdateNooBaa
    <2>5. CASE DeleteNooBaa
      BY <2>1, <2>5, <1>a, CriticalApart DEF DeleteNooBaa, Kind
    <2> QED
      BY <1>2, <2>2, <2>3, <2>4, <2>5
  <1>3. ASSUME NEW k \in Kind, ListObjects(k) \/ DeleteObject(k) PROVE Onward
    <2>1. pc \notin Stopped /\ pc \notin Critical
      BY <1>3, Apart, CriticalApart DEF ListObjects, DeleteObject, Teardown
    <2>2. CASE ListObjects(k)
      BY <2>1, <2>2, CriticalApart DEF ListObjects, Goto
    <2>3. CASE DeleteObject(k)
      <3>1. \E step, rr : Reply(step, rr, r) /\ step \in {AfterDelete(k), pc}
        BY <2>3 DEF DeleteObject
      <3> QED
        BY <1>a, <2>1, <3>1, CriticalApart
    <2> QED
      BY <1>3, <2>2, <2>3
  <1>4. CASE RemoveOLMComponents
    BY <1>4, <1>a, Apart, CriticalApart DEF RemoveOLMComponents, Goto
  <1>5. CASE Finish \/ FailStep
    BY <1>5, Apart, CriticalApart DEF Finish, FailStep, Goto
  <1>6. CASE Crash \/ EnsureManagedMCG \/ OLMRemovesOperator
    BY <1>6, CriticalApart
       DEF Crash, EnsureManagedMCG, OLMRemovesOperator, Goto, Running, Stopped
  <1>7. CASE Delivery \/ Resync \/ OtherEvent
    BY <1>7 DEF Delivery, DeliverMCG, DeliverNooBaa, DeliverKey, DeliverObjects, Resync,
                OtherEvent
  <1>8. ASSUME NEW v, WriteMCG(v) \/ WriteNooBaa(v) PROVE Around
    BY <1>8 DEF WriteMCG, WriteNooBaa, TypeOK, Reconciler
  <1>9. CASE UserDeletesMCG \/ UserCreatesMCG \/ UserStripsFinalizer
    BY <1>8, <1>9 DEF UserDeletesMCG, UserCreatesMCG, UserStripsFinalizer
  <1>10. CASE NooBaaReady \/ NooBaaSteps
    BY <1>8, <1>10 DEF NooBaaReady, NooBaaSteps, NooBaaAddsFinalizer, NooBaaFinalized,
                       NooBaaNotReady, UserDeletesNooBaa, NooBaaDrifts
  <1>11. CASE \/ SetDeletionKey
              \/ \E k \in Kind, o \in Obj : CreateObject(k, o) \/ FinalizeObject(k, o)
              \/ \E c \in Component : ComponentReady(c) \/ ComponentFails(c) \/ GarbageCollect(c)
              \/ Unblock \/ \E step \in Blockable : Block(step)
    BY <1>11 DEF SetDeletionKey, CreateObject, FinalizeObject, ComponentReady, ComponentFails,
                 GarbageCollect, Unblock, Block
  <1> QED
    BY <1>1, <1>2, <1>3, <1>4, <1>5, <1>6, <1>7, <1>9, <1>10, <1>11
       DEF Next, Pass, Process, Cluster
-----------------------------------------------------------------------------
\* What a step touches.

\* NooBaa is written only while it exists, created unwitnessed, or delivered.
NooBaaStep ==
  \/ \E v \in NooBaaVersion :
       /\ noobaa' = Write(noobaa, v) /\ witnessed' = witnessed
       /\ v.exists => Current(noobaa).exists
  \/ \E v \in NooBaaVersion :
       /\ noobaa' = Write(noobaa, v) /\ ~witnessed'
       /\ ~Current(noobaa).exists
  \/ noobaa' = Deliver(noobaa) /\ Lagging(noobaa) /\ witnessed' = witnessed

\* The deletion key is set or delivered, never taken away.
KeyStep ==
  \/ key' = Write(key, TRUE)
  \/ key' = Deliver(key) /\ Lagging(key)

\* A step concerns one thing at a time: the ManagedMCG, NooBaa, the deletion
\* key, the CSV, or, when the process starts, the caches.
Touches ==
  \/ UNCHANGED <<noobaa, witnessed, key, csv>>
  \/ ReconcilePhases
  \/ NooBaaStep /\ UNCHANGED <<mcg, key, csv>>
  \/ KeyStep /\ UNCHANGED <<mcg, noobaa, witnessed, csv>>
  \/ pc = "removeOLMComponents" /\ ~csv' /\ UNCHANGED <<mcg, noobaa, witnessed, key>>
  \/ StartManager

\* What may be written into an existing or absent NooBaa.
LEMMA NooBaaWrites ==
  ASSUME TypeOK
  PROVE  LET v == Current(noobaa) IN
         /\ v \in NooBaaVersion
         /\ Deleted(v, NoNooBaa) \in NooBaaVersion
         /\ Deleted(v, NoNooBaa).exists => v.exists
         /\ Unfinalized(v, NoNooBaa) \in NooBaaVersion
         /\ Unfinalized(v, NoNooBaa).exists => v.exists
         /\ NoNooBaa \in NooBaaVersion /\ ~NoNooBaa.exists
  <1>1. Current(noobaa) \in NooBaaVersion
    BY ReadTypes
  <1>2. \A v \in NooBaaVersion :
          /\ Deleted(v, NoNooBaa).exists => v.exists
          /\ Unfinalized(v, NoNooBaa).exists => v.exists
    BY DEF Deleted, Unfinalized, NooBaaVersion, NoNooBaa
  <1> QED
    BY <1>1, <1>2, NooBaaVersions

\* Every step touches one thing.
LEMMA StepTouches ==
  ASSUME TypeOK, Next
  PROVE  Touches
  <1> USE DEF cr, nb, stores, addon
  <1>a. Current(noobaa) \in NooBaaVersion /\ Cached(noobaa) \in NooBaaVersion
    BY ReadTypes
  <1>1. CASE \/ Reconcile \/ AddManagedMCG \/ UpdateAddonParams \/ ReconcileRest
             \/ DeleteManagedMCG \/ RemoveManagedMCG \/ PollBucketClass \/ Finish
             \/ FailStep \/ Crash \/ EnsureManagedMCG \/ OLMRemovesOperator
    BY <1>1 DEF Touches, Reconcile, AddManagedMCG, UpdateAddonParams, ReconcileRest,
                DeleteManagedMCG, RemoveManagedMCG, PollBucketClass, Finish, FailStep, Crash,
                EnsureManagedMCG, OLMRemovesOperator
  <1>2. CASE \E k \in Kind : ListObjects(k) \/ DeleteObject(k) \/ DeliverObjects(k)
    BY <1>2 DEF Touches, ListObjects, DeleteObject, DeliverObjects
  <1>3. CASE ReconcileNoobaa
    <2> USE DEF ReconcileNoobaa
    <2>1. [NoNooBaa EXCEPT !.exists = TRUE] \in NooBaaVersion
      BY NooBaaVersions
    <2>2. Cached(noobaa).exists => [Cached(noobaa) EXCEPT !.drift = FALSE] \in NooBaaVersion
      BY <1>a, NooBaaVersions
    <2>3. ~Lagging(noobaa) => Cached(noobaa) = Current(noobaa)
      BY LogElements DEF TypeOK, Lagging, Cached, Current
    <2> QED
      BY <1>3, <2>1, <2>2, <2>3 DEF Touches, NooBaaStep
  <1>4. CASE UpdateNooBaa \/ DeleteNooBaa
    BY <1>4, NooBaaWrites DEF UpdateNooBaa, DeleteNooBaa, Touches, NooBaaStep
  <1>5. CASE RemoveOLMComponents
    BY <1>5 DEF RemoveOLMComponents, Touches
  <1>6. CASE DeliverMCG \/ DeliverNooBaa \/ DeliverKey \/ Resync \/ OtherEvent
    BY <1>6 DEF DeliverMCG, DeliverNooBaa, DeliverKey, Resync, OtherEvent, Touches,
                NooBaaStep, KeyStep
  <1>7. ASSUME NEW v \in NooBaaVersion, WriteNooBaa(v), v.exists => Current(noobaa).exists
        PROVE  Touches
    BY <1>7 DEF WriteNooBaa, Touches, NooBaaStep
  <1>8. CASE NooBaaReady \/ NooBaaSteps
    <2>1. Current(noobaa).ready => Current(noobaa).exists
      BY <1>a DEF NooBaaVersion
    <2> QED
      BY <1>8, <1>7, <1>a, <2>1, NooBaaVersions, NooBaaWrites
         DEF NooBaaReady, NooBaaSteps, NooBaaAddsFinalizer, NooBaaFinalized, NooBaaNotReady,
             UserDeletesNooBaa, NooBaaDrifts
  <1>9. CASE UserDeletesMCG \/ UserCreatesMCG \/ UserStripsFinalizer
    BY <1>9 DEF UserDeletesMCG, UserCreatesMCG, UserStripsFinalizer, WriteMCG, Touches
  <1>10. CASE SetDeletionKey
    BY <1>10 DEF SetDeletionKey, Touches, KeyStep
  <1>11. CASE \/ \E k \in Kind, o \in Obj : CreateObject(k, o) \/ FinalizeObject(k, o)
              \/ \E c \in Component : ComponentReady(c) \/ ComponentFails(c) \/ GarbageCollect(c)
              \/ Unblock \/ \E step \in Blockable : Block(step)
    BY <1>11 DEF CreateObject, FinalizeObject, ComponentReady, ComponentFails,
                 GarbageCollect, Unblock, Block, Touches
  <1> QED
    BY <1>1, <1>2, <1>3, <1>4, <1>5, <1>6, <1>8, <1>9, <1>10, <1>11
       DEF Next, Pass, Process, Delivery, Cluster, Touches
-----------------------------------------------------------------------------
\* A NotFound from the cache.

\* A NooBaa that a pass has seen is in every version the cache may still see:
\* a NotFound is then not about the time before its creation.
Seen == Current(noobaa).exists /\ witnessed => \A i \in DOMAIN noobaa : noobaa[i].exists

\* reconcilePhases drops the finalizer only on a NotFound from the cache.
LEMMA ObserveGateway ==
  ASSUME TypeOK, ReconcilePhases
  PROVE  /\ UNCHANGED <<mcg, noobaa, key, csv>>
         /\ pc = "reconcilePhases" /\ pc' # "reconcilePhases"
         /\ r'.managedMCG.uid = r.managedMCG.uid
         /\ pc' = "removeManagedMCG" => ~Cached(noobaa).exists
         /\ pc' = "removeOLMComponents" => r.managedMCG.uid = 0 /\ Cached(key)
         /\ witnessed' # witnessed =>
              /\ witnessed' /\ \A i \in DOMAIN noobaa : noobaa[i].exists
              /\ r.managedMCG.uid # 0 /\ r.managedMCG.uid = Current(mcg).uid
  <1> USE DEF cr, stores, addon
  <1>a. r \in Reconciler /\ r.managedMCG \in MCGVersion /\ witnessed \in BOOLEAN
    BY ReadTypes DEF TypeOK
  <1>1. UNCHANGED <<mcg, noobaa, key, csv>> /\ pc = "reconcilePhases"
    BY DEF ReconcilePhases
  <1>2. PICK found \in {FALSE, Cached(key)}, state \in {NooBaaState, "Unknown"},
             status \in {ReadyStatus(NooBaaState), "notReady"} :
          Observe(found, state, status)
    BY DEF ReconcilePhases, FoundAddonDeletionKey
  <1>s. state = "NotFound" => ~Cached(noobaa).exists
    BY DEF NooBaaState
  <1>3. pc' = Phase(r.managedMCG, state, found)
    BY <1>2 DEF Observe, Goto
  <1>4. r'.managedMCG.uid = r.managedMCG.uid
    BY <1>a, <1>2 DEF Observe, Goto, Reconciler, MCGVersion
  <1>5. pc' # "reconcilePhases"
        /\ (pc' = "removeManagedMCG" => state = "NotFound")
        /\ (pc' = "removeOLMComponents" => r.managedMCG.uid = 0 /\ found)
    <2>1. CASE r.managedMCG.del
      BY <1>3, <2>1 DEF Phase, TeardownPhase, ListStep
    <2>2. CASE ~r.managedMCG.del
      BY <1>3, <1>a, <2>2, MCGVersions DEF Phase, ActivePhase
    <2> QED
      BY <2>1, <2>2
  <1>6. witnessed' # witnessed =>
          /\ witnessed' /\ \A i \in DOMAIN noobaa : noobaa[i].exists
          /\ r.managedMCG.uid # 0 /\ r.managedMCG.uid = Current(mcg).uid
    BY <1>2, <1>a DEF Observe
  <1> QED
    BY <1>1, <1>2, <1>s, <1>4, <1>5, <1>6

\* NooBaa's log keeps what it says of a NooBaa that was seen.
LEMMA SeenStep ==
  ASSUME TypeOK, Next, Seen, StrandedOnlyUnseen
  PROVE  Seen' /\ StrandedOnlyUnseen'
  <1>a. /\ noobaa \in Log(NooBaaVersion) /\ witnessed \in BOOLEAN
        /\ Len(noobaa) \in DOMAIN noobaa /\ 1 \in DOMAIN noobaa
        /\ Current(noobaa) = noobaa[Len(noobaa)] /\ Cached(noobaa) = noobaa[1]
    BY LogElements DEF TypeOK, Current, Cached
  <1>b. pc' = "removeManagedMCG" => ReconcilePhases \/ pc = "removeManagedMCG"
    <2>1. Reconcile => pc' # "removeManagedMCG"
      BY DEF Reconcile, Goto, process
    <2>2. StartManager => pc' # "removeManagedMCG"
      BY DEF StartManager
    <2> QED
      BY <2>1, <2>2, PhaseMoves DEF Critical
  <1>1. CASE ReconcilePhases
    <2>1. noobaa' = noobaa /\ Current(noobaa)' = Current(noobaa)
      BY <1>1, ObserveGateway DEF Current
    <2>2. CASE witnessed' = witnessed
      BY <1>1, <1>a, <2>1, <2>2, ObserveGateway DEF Seen, StrandedOnlyUnseen
    <2>3. CASE witnessed' # witnessed
      BY <1>1, <1>a, <2>1, <2>3, ObserveGateway DEF Seen, StrandedOnlyUnseen
    <2> QED
      BY <2>2, <2>3
  <1>2. CASE ~ReconcilePhases /\ noobaa' = noobaa /\ witnessed' = witnessed
    BY <1>2, <1>b DEF Seen, StrandedOnlyUnseen, Current
  <1>3. ASSUME NEW v \in NooBaaVersion, noobaa' = Write(noobaa, v), ~ReconcilePhases,
               \/ witnessed' = witnessed /\ (v.exists => Current(noobaa).exists)
               \/ ~witnessed'
        PROVE  Seen' /\ StrandedOnlyUnseen'
    <2>1. Current(noobaa)' = v
      BY <1>3, <1>a, WriteLog
    <2>2. \A i \in DOMAIN noobaa' : noobaa'[i] = v \/ (i \in DOMAIN noobaa /\ noobaa'[i] = noobaa[i])
      BY <1>3, <1>a, WriteLog
    <2> QED
      BY <1>3, <1>b, <2>1, <2>2 DEF Seen, StrandedOnlyUnseen
  <1>4. CASE ~ReconcilePhases /\ noobaa' = Deliver(noobaa) /\ Lagging(noobaa)
             /\ witnessed' = witnessed
    <2>1. Current(noobaa)' = Current(noobaa)
          /\ \A i \in DOMAIN noobaa' : i + 1 \in DOMAIN noobaa /\ noobaa'[i] = noobaa[i + 1]
      BY <1>4, <1>a, DeliverLog
    <2> QED
      BY <1>4, <1>b, <2>1 DEF Seen, StrandedOnlyUnseen
  <1>5. CASE StartManager
    <2>1. noobaa' = Relist(noobaa) /\ witnessed' = witnessed /\ pc' = "idle"
      BY <1>5 DEF StartManager
    <2>2. Current(noobaa)' = Current(noobaa) /\ DOMAIN noobaa' = {1}
          /\ noobaa'[1] = Current(noobaa)
      BY <1>a, <2>1, RelistLog
    <2> QED
      BY <2>1, <2>2 DEF Seen, StrandedOnlyUnseen
  <1> QED
    BY <1>1, <1>2, <1>3, <1>4, <1>5, StepTouches DEF Touches, NooBaaStep

\* What a pass may conclude from NooBaa's absence.
GatewayInv == CopyInv /\ Seen /\ StrandedOnlyUnseen

\* It holds at the start and every step keeps it.
LEMMA GatewayInvariant == Spec => []GatewayInv
  <1>1. Init => GatewayInv
    <2> SUFFICES ASSUME Init PROVE GatewayInv
      OBVIOUS
    <2>1. ~witnessed /\ pc = "down"
      BY DEF Init
    <2> QED
      BY <2>1, CopyInvInit DEF GatewayInv, Seen, StrandedOnlyUnseen
  <1>2. GatewayInv /\ [Next]_vars => GatewayInv'
    <2> SUFFICES ASSUME GatewayInv, [Next]_vars PROVE GatewayInv'
      OBVIOUS
    <2>1. CASE Next
      BY <2>1, CopyInvStep, SeenStep DEF GatewayInv, CopyInv
    <2>2. CASE UNCHANGED vars
      BY <2>2, CopyInvStep
         DEF vars, nb, process, GatewayInv, Seen, StrandedOnlyUnseen, Current
    <2> QED
      BY <2>1, <2>2
  <1> QED
    BY <1>1, <1>2, PTL DEF Spec

\* removeManagedMCG never drops the finalizer while a NooBaa that some pass of
\* a ManagedMCG has seen is at the server, although reconcilePhases learns of
\* NooBaa's absence from a cache that may lag arbitrarily far behind and
\* although users, crashes and failed calls come in between.
THEOREM StrandedSafe == Spec => []StrandedOnlyUnseen
  <1>1. GatewayInv => StrandedOnlyUnseen
    BY DEF GatewayInv
  <1> QED
    BY <1>1, GatewayInvariant, PTL
-----------------------------------------------------------------------------
\* The finalizer.

\* Every ManagedMCG at the server has the finalizer.
Finalized == Current(mcg).uid # 0 => Current(mcg).fin

\* A version of a ManagedMCG that is gone is a version in deletion, in the
\* log and in the pass's copy: the cache had seen the deletion before the
\* finalizer went.
Superseded ==
  /\ \A i \in DOMAIN mcg : mcg[i].uid \notin {0, Current(mcg).uid} => mcg[i].del
  /\ r.managedMCG.uid \notin {0, Current(mcg).uid} => r.managedMCG.del

\* As long as the process runs nobody creates a ManagedMCG, so that one that
\* was found absent stays absent.
Gone ==
  /\ Running => \A i \in DOMAIN mcg : mcg[i].uid = 0 => Current(mcg).uid = 0
  /\ pc \in {"reconcilePhases", "removeOLMComponents"} /\ r.managedMCG.uid = 0
       => Current(mcg).uid = 0
  /\ pc = "removeOLMComponents" => r.managedMCG.uid = 0

\* A NooBaa that was seen is never at the server without a ManagedMCG.
Served == Current(mcg).uid = 0 => ~Current(noobaa).exists \/ ~witnessed

\* The deletion key that was found is still there.
Asked ==
  /\ \A i \in DOMAIN key : key[i] => Current(key)
  /\ pc = "removeOLMComponents" => Current(key)

\* What happens to the server's ManagedMCG: it is amended under its finalizer,
\* released by removeManagedMCG when in deletion, or created by a process that
\* is not running yet.
Amended == \E v \in MCGVersion :
  /\ mcg' = Write(mcg, v) /\ v.uid = Current(mcg).uid
  /\ v.uid # 0 => v.fin
  /\ Current(mcg).del => v.del

Released ==
  /\ pc = "removeManagedMCG" /\ pc' = "finish"
  /\ mcg' = Write(mcg, NoMCG)
  /\ r.managedMCG.uid = Current(mcg).uid /\ r.managedMCG.del /\ Current(mcg).del
  /\ r'.managedMCG = r.managedMCG

Brought == \E v \in MCGVersion :
  /\ pc \in Stopped /\ pc' \in Stopped
  /\ Current(mcg).uid = 0
  /\ mcg' = Write(mcg, v) /\ v.uid = uids + 1 /\ v.fin /\ ~v.del

CRStep ==
  \/ mcg' = mcg
  \/ Amended \/ Released \/ Brought
  \/ mcg' = Deliver(mcg) /\ Lagging(mcg)
  \/ mcg' = Relist(mcg)

\* Without tampering these are the only steps there are.
LEMMA CRSteps ==
  ASSUME NoTampering, CopyInv, Finalized, Next
  PROVE  CRStep
  <1> USE DEF cr, nb, stores, addon, process, CRStep
  <1>a. /\ r \in Reconciler /\ mcg \in Log(MCGVersion) /\ uids \in Nat
        /\ r.managedMCG \in MCGVersion /\ Current(mcg) \in MCGVersion
        /\ TypeOK /\ Decided /\ FreshCopy
    BY ReadTypes DEF CopyInv, TypeOK
  <1>b. mcg' = Write(mcg, Deleted(Current(mcg), NoMCG)) => Amended
    <2>1. LET v == Deleted(Current(mcg), NoMCG)
          IN  /\ v \in MCGVersion /\ v.uid = Current(mcg).uid
              /\ v.uid # 0 => v.fin
              /\ Current(mcg).del => v.del
      BY <1>a, MCGVersions DEF Finalized, Deleted, MCGVersion, NoMCG
    <2> QED
      BY <2>1 DEF Amended
  <1>1. CASE mcg' = mcg
    BY <1>1
  <1>2. CASE AddManagedMCG
    <2>1. CASE r.fresh
      <3>1. Current(mcg).uid # 0
        BY <1>2, <1>a, <2>1 DEF AddManagedMCG, Decided, FreshCopy, ActivePass
      <3>2. [Current(mcg) EXCEPT !.fin = TRUE] \in MCGVersion
            /\ [Current(mcg) EXCEPT !.fin = TRUE].uid = Current(mcg).uid
            /\ [Current(mcg) EXCEPT !.fin = TRUE].fin
            /\ [Current(mcg) EXCEPT !.fin = TRUE].del = Current(mcg).del
        BY <1>a, <3>1, MCGVersions DEF MCGVersion
      <3> QED
        BY <1>2, <2>1, <3>2 DEF AddManagedMCG, Amended
    <2> QED
      BY <1>2, <1>1, <2>1 DEF AddManagedMCG
  <1>3. CASE DeleteManagedMCG
    BY <1>3, <1>b DEF DeleteManagedMCG
  <1>4. CASE RemoveManagedMCG
    <2>1. CASE r.fresh
      <3>1. r.managedMCG.del /\ Current(mcg).uid = r.managedMCG.uid /\ Current(mcg).del
        BY <1>4, <1>a, <2>1 DEF RemoveManagedMCG, Decided, FreshCopy, Teardown
      <3>2. mcg' = Write(mcg, NoMCG)
        BY <1>4, <2>1, <3>1 DEF RemoveManagedMCG, Unfinalized
      <3>3. pc' = "finish" /\ r'.managedMCG = r.managedMCG
        BY <1>4, <1>a, <2>1 DEF RemoveManagedMCG, Reply, Goto, Failed, Reconciler
      <3> QED
        BY <1>4, <3>1, <3>2, <3>3 DEF RemoveManagedMCG, Released
    <2> QED
      BY <1>4, <1>1, <2>1 DEF RemoveManagedMCG
  <1>5. CASE Finish
    <2> DEFINE v == [Current(mcg) EXCEPT !.status = r.managedMCG.status]
    <2>1. mcg' = mcg \/ (r.fresh /\ r.managedMCG.uid # 0 /\ mcg' = Write(mcg, v))
      BY <1>5 DEF Finish, StatusAccepted
    <2>2. CASE r.fresh /\ r.managedMCG.uid # 0
      <3>1. Current(mcg).uid # 0 /\ r.managedMCG.status \in {"none", "ready", "notReady"}
        BY <1>a, <2>2 DEF FreshCopy, MCGVersion
      <3>2. v \in MCGVersion /\ v.uid = Current(mcg).uid /\ v.fin = Current(mcg).fin
            /\ v.del = Current(mcg).del
        BY <1>a, <3>1, MCGVersions DEF MCGVersion
      <3> HIDE DEF v
      <3> QED
        BY <1>1, <2>1, <3>1, <3>2 DEF Amended, Finalized
    <2> QED
      BY <1>1, <2>1, <2>2
  <1>6. CASE EnsureManagedMCG
    <2>1. pc \in Stopped /\ pc' \in Stopped
      BY <1>6 DEF EnsureManagedMCG, Stopped
    <2>2. uids + 1 \in Nat /\ uids + 1 # 0
      BY <1>a
    <2>3. NewMCG(uids + 1) \in MCGVersion /\ NewMCG(uids + 1).uid = uids + 1
          /\ NewMCG(uids + 1).fin /\ ~NewMCG(uids + 1).del
      BY <2>2, MCGVersions DEF NewMCG, NoMCG
    <2> QED
      BY <1>6, <2>1, <2>3 DEF EnsureManagedMCG, Brought
  <1>7. CASE StartManager \/ DeliverMCG
    BY <1>7 DEF StartManager, DeliverMCG
  <1>8. CASE UserDeletesMCG
    BY <1>8, <1>b DEF UserDeletesMCG, WriteMCG
  <1>9. ~UserCreatesMCG /\ ~UserStripsFinalizer
    BY DEF UserCreatesMCG, UserStripsFinalizer, Spend, NoTampering
  <1>10. CASE Reconcile \/ ReconcilePhases \/ Crash \/ OLMRemovesOperator
    BY <1>10 DEF Reconcile, ReconcilePhases, Crash, OLMRemovesOperator
  <1>11. Within => mcg' = mcg
    BY DEF Within
  <1> QED
    BY <1>a, <1>1, <1>2, <1>3, <1>4, <1>5, <1>6, <1>7, <1>8, <1>9, <1>10, <1>11,
       PassWithin, AroundWithin
       DEF Next, Pass, Process, Delivery, Cluster

\* How the server's ManagedMCG and the log of it change.
LEMMA CRStepLog ==
  ASSUME TypeOK, CRStep
  PROVE  /\ \/ Current(mcg)' = Current(mcg)
            \/ Amended /\ Current(mcg)'.uid = Current(mcg).uid
               /\ (Current(mcg)'.uid # 0 => Current(mcg)'.fin)
               /\ (Current(mcg).del => Current(mcg)'.del)
            \/ Released /\ Current(mcg)' = NoMCG
            \/ Brought /\ Current(mcg)'.uid = uids + 1 /\ Current(mcg)'.fin
               /\ ~Current(mcg)'.del
         /\ \A i \in DOMAIN mcg' :
              \/ mcg'[i] = Current(mcg)'
              \/ \E j \in DOMAIN mcg : mcg'[i] = mcg[j]
  <1>a. mcg \in Log(MCGVersion) /\ NoMCG \in MCGVersion /\ Len(mcg) \in DOMAIN mcg
        /\ Current(mcg) = mcg[Len(mcg)]
    BY LogElements, MCGVersions DEF TypeOK, Current
  <1>1. CASE mcg' = mcg
    BY <1>1 DEF Current
  <1>2. ASSUME NEW v \in MCGVersion, mcg' = Write(mcg, v)
        PROVE  /\ Current(mcg)' = v
               /\ \A i \in DOMAIN mcg' :
                    mcg'[i] = Current(mcg)' \/ \E j \in DOMAIN mcg : mcg'[i] = mcg[j]
    BY <1>2, <1>a, WriteLog
  <1>3. CASE Amended
    BY <1>2, <1>3 DEF Amended
  <1>4. CASE Released
    BY <1>2, <1>4, <1>a DEF Released
  <1>5. CASE Brought
    BY <1>2, <1>5 DEF Brought
  <1>6. CASE mcg' = Deliver(mcg) /\ Lagging(mcg)
    BY <1>6, <1>a, DeliverLog
  <1>7. CASE mcg' = Relist(mcg)
    BY <1>7, <1>a, RelistLog
  <1> QED
    BY <1>1, <1>3, <1>4, <1>5, <1>6, <1>7 DEF CRStep

\* No step takes the finalizer off a ManagedMCG that is not released, or
\* leaves an active version of one that is gone.
LEMMA FinalizerStep ==
  ASSUME NoTampering, CopyInv, TypeOK', Finalized, Superseded, Next
  PROVE  Finalized' /\ Superseded'
  <1>a. /\ CRStep /\ CopyStep /\ TypeOK
        /\ r.managedMCG \in MCGVersion /\ Current(mcg) \in MCGVersion /\ uids \in Nat
        /\ Cached(mcg) = mcg[1] /\ 1 \in DOMAIN mcg
        /\ \A i \in DOMAIN mcg : mcg[i] \in MCGVersion
    BY CRSteps, CopyInvariants, ReadTypes, LogElements DEF CopyInv, TypeOK, Cached
  <1>b. \/ Current(mcg)' = Current(mcg)
        \/ Amended /\ Current(mcg)'.uid = Current(mcg).uid
           /\ (Current(mcg)'.uid # 0 => Current(mcg)'.fin)
        \/ Released /\ Current(mcg)' = NoMCG
        \/ Brought /\ Current(mcg)'.fin
    BY <1>a, CRStepLog
  <1>c. \A i \in DOMAIN mcg' :
          mcg'[i] = Current(mcg)' \/ \E j \in DOMAIN mcg : mcg'[i] = mcg[j]
    BY <1>a, CRStepLog
  <1>d. NoMCG.uid = 0
    BY MCGVersions
  <1>1. Finalized'
    BY <1>b, <1>d DEF Finalized
  \* A version whose ManagedMCG is gone now was in deletion.
  <1>2. ASSUME NEW w \in MCGVersion,
               w.uid \notin {0, Current(mcg).uid} => w.del,
               Released => (w.uid = Current(mcg).uid => w.del)
        PROVE  w.uid \notin {0, Current(mcg)'.uid} => w.del
    <2>1. Brought => Current(mcg).uid = 0
      BY DEF Brought
    <2> QED
      BY <1>2, <1>b, <1>d, <2>1
  <1>3. ASSUME NEW j \in DOMAIN mcg
        PROVE  mcg[j].uid \notin {0, Current(mcg)'.uid} => mcg[j].del
    <2>1. Released => (mcg[j].uid = Current(mcg).uid => mcg[j].del)
      BY DEF Released, CopyInv, DeletionSticks
    <2>2. mcg[j].uid \notin {0, Current(mcg).uid} => mcg[j].del
      BY DEF Superseded
    <2> QED
      BY <1>2, <1>a, <2>1, <2>2
  <1>4. \A i \in DOMAIN mcg' : mcg'[i].uid \notin {0, Current(mcg)'.uid} => mcg'[i].del
    BY <1>c, <1>3
  <1>5. r.managedMCG.uid \notin {0, Current(mcg)'.uid} => r.managedMCG.del
    <2>1. Released => r.managedMCG.del
      BY DEF Released
    <2>2. r.managedMCG.uid \notin {0, Current(mcg).uid} => r.managedMCG.del
      BY DEF Superseded
    <2> QED
      BY <1>2, <1>a, <2>1, <2>2
  <1>6. r'.managedMCG.uid \notin {0, Current(mcg)'.uid} => r'.managedMCG.del
    BY <1>a, <1>3, <1>5, <1>d DEF CopyStep
  <1> QED
    BY <1>1, <1>4, <1>6 DEF Superseded

\* A ManagedMCG found absent stays absent until the process starts again.
LEMMA GoneStep ==
  ASSUME NoTampering, CopyInv, Finalized, Gone, Next
  PROVE  Gone'
  <1>a. /\ CRStep /\ TypeOK /\ Current(mcg) \in MCGVersion
        /\ mcg \in Log(MCGVersion)
        /\ Cached(mcg) = mcg[1] /\ 1 \in DOMAIN mcg
        /\ r \in Reconciler
    BY CRSteps, ReadTypes, LogElements DEF CopyInv, TypeOK, Cached
  <1>b. /\ \/ Current(mcg)' = Current(mcg)
           \/ Current(mcg)'.uid = Current(mcg).uid
           \/ Released /\ Current(mcg)' = NoMCG
           \/ pc \in Stopped /\ pc' \in Stopped
        /\ \A i \in DOMAIN mcg' :
             mcg'[i] = Current(mcg)' \/ \E j \in DOMAIN mcg : mcg'[i] = mcg[j]
    BY <1>a, CRStepLog DEF Brought
  <1>c. NoMCG.uid = 0
    BY MCGVersions
  <1>d. Running /\ Running' /\ Current(mcg).uid = 0 => Current(mcg)'.uid = 0
    BY <1>b, <1>c DEF Running
  <1>e. pc \in Critical => Running
    BY CriticalApart DEF Running
  <1>1. CASE StartManager
    <2>1. pc' = "idle" /\ DOMAIN mcg' = {1} /\ mcg'[1] = Current(mcg)
          /\ Current(mcg)' = Current(mcg)
      BY <1>1, <1>a, RelistLog DEF StartManager
    <2> QED
      BY <2>1 DEF Gone, Running
  <1>2. ASSUME Running \/ ~Running'
        PROVE  Running' => \A i \in DOMAIN mcg' : mcg'[i].uid = 0 => Current(mcg)'.uid = 0
    <2> SUFFICES ASSUME Running', NEW i \in DOMAIN mcg', mcg'[i].uid = 0
                 PROVE  Current(mcg)'.uid = 0
      OBVIOUS
    <2>1. CASE mcg'[i] = Current(mcg)'
      BY <2>1
    <2>2. ASSUME NEW j \in DOMAIN mcg, mcg'[i] = mcg[j] PROVE Current(mcg)'.uid = 0
      BY <1>2, <1>d, <2>2 DEF Gone
    <2> QED
      BY <1>b, <2>1, <2>2
  <1>3. CASE Reconcile
    <2>1. pc = "idle" /\ mcg' = mcg /\ Running
      BY <1>3, Apart DEF Reconcile, cr, Running
    <2>2. \/ pc' = pc
          \/ pc' = "reconcilePhases" /\ r'.managedMCG = mcg[1]
      BY <1>3, <1>a DEF Reconcile, Goto, process, InitializedReconciler
    <2>3. pc' = "reconcilePhases" /\ r'.managedMCG.uid = 0 => Current(mcg)'.uid = 0
      BY <1>a, <2>1, <2>2 DEF Gone, Current
    <2> QED
      BY <1>2, <2>1, <2>2, <2>3 DEF Gone
  <1>4. CASE ReconcilePhases
    <2>1. /\ mcg' = mcg /\ pc = "reconcilePhases" /\ pc' # "reconcilePhases"
          /\ r'.managedMCG.uid = r.managedMCG.uid
          /\ pc' = "removeOLMComponents" => r.managedMCG.uid = 0
      BY <1>4, <1>a, ObserveGateway
    <2>2. Running
      BY <1>e, <2>1 DEF Critical
    <2> QED
      BY <1>2, <2>1, <2>2 DEF Gone, Current
  <1>5. CASE pc' = pc /\ r'.managedMCG = r.managedMCG
    BY <1>2, <1>5, <1>d, <1>e DEF Gone, Running, Critical
  <1>6. CASE pc' \notin Critical /\ (pc \in Stopped => pc' \in Stopped)
    BY <1>2, <1>6 DEF Gone, Running, Critical
  <1> QED
    BY <1>a, <1>1, <1>3, <1>4, <1>5, <1>6, PhaseMoves

\* What a step may do to a NooBaa that was seen.
LEMMA GatewayStep ==
  ASSUME TypeOK, Next
  PROVE  \/ Current(noobaa)'.exists /\ witnessed' => Current(noobaa).exists /\ witnessed
         \/ /\ ReconcilePhases /\ UNCHANGED <<mcg, noobaa, key, csv>>
            /\ witnessed' /\ Current(mcg).uid # 0
  <1>a. noobaa \in Log(NooBaaVersion) /\ witnessed \in BOOLEAN
    BY DEF TypeOK
  <1>1. CASE ReconcilePhases
    <2>1. noobaa' = noobaa /\ Current(noobaa)' = Current(noobaa)
      BY <1>1, ObserveGateway DEF Current
    <2> QED
      BY <1>1, <1>a, <2>1, ObserveGateway
  <1>2. CASE noobaa' = noobaa /\ witnessed' = witnessed
    BY <1>2 DEF Current
  <1>3. CASE NooBaaStep
    BY <1>3, <1>a, WriteLog, DeliverLog DEF NooBaaStep
  <1>4. CASE StartManager
    BY <1>4, <1>a, RelistLog DEF StartManager
  <1> QED
    BY <1>1, <1>2, <1>3, <1>4, StepTouches DEF Touches

\* A NooBaa that was seen is not left without a ManagedMCG.
LEMMA ServedStep ==
  ASSUME NoTampering, GatewayInv, Finalized, Served, Next
  PROVE  Served'
  <1>a. CRStep /\ TypeOK /\ CopyInv /\ StrandedOnlyUnseen
    BY CRSteps DEF GatewayInv, CopyInv
  <1>1. CASE ReconcilePhases /\ Current(mcg).uid # 0
    <2>1. Current(mcg)' = Current(mcg)
      BY <1>1, <1>a, ObserveGateway DEF Current
    <2> QED
      BY <1>1, <2>1 DEF Served
  <1>2. CASE Current(noobaa)'.exists /\ witnessed' => Current(noobaa).exists /\ witnessed
    <2>1. Current(mcg)'.uid = 0 => Current(mcg).uid = 0 \/ Released
      <3>1. uids \in Nat
        BY <1>a DEF TypeOK
      <3>2. Brought => Current(mcg).uid = 0
        BY DEF Brought
      <3> QED
        BY <1>a, <3>1, <3>2, CRStepLog
    <2>2. Released => ~Current(noobaa).exists \/ ~witnessed
      BY <1>a DEF Released, StrandedOnlyUnseen
    <2> QED
      BY <1>2, <2>1, <2>2 DEF Served
  <1> QED
    BY <1>a, <1>1, <1>2, GatewayStep

\* The deletion key is never taken away again.
LEMMA AskedStep ==
  ASSUME TypeOK, Asked, Next
  PROVE  Asked' /\ (Current(key)' = Current(key) \/ (Current(key)' /\ KeyStep))
  <1>a. /\ key \in Log(BOOLEAN) /\ Current(key) \in BOOLEAN /\ TRUE \in BOOLEAN
        /\ Cached(key) = key[1] /\ 1 \in DOMAIN key
        /\ Current(key) = key[Len(key)] /\ Len(key) \in DOMAIN key
    BY LogElements DEF TypeOK, Cached, Current
  <1>1. /\ Current(key) => Current(key)'
        /\ \A i \in DOMAIN key' : key'[i] => Current(key)'
        /\ Current(key)' = Current(key) \/ (Current(key)' /\ KeyStep)
    <2>1. CASE key' = key
      BY <2>1 DEF Asked, Current
    <2>2. CASE key' = Write(key, TRUE)
      <3>1. Current(key)' = TRUE
        BY <1>a, <2>2, WriteLog
      <3> QED
        BY <2>2, <3>1 DEF KeyStep
    <2>3. CASE key' = Deliver(key) /\ Lagging(key)
      <3>1. Current(key)' = Current(key)
            /\ \A i \in DOMAIN key' : i + 1 \in DOMAIN key /\ key'[i] = key[i + 1]
        BY <1>a, <2>3, DeliverLog
      <3> QED
        BY <3>1 DEF Asked
    <2>4. CASE key' = Relist(key)
      <3>1. Current(key)' = Current(key) /\ DOMAIN key' = {1} /\ key'[1] = Current(key)
        BY <1>a, <2>4, RelistLog
      <3> QED
        BY <3>1
    <2>5. ReconcilePhases => key' = key
      BY ObserveGateway
    <2>6. StartManager => key' = Relist(key)
      BY DEF StartManager
    <2> QED
      BY <2>1, <2>2, <2>3, <2>4, <2>5, <2>6, StepTouches DEF Touches, KeyStep
  <1>2. pc' = "removeOLMComponents" => Current(key)'
    <2>1. Reconcile \/ StartManager => pc' # "removeOLMComponents"
      BY DEF Reconcile, StartManager, Goto, process
    <2>2. CASE ReconcilePhases
      BY <2>2, <1>a, <1>1, ObserveGateway DEF Asked
    <2>3. CASE pc' = pc
      BY <2>3, <1>1 DEF Asked
    <2> QED
      BY <2>1, <2>2, <2>3, PhaseMoves DEF Critical
  <1> QED
    BY <1>1, <1>2 DEF Asked

\* All that a step relies on while nobody goes behind the finalizer.
LifeInv == GatewayInv /\ Finalized /\ Superseded /\ Gone /\ Served /\ Asked

\* It holds at the start and every step keeps it.
LEMMA LifeInvariant ==
  ASSUME NoTampering
  PROVE  Spec => []LifeInv
  <1>1. Init => LifeInv
    <2> SUFFICES ASSUME Init PROVE LifeInv
      OBVIOUS
    <2>1. CopyInv /\ ~witnessed /\ pc = "down" /\ r.managedMCG = NoMCG
      BY CopyInvInit DEF Init, InitializedReconciler
    <2>2. GatewayInv
      BY <2>1 DEF GatewayInv, Seen, StrandedOnlyUnseen
    <2>3. Current(mcg) = NoMCG /\ DOMAIN mcg = {1} /\ mcg[1] = NoMCG /\ NoMCG.uid = 0
      BY SyncedLog, MCGVersions DEF Init
    <2>4. DOMAIN key = {1} /\ key[1] = Current(key)
      BY SyncedLog DEF Init
    <2> QED
      BY <2>1, <2>2, <2>3, <2>4
         DEF LifeInv, Finalized, Superseded, Gone, Served, Asked, Running, Stopped
  <1>2. LifeInv /\ [Next]_vars => LifeInv'
    <2> SUFFICES ASSUME LifeInv, [Next]_vars PROVE LifeInv'
      OBVIOUS
    <2>1. CASE Next
      <3>1. GatewayInv'
        BY <2>1, CopyInvStep, SeenStep DEF LifeInv, GatewayInv, CopyInv
      <3>2. TypeOK /\ TypeOK' /\ CopyInv
        BY <3>1 DEF LifeInv, GatewayInv, CopyInv
      <3> QED
        BY <2>1, <3>1, <3>2, FinalizerStep, GoneStep, ServedStep, AskedStep DEF LifeInv
    <2>2. CASE UNCHANGED vars
      <3>1. GatewayInv'
        BY <2>2, CopyInvStep
           DEF vars, nb, process, LifeInv, GatewayInv, Seen, StrandedOnlyUnseen, Current
      <3> QED
        BY <2>2, <3>1 DEF vars, cr, nb, addon, process, LifeInv, Finalized, Superseded, Gone,
                          Served, Asked, Current, Running
    <2> QED
      BY <2>1, <2>2
  <1> QED
    BY <1>1, <1>2, PTL DEF Spec

\* A pass that installs works for the ManagedMCG that is at the server: it was
\* read active, so that it cannot be gone, because the only pass that releases
\* a ManagedMCG has read it in deletion before.  Hence NooBaa is not created
\* again after its removal, nor the successor of a ManagedMCG deleted by name.
THEOREM ActivePassSafe ==
  ASSUME NoTampering
  PROVE  Spec => []ActivePassHasItsCR
  <1>1. LifeInv => ActivePassHasItsCR
    BY DEF LifeInv, GatewayInv, CopyInv, Decided, Superseded, ActivePassHasItsCR
  <1> QED
    BY <1>1, LifeInvariant, PTL

\* removeOLMComponents runs when there is neither a ManagedMCG nor a NooBaa
\* left that was ever seen to serve one.
THEOREM CSVSafe ==
  ASSUME NoTampering
  PROVE  Spec => []CSVDeletedLast
  <1>1. LifeInv => CSVDeletedLast
    BY DEF LifeInv, Gone, Served, CSVDeletedLast
  <1> QED
    BY <1>1, LifeInvariant, PTL
-----------------------------------------------------------------------------
\* The refinement.

\* What the abstract add-on sees of a state.
Gateway == Current(noobaa).exists /\ witnessed

\* A fresh installation is one of the abstract add-on.
LEMMA AddonInit == Init => Life!Init
  <1> SUFFICES ASSUME Init PROVE Life!Init
    OBVIOUS
  <1>1. Current(mcg).uid = 0 /\ ~witnessed /\ csv = TRUE
    BY SyncedLog, MCGVersions DEF Init
  <1>2. Current(noobaa).exists \in BOOLEAN /\ Current(key) \in BOOLEAN
    <2>1. Current(noobaa) = NoNooBaa /\ NoNooBaa.exists \in BOOLEAN
      BY SyncedLog, NooBaaVersions DEF Init, NoNooBaa
    <2> QED
      BY <2>1, SyncedLog DEF Init
  <1> QED
    BY <1>1, <1>2 DEF Life!Init, LifePhase

\* A step of the ManagedMCG: activation, a request to delete it, its release
\* after the gateway, or nothing.
LEMMA PhaseRefines ==
  ASSUME LifeInv, CRStep, UNCHANGED <<noobaa, witnessed, key, csv>>
  PROVE  [Life!Next]_(Life!vars)
  <1> USE DEF LifePhase
  <1>a. /\ TypeOK /\ uids \in Nat /\ Current(mcg) \in MCGVersion /\ StrandedOnlyUnseen
        /\ (Current(mcg).del => Current(mcg).uid # 0) /\ NoMCG.uid = 0
        /\ Current(mcg).del \in BOOLEAN
    BY ReadTypes, MCGVersions DEF LifeInv, GatewayInv, CopyInv, TypeOK
  <1>b. /\ Gateway' = Gateway /\ Current(key)' = Current(key) /\ csv' = csv
    BY DEF Gateway, Current
  <1>1. CASE LifePhase' = LifePhase
    BY <1>b, <1>1 DEF Life!vars, Gateway
  <1>2. CASE Amended /\ Current(mcg)'.uid = Current(mcg).uid
             /\ (Current(mcg).del => Current(mcg)'.del)
    <2>1. LifePhase' = LifePhase \/ (LifePhase = "active" /\ LifePhase' = "deleting")
      BY <1>2
    <2> QED
      BY <1>1, <1>b, <2>1 DEF Life!Next, Life!RequestDeletion, Gateway
  <1>3. CASE Released /\ Current(mcg)' = NoMCG
    <2>1. LifePhase = "deleting" /\ LifePhase' = "absent" /\ ~Gateway
      BY <1>3, <1>a DEF Released, StrandedOnlyUnseen, Gateway
    <2> QED
      BY <1>b, <2>1 DEF Life!Next, Life!Release, Gateway
  <1>4. CASE Brought /\ Current(mcg)'.uid = uids + 1 /\ ~Current(mcg)'.del
    <2>1. LifePhase = "absent" /\ LifePhase' = "active"
      BY <1>4, <1>a DEF Brought
    <2> QED
      BY <1>b, <2>1 DEF Life!Next, Life!Activate, Gateway
  <1>5. Current(mcg)' = Current(mcg) => LifePhase' = LifePhase
    OBVIOUS
  <1> QED
    BY <1>a, <1>1, <1>2, <1>3, <1>4, <1>5, CRStepLog

\* Every step is a step of the abstract add-on or none.
LEMMA AddonStep ==
  ASSUME NoTampering, LifeInv, Next
  PROVE  [Life!Next]_(Life!vars)
  <1>a. /\ TypeOK /\ GatewayInv /\ CopyInv /\ CRStep /\ Finalized /\ Asked
        /\ csv \in BOOLEAN /\ witnessed \in BOOLEAN /\ Current(noobaa).exists \in BOOLEAN
    BY CRSteps, ReadTypes, NooBaaVersions DEF LifeInv, GatewayInv, CopyInv, TypeOK
  <1>b. Gateway \in BOOLEAN
    BY <1>a DEF Gateway
  <1>1. CASE UNCHANGED <<noobaa, witnessed, key, csv>>
    BY <1>1, <1>a, PhaseRefines
  <1>2. CASE ReconcilePhases
    <2>1. UNCHANGED <<mcg, noobaa, key, csv>> /\ pc = "reconcilePhases"
          /\ (witnessed' # witnessed => witnessed' /\ Current(mcg).uid # 0)
      BY <1>2, <1>a, ObserveGateway
    <2>2. LifePhase' = LifePhase /\ Current(key)' = Current(key) /\ csv' = csv
      BY <2>1 DEF LifePhase, Current
    <2>3. Current(noobaa)' = Current(noobaa)
      BY <2>1 DEF Current
    <2>4. \/ Gateway' = Gateway
          \/ ~Gateway /\ Gateway' = TRUE /\ LifePhase # "absent"
      BY <1>a, <2>1, <2>3 DEF Gateway, LifePhase
    <2>5. Gateway' = Gateway => UNCHANGED Life!vars
      BY <2>2 DEF Life!vars, Gateway
    <2>6. ~Gateway /\ Gateway' = TRUE /\ LifePhase # "absent" => Life!Serve
      BY <2>2 DEF Life!Serve, Gateway
    <2> QED
      BY <2>4, <2>5, <2>6 DEF Life!Next
  <1>3. CASE NooBaaStep /\ UNCHANGED <<mcg, key, csv>>
    <2>1. LifePhase' = LifePhase /\ Current(key)' = Current(key) /\ csv' = csv
      BY <1>3 DEF LifePhase, Current
    <2>2. Gateway' = Gateway \/ (Gateway /\ Gateway' = FALSE)
      <3>1. noobaa \in Log(NooBaaVersion)
        BY <1>a DEF TypeOK
      <3>2. \/ Current(noobaa)' = Current(noobaa) /\ witnessed' = witnessed
            \/ ~(Current(noobaa)'.exists /\ witnessed')
            \/ Current(noobaa).exists /\ witnessed' = witnessed
        BY <1>3, <3>1, WriteLog, DeliverLog DEF NooBaaStep
      <3>3. CASE Current(noobaa)' = Current(noobaa) /\ witnessed' = witnessed
        BY <3>3 DEF Gateway
      <3>4. CASE ~(Current(noobaa)'.exists /\ witnessed')
        BY <3>4, <1>b DEF Gateway
      <3>5. CASE Current(noobaa).exists /\ witnessed' = witnessed
                 /\ Current(noobaa)'.exists /\ witnessed'
        BY <3>5 DEF Gateway
      <3> QED
        BY <3>2, <3>3, <3>4, <3>5
    <2>3. Gateway' = Gateway => UNCHANGED Life!vars
      BY <2>1 DEF Life!vars, Gateway
    <2>4. Gateway /\ Gateway' = FALSE => Life!Retire
      BY <2>1 DEF Life!Retire, Gateway
    <2> QED
      BY <2>2, <2>3, <2>4 DEF Life!Next
  <1>4. CASE KeyStep /\ UNCHANGED <<mcg, noobaa, witnessed, csv>>
    <2>1. LifePhase' = LifePhase /\ Gateway' = Gateway /\ csv' = csv
      BY <1>4 DEF LifePhase, Gateway, Current
    <2>2. Current(key) \in BOOLEAN /\ Current(key)' \in BOOLEAN
      <3>1. key \in Log(BOOLEAN) /\ TRUE \in BOOLEAN
        BY <1>a DEF TypeOK
      <3> QED
        BY <1>4, <3>1, WriteLog, DeliverLog, LogElements DEF KeyStep
    <2>3. Current(key)' = Current(key) \/ (~Current(key) /\ Current(key)' = TRUE)
      BY <1>a, <2>2, AskedStep
    <2>4. Current(key)' = Current(key) => UNCHANGED Life!vars
      BY <2>1 DEF Life!vars, Gateway
    <2>5. ~Current(key) /\ Current(key)' = TRUE => Life!RequestUninstallation
      BY <2>1 DEF Life!RequestUninstallation, Gateway
    <2> QED
      BY <2>3, <2>4, <2>5 DEF Life!Next
  <1>5. CASE pc = "removeOLMComponents" /\ ~csv' /\ UNCHANGED <<mcg, noobaa, witnessed, key>>
    <2>1. LifePhase' = LifePhase /\ Gateway' = Gateway /\ Current(key)' = Current(key)
      BY <1>5 DEF LifePhase, Gateway, Current
    <2>2. LifePhase = "absent" /\ ~Gateway /\ Current(key)
      BY <1>5 DEF LifeInv, Gone, Served, Asked, LifePhase, Gateway
    <2>3. csv' \in BOOLEAN
      <3>1. TypeOK'
        BY <1>a, CopyInvStep DEF CopyInv
      <3> QED
        BY <3>1 DEF TypeOK
    <2>4. csv' = csv \/ (csv /\ csv' = FALSE)
      BY <1>5, <1>a, <2>3
    <2>5. csv' = csv => UNCHANGED Life!vars
      BY <2>1 DEF Life!vars, Gateway
    <2>6. csv /\ csv' = FALSE => Life!Uninstall
      BY <2>1, <2>2 DEF Life!Uninstall, Gateway
    <2> QED
      BY <2>4, <2>5, <2>6 DEF Life!Next
  <1>6. CASE StartManager
    <2>1. /\ Current(mcg)' = Current(mcg) /\ Current(noobaa)' = Current(noobaa)
          /\ Current(key)' = Current(key) /\ witnessed' = witnessed /\ csv' = csv
      BY <1>6, <1>a, RelistLog DEF StartManager, TypeOK
    <2> QED
      BY <2>1 DEF Life!vars, LifePhase
  <1> QED
    BY <1>a, <1>1, <1>2, <1>3, <1>4, <1>5, <1>6, StepTouches DEF Touches

\* The operator implements the abstract add-on, whatever fails, crashes or
\* lags, for any number of adverse events, as long as nobody goes behind the
\* finalizer: no deletion is taken back, the finalizer goes after NooBaa, no
\* NooBaa serves without a ManagedMCG, and the CSV goes last and on request.
THEOREM Refinement ==
  ASSUME NoTampering
  PROVE  Spec => ImplementsAddon
  <1>1. LifeInv /\ [Next]_vars => [Life!Next]_(Life!vars)
    <2> SUFFICES ASSUME LifeInv, [Next]_vars PROVE [Life!Next]_(Life!vars)
      OBVIOUS
    <2>1. CASE Next
      BY <2>1, AddonStep
    <2>2. CASE UNCHANGED vars
      BY <2>2 DEF vars, cr, nb, addon, Life!vars, LifePhase, Current
    <2> QED
      BY <2>1, <2>2
  <1> QED
    BY <1>1, AddonInit, LifeInvariant, PTL DEF Spec, ImplementsAddon, Life!Spec
=============================================================================
