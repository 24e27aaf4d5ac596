-------------------------- MODULE ManagedMCG_proofs --------------------------
(***************************************************************************)
(* Proofs about ManagedMCG, for every set of components and objects, every *)
(* set of hazards and every number of them.                                *)
(***************************************************************************)
EXTENDS ManagedMCG, Informer_proofs

-----------------------------------------------------------------------------
\* Versions: deletes, dropped finalizers and new fields give versions again.
LEMMA MCGVersions ==
  /\ NoMCG \in MCGVersion /\ NoMCG.uid = 0 /\ ~NoMCG.del
  /\ \A v \in MCGVersion :
       /\ v.uid \in Nat /\ v.fin \in BOOLEAN /\ v.del \in BOOLEAN
       /\ Deleted(v, NoMCG) \in MCGVersion
       /\ Unfinalized(v, NoMCG) \in MCGVersion
       /\ v.del => v.uid # 0
       /\ v.uid # 0 => \A st \in {"none", "ready", "notReady"} :
            [v EXCEPT !.status = st] \in MCGVersion
       /\ v.uid # 0 => [v EXCEPT !.fin = TRUE] \in MCGVersion
  /\ \A u \in Nat : u # 0 =>
       NewMCG(u) \in MCGVersion /\ [NoMCG EXCEPT !.uid = u] \in MCGVersion
  <1>1. NoMCG \in MCGVersion /\ NoMCG.uid = 0 /\ ~NoMCG.del
    BY DEF NoMCG, MCGVersion
  <1>2. ASSUME NEW v \in MCGVersion
        PROVE  /\ v.uid \in Nat /\ v.fin \in BOOLEAN /\ v.del \in BOOLEAN
               /\ v.del => v.uid # 0
               /\ [v EXCEPT !.del = TRUE] \in MCGVersion \/ ~v.fin
               /\ [v EXCEPT !.fin = FALSE] \in MCGVersion \/ v.del
               /\ v.uid # 0 => \A st \in {"none", "ready", "notReady"} :
                    [v EXCEPT !.status = st] \in MCGVersion
               /\ v.uid # 0 => [v EXCEPT !.fin = TRUE] \in MCGVersion
    BY DEF MCGVersion
  <1>3. ASSUME NEW u \in Nat, u # 0
        PROVE  NewMCG(u) \in MCGVersion /\ [NoMCG EXCEPT !.uid = u] \in MCGVersion
    BY <1>3 DEF NewMCG, NoMCG, MCGVersion
  <1> QED
    BY <1>1, <1>2, <1>3 DEF Deleted, Unfinalized

\* The same for NooBaa.
LEMMA NooBaaVersions ==
  /\ NoNooBaa \in NooBaaVersion /\ ~NoNooBaa.exists
  /\ \A v \in NooBaaVersion :
       /\ v.exists \in BOOLEAN
       /\ Deleted(v, NoNooBaa) \in NooBaaVersion
       /\ Unfinalized(v, NoNooBaa) \in NooBaaVersion
       /\ v.exists => /\ [v EXCEPT !.fin = TRUE] \in NooBaaVersion
                      /\ \A b \in BOOLEAN :
                           /\ [v EXCEPT !.ready = b] \in NooBaaVersion
                           /\ [v EXCEPT !.drift = b] \in NooBaaVersion
  /\ [NoNooBaa EXCEPT !.exists = TRUE] \in NooBaaVersion
  <1>1. NoNooBaa \in NooBaaVersion /\ ~NoNooBaa.exists
        /\ [NoNooBaa EXCEPT !.exists = TRUE] \in NooBaaVersion
    BY DEF NoNooBaa, NooBaaVersion
  <1>2. ASSUME NEW v \in NooBaaVersion
        PROVE  /\ v.exists \in BOOLEAN
               /\ [v EXCEPT !.del = TRUE] \in NooBaaVersion \/ ~v.fin
               /\ [v EXCEPT !.fin = FALSE] \in NooBaaVersion \/ v.del
               /\ v.exists => /\ [v EXCEPT !.fin = TRUE] \in NooBaaVersion
                              /\ \A b \in BOOLEAN :
                                   /\ [v EXCEPT !.ready = b] \in NooBaaVersion
                                   /\ [v EXCEPT !.drift = b] \in NooBaaVersion
    BY DEF NooBaaVersion
  <1> QED
    BY <1>1, <1>2 DEF Deleted, Unfinalized
-----------------------------------------------------------------------------
\* The inductive invariant.

\* The conditions of reconcilePhases under which the steps of a pass are
\* reached still hold of the pass's copy.
Decided ==
  /\ pc \in Stopped => ~r.fresh
  /\ pc \in ActivePass => r.managedMCG.uid # 0 /\ ~r.managedMCG.del
  /\ pc \in Teardown => r.managedMCG.del

\* A copy with the server's resourceVersion is the server's object.
FreshCopy ==
  r.fresh => /\ r.managedMCG.uid = Current(mcg).uid
             /\ r.managedMCG.fin = Current(mcg).fin
             /\ r.managedMCG.del = Current(mcg).del

\* The initial states have their types.
LEMMA InitType == Init => TypeOK
  <1> SUFFICES ASSUME Init PROVE TypeOK
    OBVIOUS
  <1>1. mcg \in Log(MCGVersion) /\ noobaa \in Log(NooBaaVersion)
    BY SyncedLog, MCGVersions, NooBaaVersions DEF Init
  <1>2. key \in Log(BOOLEAN)
    BY SyncedLog DEF Init
  <1>3. objs \in [Kind -> Log(SUBSET Obj)]
    <2>1. Synced({}) \in Log(SUBSET Obj) /\ Synced(Obj) \in Log(SUBSET Obj)
      BY SyncedLog
    <2> QED
      BY <2>1 DEF Init
  <1>4. r \in Reconciler
    BY MCGVersions DEF Init, InitializedReconciler, Reconciler
  <1>5. pc \in Pc /\ queue \in BOOLEAN /\ csv \in BOOLEAN /\ witnessed \in BOOLEAN
        /\ uids \in Nat /\ budget \in Nat
    BY HazardAssumption DEF Init, Pc, Stopped
  <1>6. deleting \in [Kind -> SUBSET Obj] /\ owed \in [Store -> SUBSET Obj]
        /\ comp \in [Component -> State] /\ blocked \in SUBSET Blockable
    BY DEF Init, State
  <1> QED
    BY <1>1, <1>2, <1>3, <1>4, <1>5, <1>6 DEF TypeOK

\* The types of what a step reads.
LEMMA ReadTypes ==
  ASSUME TypeOK
  PROVE  /\ Current(mcg) \in MCGVersion /\ Cached(mcg) \in MCGVersion
         /\ Current(noobaa) \in NooBaaVersion /\ Cached(noobaa) \in NooBaaVersion
         /\ Current(key) \in BOOLEAN /\ Cached(key) \in BOOLEAN
         /\ \A k \in Kind : Current(objs[k]) \in SUBSET Obj /\ Cached(objs[k]) \in SUBSET Obj
         /\ r.managedMCG \in MCGVersion
  BY LogElements DEF TypeOK, Reconciler

\* What a pass carries along keeps its type when a field is replaced.
LEMMA ReconcilerTypes ==
  /\ InitializedReconciler \in Reconciler
  /\ \A rr \in Reconciler :
       /\ Failed(rr) \in Reconciler
       /\ \A b \in BOOLEAN : /\ [rr EXCEPT !.fresh = b] \in Reconciler
                             /\ [rr EXCEPT !.noobaaFresh = b] \in Reconciler
       /\ \A S \in SUBSET Obj : [rr EXCEPT !.todo = S] \in Reconciler
       /\ \A v \in MCGVersion : [rr EXCEPT !.managedMCG = v] \in Reconciler
       /\ \A v \in MCGVersion, b \in BOOLEAN :
            [rr EXCEPT !.managedMCG = v, !.fresh = b] \in Reconciler
  BY MCGVersions DEF InitializedReconciler, Reconciler, Failed
-----------------------------------------------------------------------------
\* Type correctness.

\* A step of a pass that goes on, ends or loses its reply keeps the types of
\* the process and of the budget.
LEMMA ReplyType ==
  ASSUME budget \in Nat, NEW step \in Pc, NEW rr \in Reconciler, NEW lost \in Reconciler,
         Reply(step, rr, lost)
  PROVE  pc' \in Pc /\ r' \in Reconciler /\ budget' \in Nat
  <1>1. "finish" \in Pc /\ Failed(lost) \in Reconciler
    BY ReconcilerTypes DEF Pc
  <1> QED
    BY <1>1 DEF Reply, Goto, Spend

\* An adverse event leaves a natural number of them.
LEMMA SpendType ==
  ASSUME budget \in Nat, NEW h, Spend(h)
  PROVE  budget' \in Nat
  BY DEF Spend

\* A refused call keeps the types of the process.
LEMMA RefusedType ==
  ASSUME TypeOK, Refused
  PROVE  pc' \in Pc /\ r' \in Reconciler /\ budget' \in Nat
  BY ReconcilerTypes DEF TypeOK, Refused, Goto, Pc

\* Every step of a pass keeps the types.
LEMMA PassType == TypeOK /\ Decided /\ FreshCopy /\ Pass => TypeOK'
  <1> SUFFICES ASSUME TypeOK, Decided, FreshCopy, Pass PROVE TypeOK'
    OBVIOUS
  <1> USE DEF cr, nb, stores, addon, process
  <1>a. r \in Reconciler /\ r.managedMCG \in MCGVersion /\ budget \in Nat
    BY ReadTypes DEF TypeOK
  <1>1. CASE Reconcile
    <2>1. Cached(mcg) \in MCGVersion /\ (~Lagging(mcg)) \in BOOLEAN
      BY ReadTypes DEF Lagging
    <2>2. r' \in Reconciler /\ pc' \in Pc /\ budget' \in Nat /\ queue' \in BOOLEAN
      BY <1>1, <1>a, <2>1, ReconcilerTypes, SpendType DEF Reconcile, Goto, Pc, TypeOK
    <2> QED
      BY <1>1, <2>2 DEF Reconcile, TypeOK
  <1>2. CASE ReconcilePhases
    <2>1. ASSUME NEW found, NEW state, NEW status \in {"ready", "notReady"},
                 found \in BOOLEAN, Observe(found, state, status)
          PROVE  r' \in Reconciler /\ pc' \in Pc /\ witnessed' \in BOOLEAN
      <3>1. r' \in Reconciler
        <4>1. [r.managedMCG EXCEPT !.status =
                 IF r.managedMCG.uid = 0 THEN "none" ELSE status] \in MCGVersion
          BY <1>a, <2>1 DEF MCGVersion
        <4> QED
          BY <1>a, <2>1, <4>1 DEF Observe, Goto, Reconciler
      <3>2. pc' \in Pc
        BY <1>a, <2>1, MCGVersions
           DEF Observe, Goto, Phase, TeardownPhase, ActivePhase, Pc, ActivePass, Teardown, Kind
      <3>3. witnessed' \in BOOLEAN
        BY <2>1 DEF Observe, TypeOK
      <3> QED
        BY <3>1, <3>2, <3>3
    <2>2. FoundAddonDeletionKey \in BOOLEAN /\ ReadyStatus(NooBaaState) \in {"ready", "notReady"}
      BY ReadTypes DEF ReadyStatus, FoundAddonDeletionKey
    <2>3. r' \in Reconciler /\ pc' \in Pc /\ witnessed' \in BOOLEAN /\ budget' \in Nat
      BY <1>2, <1>a, <2>1, <2>2, SpendType DEF ReconcilePhases
    <2> QED
      BY <1>2, <2>3 DEF ReconcilePhases, TypeOK
  <1>3. CASE AddManagedMCG
    <2>1. CASE ~r.fresh
      BY <1>3, <2>1, RefusedType DEF AddManagedMCG, TypeOK
    <2>2. CASE r.fresh
      <3> DEFINE v == [Current(mcg) EXCEPT !.fin = TRUE]
                 st == IF v.status = "none" THEN r.managedMCG.status ELSE v.status
      <3>1. v \in MCGVersion /\ v.uid # 0 /\ st \in {"none", "ready", "notReady"}
        BY <1>3, <2>2, <1>a, ReadTypes DEF AddManagedMCG, FreshCopy, Decided, ActivePass, MCGVersion
      <3>2. [v EXCEPT !.status = st] \in MCGVersion
        BY <3>1, MCGVersions
      <3>3. mcg' \in Log(MCGVersion)
        BY <1>3, <2>2, <3>1, WriteLog DEF AddManagedMCG, TypeOK
      <3>4. pc' \in Pc /\ r' \in Reconciler /\ budget' \in Nat
        <4>1. Reply("updateAddonParams", [r EXCEPT !.managedMCG = [v EXCEPT !.status = st]],
                    [r EXCEPT !.fresh = FALSE])
          BY <1>3, <2>2 DEF AddManagedMCG
        <4>2. /\ [r EXCEPT !.managedMCG = [v EXCEPT !.status = st]] \in Reconciler
              /\ [r EXCEPT !.fresh = FALSE] \in Reconciler
          BY <1>a, <3>2, ReconcilerTypes
        <4>3. "updateAddonParams" \in Pc
          BY DEF Pc, ActivePass
        <4> HIDE DEF v, st
        <4> QED
          BY <4>1, <4>2, <4>3, <1>a, ReplyType
      <3> QED
        BY <1>3, <3>3, <3>4 DEF AddManagedMCG, TypeOK
    <2> QED
      BY <2>1, <2>2, <1>a DEF Reconciler
  <1>4. CASE UpdateAddonParams
    <2>1. pc' \in Pc /\ r' \in Reconciler /\ budget' \in Nat
      BY <1>4, <1>a, RefusedType DEF UpdateAddonParams, Goto, Pc, ActivePass
    <2> QED
      BY <1>4, <2>1 DEF UpdateAddonParams, TypeOK
  <1>5. CASE ReconcileNoobaa
    <2>1. "reconcileRest" \in Pc
      BY DEF Pc, ActivePass
    <2>2. pc' \in Pc /\ r' \in Reconciler /\ budget' \in Nat
      BY <1>5, <1>a, <2>1, RefusedType, ReplyType DEF ReconcileNoobaa, Goto
    <2>3. noobaa' \in Log(NooBaaVersion) /\ witnessed' \in BOOLEAN
      <3>1. /\ Write(noobaa, [NoNooBaa EXCEPT !.exists = TRUE]) \in Log(NooBaaVersion)
            /\ Cached(noobaa).exists =>
                 Write(noobaa, [Cached(noobaa) EXCEPT !.drift = FALSE]) \in Log(NooBaaVersion)
        BY ReadTypes, NooBaaVersions, WriteLog DEF TypeOK
      <3> QED
        BY <1>5, <3>1 DEF ReconcileNoobaa, TypeOK
    <2> QED
      BY <1>5, <2>2, <2>3 DEF ReconcileNoobaa, TypeOK
  <1>6. CASE ReconcileRest
    <2>1. pc' \in Pc /\ r' \in Reconciler /\ budget' \in Nat
      BY <1>6, <1>a, RefusedType, SpendType, ReconcilerTypes
         DEF ReconcileRest, Goto, Pc, ActivePass
    <2>2. comp' \in [Component -> State]
      BY <1>6 DEF ReconcileRest, Created, TypeOK, State
    <2> QED
      BY <1>6, <2>1, <2>2 DEF ReconcileRest, TypeOK
  <1>7. CASE DeleteManagedMCG
    <2>1. Deleted(Current(mcg), NoMCG) \in MCGVersion
      BY ReadTypes, MCGVersions
    <2>2. [r EXCEPT !.fresh = r.fresh /\ Deleted(Current(mcg), NoMCG) = Current(mcg)]
             \in Reconciler
      BY <1>a DEF Reconciler
    <2>3. pc' \in Pc /\ r' \in Reconciler /\ budget' \in Nat
      BY <1>7, <1>a, <2>2, ReplyType DEF DeleteManagedMCG, Pc
    <2> QED
      BY <1>7, <2>1, <2>3, WriteLog DEF DeleteManagedMCG, TypeOK
  <1>8. CASE RemoveManagedMCG
    <2>1. Unfinalized(Current(mcg), NoMCG) \in MCGVersion
      BY ReadTypes, MCGVersions
    <2>2. pc' \in Pc /\ r' \in Reconciler /\ budget' \in Nat
      BY <1>8, <1>a, ReplyType, RefusedType, ReconcilerTypes DEF RemoveManagedMCG, Pc
    <2> QED
      <3>1. mcg' \in Log(MCGVersion)
        BY <1>8, <2>1, WriteLog DEF RemoveManagedMCG, TypeOK
      <3> QED
        BY <1>8, <2>2, <3>1 DEF RemoveManagedMCG, TypeOK
  <1>9. CASE PollBucketClass
    <2>1. pc' \in Pc /\ r' \in Reconciler /\ budget' \in Nat
      BY <1>9, <1>a, RefusedType DEF PollBucketClass, Goto, Pc, Teardown
    <2> QED
      BY <1>9, <2>1 DEF PollBucketClass, TypeOK
  <1>10. CASE UpdateNooBaa
    <2>1. Unfinalized(Current(noobaa), NoNooBaa) \in NooBaaVersion
      BY ReadTypes, NooBaaVersions
    <2>2. pc' \in Pc /\ r' \in Reconciler /\ budget' \in Nat
      BY <1>10, <1>a, ReplyType, RefusedType DEF UpdateNooBaa, Pc, Teardown
    <2> QED
      <3>1. noobaa' \in Log(NooBaaVersion)
        BY <1>10, <2>1, WriteLog DEF UpdateNooBaa, TypeOK
      <3> QED
        BY <1>10, <2>2, <3>1 DEF UpdateNooBaa, TypeOK
  <1>11. CASE DeleteNooBaa
    <2>1. Deleted(Current(noobaa), NoNooBaa) \in NooBaaVersion
      BY ReadTypes, NooBaaVersions
    <2>2. ListStep["BackingStore"] \in Pc
      BY DEF Pc, Teardown, Kind
    <2>3. pc' \in Pc /\ r' \in Reconciler /\ budget' \in Nat
      BY <1>11, <1>a, <2>2, ReplyType DEF DeleteNooBaa
    <2>4. owed' \in [Store -> SUBSET Obj]
      BY <1>11 DEF DeleteNooBaa
    <2> QED
      BY <1>11, <2>1, <2>3, <2>4, WriteLog DEF DeleteNooBaa, TypeOK
  <1>12. ASSUME NEW k \in Kind, ListObjects(k) PROVE TypeOK'
    <2>1. AfterDelete(k) \in Pc /\ DeleteStep[k] \in Pc
      BY DEF AfterDelete, Kind, Pc, Teardown
    <2>2. pc' \in Pc /\ r' \in Reconciler
      BY <1>12, <1>a, <2>1, ReadTypes, ReconcilerTypes DEF ListObjects, Goto
    <2> QED
      BY <1>12, <2>2 DEF ListObjects, TypeOK
  <1>13. ASSUME NEW k \in Kind, DeleteObject(k) PROVE TypeOK'
    <2>1. AfterDelete(k) \in Pc /\ pc \in Pc
      BY DEF AfterDelete, Kind, Pc, Teardown, TypeOK
    <2>2. pc' \in Pc /\ r' \in Reconciler /\ budget' \in Nat
      <3>1. PICK o \in r.todo :
              Reply(IF r.todo \ {o} = {} THEN AfterDelete(k) ELSE pc,
                    [r EXCEPT !.todo = r.todo \ {o}], r)
        BY <1>13 DEF DeleteObject
      <3>2. [r EXCEPT !.todo = r.todo \ {o}] \in Reconciler
        BY <1>a DEF Reconciler
      <3> QED
        BY <1>a, <2>1, <3>1, <3>2, ReplyType
    <2>3. deleting' \in [Kind -> SUBSET Obj] /\ owed' \in [Store -> SUBSET Obj]
      BY <1>13, <1>a DEF DeleteObject, TypeOK, Reconciler
    <2> QED
      BY <1>13, <2>2, <2>3 DEF DeleteObject, TypeOK
  <1>14. CASE RemoveOLMComponents
    <2>1. pc' \in Pc /\ r' \in Reconciler /\ budget' \in Nat /\ csv' \in BOOLEAN
      BY <1>14, <1>a, ReplyType, SpendType DEF RemoveOLMComponents, Goto, Pc, TypeOK
    <2> QED
      BY <1>14, <2>1 DEF RemoveOLMComponents, TypeOK
  <1>15. CASE Finish
    <2>1. pc' \in Pc /\ r' \in Reconciler
      BY <1>15, ReconcilerTypes DEF Finish, Goto, Pc
    <2>2. queue' \in BOOLEAN
      BY <1>15, <1>a DEF Finish, StatusAccepted, Requeue, TypeOK, Reconciler
    <2>3. budget' \in Nat
      BY <1>15, <1>a, SpendType DEF Finish
    <2>4. r.fresh /\ r.managedMCG.uid # 0 =>
            Write(mcg, [Current(mcg) EXCEPT !.status = r.managedMCG.status]) \in Log(MCGVersion)
      <3> SUFFICES ASSUME r.fresh, r.managedMCG.uid # 0
                   PROVE  [Current(mcg) EXCEPT !.status = r.managedMCG.status] \in MCGVersion
        BY WriteLog DEF TypeOK
      <3>1. Current(mcg).uid # 0 /\ r.managedMCG.status \in {"none", "ready", "notReady"}
        BY <1>a DEF FreshCopy, MCGVersion
      <3> QED
        BY <3>1, ReadTypes, MCGVersions
    <2>5. mcg' \in Log(MCGVersion)
      BY <1>15, <2>4 DEF Finish, StatusAccepted, TypeOK
    <2> QED
      BY <1>15, <2>1, <2>2, <2>3, <2>5 DEF Finish, TypeOK
  <1> QED
    BY <1>1, <1>2, <1>3, <1>4, <1>5, <1>6, <1>7, <1>8, <1>9, <1>10, <1>11, <1>12,
       <1>13, <1>14, <1>15 DEF Pass

\* The process and the watches.
LEMMA ProcessType ==
  TypeOK /\ (FailStep \/ Crash \/ Process \/ Delivery \/ Resync \/ OtherEvent) => TypeOK'
  <1> SUFFICES ASSUME TypeOK, FailStep \/ Crash \/ Process \/ Delivery \/ Resync \/ OtherEvent
               PROVE  TypeOK'
    OBVIOUS
  <1> USE DEF cr, nb, stores, addon, process
  <1>a. r \in Reconciler /\ budget \in Nat /\ Failed(r) \in Reconciler
        /\ InitializedReconciler \in Reconciler
    BY ReconcilerTypes DEF TypeOK
  <1>b. {"finish", "down", "starting", "idle", "removed"} \subseteq Pc
    BY DEF Pc, Stopped
  <1>1. CASE FailStep
    BY <1>1, <1>a, <1>b, SpendType DEF FailStep, Goto, TypeOK
  <1>2. CASE Crash
    BY <1>2, <1>a, <1>b, SpendType DEF Crash, Goto, TypeOK
  <1>3. CASE EnsureManagedMCG
    <2>1. uids + 1 \in Nat /\ NewMCG(uids + 1) \in MCGVersion
      <3>1. uids + 1 \in Nat /\ uids + 1 # 0
        BY DEF TypeOK
      <3> QED
        BY <3>1, MCGVersions
    <2>2. mcg' \in Log(MCGVersion) /\ uids' \in Nat
      BY <1>3, <2>1, WriteLog DEF EnsureManagedMCG, TypeOK
    <2>3. pc' \in Pc /\ budget' \in Nat
      BY <1>3, <1>a, <1>b, SpendType DEF EnsureManagedMCG, TypeOK
    <2> QED
      BY <1>3, <2>2, <2>3 DEF EnsureManagedMCG, TypeOK
  <1>4. CASE StartManager
    <2>1. mcg' \in Log(MCGVersion) /\ noobaa' \in Log(NooBaaVersion) /\ key' \in Log(BOOLEAN)
      BY <1>4, RelistLog DEF StartManager, TypeOK
    <2>2. objs' \in [Kind -> Log(SUBSET Obj)]
      <3>1. \A k \in Kind : Relist(objs[k]) \in Log(SUBSET Obj)
        BY RelistLog DEF TypeOK
      <3> QED
        BY <1>4, <3>1 DEF StartManager
    <2>3. queue' \in BOOLEAN
      <3>1. Current(key) \in BOOLEAN /\ Current(noobaa).exists \in BOOLEAN
        BY ReadTypes, NooBaaVersions
      <3> QED
        BY <1>4, <3>1 DEF StartManager
    <2> QED
      BY <1>4, <1>b, <2>1, <2>2, <2>3 DEF StartManager, TypeOK
  <1>5. CASE OLMRemovesOperator
    BY <1>5, <1>a, <1>b DEF OLMRemovesOperator, Goto, TypeOK
  <1>6. CASE DeliverMCG
    <2>1. mcg' \in Log(MCGVersion)
      BY <1>6, DeliverLog DEF DeliverMCG, TypeOK
    <2>2. queue' \in BOOLEAN
      BY <1>6 DEF DeliverMCG, Enqueue, Triggers, TypeOK
    <2> QED
      BY <1>6, <2>1, <2>2 DEF DeliverMCG, TypeOK
  <1>7. CASE DeliverNooBaa
    BY <1>7, DeliverLog DEF DeliverNooBaa, Enqueue, TypeOK
  <1>8. CASE DeliverKey
    <2>1. key' \in Log(BOOLEAN) /\ key[2] \in BOOLEAN
      BY <1>8, DeliverLog, LogElements DEF DeliverKey, TypeOK
    <2> QED
      BY <1>8, <2>1 DEF DeliverKey, Enqueue, TypeOK
  <1>9. ASSUME NEW k \in Kind, DeliverObjects(k) PROVE TypeOK'
    <2>1. Deliver(objs[k]) \in Log(SUBSET Obj)
      BY <1>9, DeliverLog DEF DeliverObjects, TypeOK
    <2>2. objs' \in [Kind -> Log(SUBSET Obj)]
      BY <1>9, <2>1 DEF DeliverObjects, TypeOK
    <2> QED
      BY <1>9, <2>2 DEF DeliverObjects, Enqueue, TypeOK
  <1>10. CASE Resync
    BY <1>10 DEF Resync, TypeOK
  <1>11. CASE OtherEvent
    BY <1>11 DEF OtherEvent, TypeOK
  <1> QED
    BY <1>1, <1>2, <1>3, <1>4, <1>5, <1>6, <1>7, <1>8, <1>9, <1>10, <1>11
       DEF Process, Delivery

\* A write by somebody else.
LEMMA WriteMCGType ==
  ASSUME TypeOK, NEW v \in MCGVersion, WriteMCG(v), uids' \in Nat, budget' \in Nat
  PROVE  TypeOK'
  <1>1. mcg' \in Log(MCGVersion) /\ r' \in Reconciler
    BY WriteLog, ReconcilerTypes DEF WriteMCG, TypeOK
  <1> QED
    BY <1>1 DEF WriteMCG, TypeOK, nb, stores, addon

\* The same for NooBaa.
LEMMA WriteNooBaaType ==
  ASSUME TypeOK, NEW v \in NooBaaVersion, WriteNooBaa(v), budget' \in Nat
  PROVE  TypeOK'
  <1>1. noobaa' \in Log(NooBaaVersion) /\ r' \in Reconciler
    BY WriteLog, ReconcilerTypes DEF WriteNooBaa, TypeOK
  <1> QED
    BY <1>1 DEF WriteNooBaa, TypeOK, cr, stores, addon

\* What users and other operators do keeps the types.
LEMMA ClusterType == TypeOK /\ Cluster => TypeOK'
  <1> SUFFICES ASSUME TypeOK, Cluster PROVE TypeOK'
    OBVIOUS
  <1> USE DEF cr, nb, stores, addon, process
  <1>a. budget \in Nat /\ uids \in Nat /\ Current(mcg) \in MCGVersion
        /\ Current(noobaa) \in NooBaaVersion
    BY ReadTypes DEF TypeOK
  <1>1. CASE SetDeletionKey
    <2>1. key' \in Log(BOOLEAN)
      BY <1>1, WriteLog DEF SetDeletionKey, TypeOK
    <2> QED
      BY <1>1, <2>1 DEF SetDeletionKey, TypeOK
  <1>2. CASE UserDeletesMCG
    BY <1>2, <1>a, SpendType, MCGVersions, WriteMCGType DEF UserDeletesMCG
  <1>3. CASE UserCreatesMCG
    BY <1>3, <1>a, SpendType, MCGVersions, WriteMCGType DEF UserCreatesMCG
  <1>4. CASE UserStripsFinalizer
    BY <1>4, <1>a, SpendType, MCGVersions, WriteMCGType DEF UserStripsFinalizer
  <1>5. CASE NooBaaReady
    BY <1>5, <1>a, NooBaaVersions, WriteNooBaaType DEF NooBaaReady
  <1>6. CASE NooBaaAddsFinalizer
    BY <1>6, <1>a, NooBaaVersions, WriteNooBaaType DEF NooBaaAddsFinalizer
  <1>7. CASE NooBaaFinalized
    BY <1>7, <1>a, NooBaaVersions, WriteNooBaaType DEF NooBaaFinalized
  <1>8. CASE NooBaaNotReady
    <2>1. Current(noobaa).exists
      BY <1>8, <1>a DEF NooBaaNotReady, NooBaaVersion
    <2> QED
      BY <1>8, <2>1, <1>a, SpendType, NooBaaVersions, WriteNooBaaType DEF NooBaaNotReady
  <1>9. CASE UserDeletesNooBaa
    BY <1>9, <1>a, SpendType, NooBaaVersions, WriteNooBaaType DEF UserDeletesNooBaa
  <1>10. CASE NooBaaDrifts
    BY <1>10, <1>a, SpendType, NooBaaVersions, WriteNooBaaType DEF NooBaaDrifts
  <1>11. ASSUME NEW k \in Kind, NEW o \in Obj, CreateObject(k, o) PROVE TypeOK'
    <2>1. Write(objs[k], Current(objs[k]) \cup {o}) \in Log(SUBSET Obj)
      <3>1. Current(objs[k]) \cup {o} \in SUBSET Obj
        BY ReadTypes
      <3>2. objs[k] \in Log(SUBSET Obj)
        BY DEF TypeOK
      <3> QED
        BY <3>1, <3>2, WriteLog
    <2>2. objs' \in [Kind -> Log(SUBSET Obj)]
      BY <1>11, <2>1 DEF CreateObject, TypeOK
    <2> QED
      BY <1>11, <2>2, <1>a, SpendType DEF CreateObject, TypeOK
  <1>12. ASSUME NEW k \in Kind, NEW o \in Obj, FinalizeObject(k, o) PROVE TypeOK'
    <2>1. Write(objs[k], Current(objs[k]) \ {o}) \in Log(SUBSET Obj)
      <3>1. Current(objs[k]) \ {o} \in SUBSET Obj
        BY ReadTypes
      <3>2. objs[k] \in Log(SUBSET Obj)
        BY DEF TypeOK
      <3> QED
        BY <3>1, <3>2, WriteLog
    <2>2. objs' \in [Kind -> Log(SUBSET Obj)] /\ deleting' \in [Kind -> SUBSET Obj]
      BY <1>12, <2>1 DEF FinalizeObject, TypeOK
    <2> QED
      BY <1>12, <2>2 DEF FinalizeObject, TypeOK
  <1>13. ASSUME NEW c \in Component, ComponentReady(c) \/ GarbageCollect(c) PROVE TypeOK'
    BY <1>13 DEF ComponentReady, GarbageCollect, TypeOK, State
  <1>14. ASSUME NEW c \in Component, ComponentFails(c) PROVE TypeOK'
    <2>1. comp' \in [Component -> State]
      BY <1>14 DEF ComponentFails, TypeOK, State
    <2> QED
      BY <1>14, <2>1, <1>a, SpendType DEF ComponentFails, TypeOK
  <1>15. CASE Unblock
    BY <1>15 DEF Unblock, TypeOK
  <1>16. ASSUME NEW step \in Blockable, Block(step) PROVE TypeOK'
    BY <1>16, <1>a, SpendType DEF Block, TypeOK
  <1> QED
    BY <1>1, <1>2, <1>3, <1>4, <1>5, <1>6, <1>7, <1>8, <1>9, <1>10, <1>11, <1>12,
       <1>13, <1>14, <1>15, <1>16 DEF Cluster, NooBaaSteps
-----------------------------------------------------------------------------
\* What a step does to the ManagedMCG and to the pass's copy of it.

\* The server's ManagedMCG changes to v: it goes, or it stays the same
\* instance and a deletion is not taken back.
Evolves(v) ==
  \/ v.uid = 0 /\ ~v.del
  \/ v.uid = Current(mcg).uid /\ (Current(mcg).del => v.del)

LogStep ==
  \/ mcg' = mcg /\ uids' = uids
  \/ \E v \in MCGVersion : mcg' = Write(mcg, v) /\ uids' = uids /\ Evolves(v)
  \/ \E v \in MCGVersion :
       mcg' = Write(mcg, v) /\ uids' = uids + 1 /\ v.uid = uids + 1 /\ ~v.del
  \/ mcg' = Deliver(mcg) /\ Lagging(mcg) /\ uids' = uids
  \/ mcg' = Relist(mcg) /\ uids' = uids

CopyStep ==
  \/ r'.managedMCG.uid = r.managedMCG.uid /\ r'.managedMCG.del = r.managedMCG.del
  \/ r'.managedMCG = NoMCG
  \/ r'.managedMCG = Cached(mcg) /\ mcg' = mcg

\* Steps that leave the ManagedMCG and the copy alone and go on within the
\* kind of pass they belong to.
Within ==
  /\ mcg' = mcg /\ uids' = uids
  /\ r'.managedMCG = r.managedMCG /\ r'.fresh = r.fresh /\ r'.ready = r.ready
  /\ pc' \in Stopped => pc \in Stopped
  /\ pc' \in ActivePass => pc \in ActivePass
  /\ pc' \in Teardown => pc \in Teardown

\* The five sets of steps are disjoint.
LEMMA Apart ==
  /\ ActivePass \cap Teardown = {} /\ ActivePass \cap Stopped = {}
  /\ Teardown \cap Stopped = {}
  /\ \A p \in {"idle", "reconcilePhases", "removeOLMComponents", "finish"} :
       p \notin ActivePass /\ p \notin Teardown /\ p \notin Stopped
  BY DEF ActivePass, Teardown, Stopped, Kind, ListStep, DeleteStep

\* A step within the pass keeps the decision and the copy of it.
LEMMA WithinStep ==
  ASSUME TypeOK, Decided, FreshCopy, Within
  PROVE  LogStep /\ CopyStep /\ Decided' /\ FreshCopy'
  BY DEF Within, LogStep, CopyStep, Decided, FreshCopy

\* A failed call is a step within the pass.
LEMMA FailedWithin ==
  ASSUME TypeOK, pc \notin Stopped, mcg' = mcg, uids' = uids, Goto("finish", Failed(r))
  PROVE  Within
  BY Apart DEF Within, Goto, Failed, TypeOK, Reconciler

\* The steps of a pass that do not concern the ManagedMCG.
LEMMA PassWithin ==
  ASSUME TypeOK,
         \/ UpdateAddonParams \/ ReconcileNoobaa \/ ReconcileRest
         \/ PollBucketClass \/ UpdateNooBaa \/ DeleteNooBaa
         \/ RemoveOLMComponents \/ FailStep
         \/ \E k \in Kind : ListObjects(k) \/ DeleteObject(k)
  PROVE  Within
  <1> USE DEF cr, nb, stores, addon
  <1>a. r \in Reconciler
    BY DEF TypeOK
  <1>b. ASSUME NEW step, NEW rr \in Reconciler, Reply(step, rr, r),
               rr.managedMCG = r.managedMCG, rr.fresh = r.fresh, rr.ready = r.ready,
               pc \notin Stopped,
               mcg' = mcg, uids' = uids,
               step \notin Stopped, step \in ActivePass => pc \in ActivePass,
               step \in Teardown => pc \in Teardown
        PROVE  Within
    BY <1>b, Apart, FailedWithin DEF Reply, Goto, Within
  <1>c. ASSUME Refused, pc \notin Stopped, mcg' = mcg, uids' = uids
        PROVE  Within
    BY <1>c, FailedWithin DEF Refused
  <1>1. CASE UpdateAddonParams
    <2>1. pc \in ActivePass /\ pc \notin Stopped /\ mcg' = mcg /\ uids' = uids
      BY <1>1, Apart DEF UpdateAddonParams, ActivePass
    <2> QED
      BY <1>1, <1>c, <2>1, Apart DEF UpdateAddonParams, Goto, Within, ActivePass
  <1>2. CASE ReconcileNoobaa
    <2>1. pc \in ActivePass /\ pc \notin Stopped /\ mcg' = mcg /\ uids' = uids
      BY <1>2, Apart DEF ReconcileNoobaa, ActivePass
    <2>2. "reconcileRest" \in ActivePass /\ "reconcileRest" \notin Stopped
          /\ "reconcileRest" \notin Teardown
      BY Apart DEF ActivePass
    <2> QED
      BY <1>2, <1>a, <1>b, <1>c, <2>1, <2>2 DEF ReconcileNoobaa, Goto, Within
  <1>3. CASE ReconcileRest
    <2>1. pc \in ActivePass /\ pc \notin Stopped /\ mcg' = mcg /\ uids' = uids
      BY <1>3, Apart DEF ReconcileRest, ActivePass
    <2>2. "deleteManagedMCG" \in ActivePass
      BY DEF ActivePass
    <2> QED
      BY <1>3, <1>c, <2>1, <2>2, Apart, FailedWithin DEF ReconcileRest, Goto, Within
  <1>4. CASE PollBucketClass
    <2>1. pc \in Teardown /\ pc \notin Stopped /\ mcg' = mcg /\ uids' = uids
      BY <1>4, Apart DEF PollBucketClass, Teardown
    <2>2. "updateNooBaa" \in Teardown
      BY DEF Teardown
    <2> QED
      BY <1>4, <1>c, <2>1, <2>2, Apart DEF PollBucketClass, Goto, Within
  <1>5. CASE UpdateNooBaa
    <2>1. pc \in Teardown /\ pc \notin Stopped /\ mcg' = mcg /\ uids' = uids
      BY <1>5, Apart DEF UpdateNooBaa, Teardown
    <2>2. "deleteNooBaa" \in Teardown /\ "deleteNooBaa" \notin ActivePass
          /\ "deleteNooBaa" \notin Stopped
      BY Apart DEF Teardown
    <2> QED
      BY <1>5, <1>a, <1>b, <1>c, <2>1, <2>2 DEF UpdateNooBaa
  <1>6. CASE DeleteNooBaa
    <2>1. pc \in Teardown /\ pc \notin Stopped /\ mcg' = mcg /\ uids' = uids
      BY <1>6, Apart DEF DeleteNooBaa, Teardown
    <2>2. ListStep["BackingStore"] \in Teardown /\ ListStep["BackingStore"] \notin ActivePass
          /\ ListStep["BackingStore"] \notin Stopped
      BY Apart DEF Teardown, Kind
    <2> QED
      BY <1>6, <1>a, <1>b, <2>1, <2>2 DEF DeleteNooBaa
  <1>7. CASE RemoveOLMComponents
    <2>1. pc \notin Stopped /\ mcg' = mcg /\ uids' = uids
      BY <1>7, Apart DEF RemoveOLMComponents
    <2> QED
      BY <1>7, <1>a, <1>b, <2>1, Apart DEF RemoveOLMComponents, Goto, Within
  <1>8. CASE FailStep
    BY <1>8, Apart, FailedWithin DEF FailStep
  <1>d. ASSUME NEW k \in Kind
        PROVE  /\ ListStep[k] \in Teardown /\ DeleteStep[k] \in Teardown
               /\ AfterDelete(k) \in Teardown \cup {"finish"}
    BY DEF Kind, Teardown, AfterDelete
  <1>9. ASSUME NEW k \in Kind, ListObjects(k) PROVE Within
    <2>1. pc \in Teardown /\ pc \notin Stopped /\ mcg' = mcg /\ uids' = uids
      BY <1>9, <1>d, Apart DEF ListObjects
    <2> QED
      BY <1>9, <1>a, <1>d, <2>1, Apart DEF ListObjects, Goto, Within, Reconciler
  <1>10. ASSUME NEW k \in Kind, DeleteObject(k) PROVE Within
    <2>1. pc \in Teardown /\ pc \notin Stopped /\ mcg' = mcg /\ uids' = uids
      BY <1>10, <1>d, Apart DEF DeleteObject
    <2>2. PICK o \in r.todo :
            Reply(IF r.todo \ {o} = {} THEN AfterDelete(k) ELSE pc,
                  [r EXCEPT !.todo = r.todo \ {o}], r)
      BY <1>10 DEF DeleteObject
    <2>3. [r EXCEPT !.todo = r.todo \ {o}] \in Reconciler
      BY <1>a DEF Reconciler
    <2> QED
      BY <1>a, <1>b, <1>d, <2>1, <2>2, <2>3, Apart DEF Reconciler
  <1> QED
    BY <1>1, <1>2, <1>3, <1>4, <1>5, <1>6, <1>7, <1>8, <1>9, <1>10

\* Everything around the operator that does not concern the ManagedMCG.
LEMMA AroundWithin ==
  ASSUME TypeOK,
         \/ DeliverNooBaa \/ DeliverKey \/ Resync \/ OtherEvent
         \/ \E k \in Kind : DeliverObjects(k)
         \/ SetDeletionKey \/ NooBaaReady \/ NooBaaSteps
         \/ \E k \in Kind, o \in Obj : CreateObject(k, o) \/ FinalizeObject(k, o)
         \/ \E c \in Component : ComponentReady(c) \/ ComponentFails(c) \/ GarbageCollect(c)
         \/ Unblock \/ \E step \in Blockable : Block(step)
  PROVE  Within
  <1> USE DEF cr, nb, stores, addon, process, Within
  <1>1. CASE DeliverNooBaa \/ DeliverKey \/ Resync \/ OtherEvent
    BY <1>1 DEF DeliverNooBaa, DeliverKey, Resync, OtherEvent
  <1>2. CASE \E k \in Kind : DeliverObjects(k)
    BY <1>2 DEF DeliverObjects
  <1>3. CASE SetDeletionKey
    BY <1>3 DEF SetDeletionKey
  <1>4. ASSUME NEW v, WriteNooBaa(v) PROVE Within
    BY <1>4 DEF WriteNooBaa, TypeOK, Reconciler
  <1>5. CASE NooBaaReady \/ NooBaaSteps
    BY <1>4, <1>5 DEF NooBaaReady, NooBaaSteps, NooBaaAddsFinalizer, NooBaaFinalized,
                      NooBaaNotReady, UserDeletesNooBaa, NooBaaDrifts
  <1>6. CASE \E k \in Kind, o \in Obj : CreateObject(k, o) \/ FinalizeObject(k, o)
    BY <1>6 DEF CreateObject, FinalizeObject
  <1>7. CASE \E c \in Component : ComponentReady(c) \/ ComponentFails(c) \/ GarbageCollect(c)
    BY <1>7 DEF ComponentReady, ComponentFails, GarbageCollect
  <1>8. CASE Unblock \/ \E step \in Blockable : Block(step)
    BY <1>8 DEF Unblock, Block
  <1> QED
    BY <1>1, <1>2, <1>3, <1>5, <1>6, <1>7, <1>8

\* Deletes and dropped finalizers are evolutions of the server's object.
LEMMA Evolution ==
  ASSUME TypeOK
  PROVE  /\ Evolves(Deleted(Current(mcg), NoMCG))
         /\ Evolves(Unfinalized(Current(mcg), NoMCG))
         /\ Current(mcg).uid # 0 =>
              /\ Evolves([Current(mcg) EXCEPT !.fin = TRUE])
              /\ \A st : Evolves([Current(mcg) EXCEPT !.status = st])
  BY ReadTypes DEF Evolves, Deleted, Unfinalized, NoMCG, MCGVersion

\* Every step preserves what is known of the copy and of the UIDs.
LEMMA CopyInvariants ==
  TypeOK /\ Decided /\ FreshCopy /\ Next => LogStep /\ CopyStep /\ Decided' /\ FreshCopy'
  <1> SUFFICES ASSUME TypeOK, Decided, FreshCopy, Next
               PROVE  LogStep /\ CopyStep /\ Decided' /\ FreshCopy'
    OBVIOUS
  <1> USE DEF cr, nb, stores, addon, process
  <1>a. /\ r \in Reconciler /\ r.managedMCG \in MCGVersion
        /\ mcg \in Log(MCGVersion) /\ Current(mcg) \in MCGVersion
        /\ Cached(mcg) \in MCGVersion /\ uids \in Nat
    BY ReadTypes DEF TypeOK
  <1>b. InitializedReconciler.managedMCG = NoMCG /\ ~InitializedReconciler.fresh
    BY DEF InitializedReconciler
  <1>1. CASE Within
    BY <1>1, WithinStep
  <1>2. CASE Reconcile
    <2>1. CASE UNCHANGED process
      BY <1>2, <2>1 DEF Reconcile, LogStep, CopyStep, Decided, FreshCopy
    <2>2. CASE pc' = "reconcilePhases"
               /\ r' = [InitializedReconciler EXCEPT !.managedMCG = Cached(mcg),
                                                     !.fresh = ~Lagging(mcg)]
      <3>1. r'.managedMCG = Cached(mcg) /\ r'.fresh = ~Lagging(mcg)
        BY <2>2 DEF InitializedReconciler
      <3>2. ~Lagging(mcg) => Cached(mcg) = Current(mcg)
        BY <1>a, LogElements DEF Lagging, Cached, Current
      <3> QED
        BY <1>2, <2>2, <3>1, <3>2, Apart DEF Reconcile, LogStep, CopyStep, Decided, FreshCopy
    <2> QED
      BY <1>2, <2>1, <2>2 DEF Reconcile, Goto
  <1>3. CASE ReconcilePhases
    <2>1. ASSUME NEW found, NEW state, NEW status, Observe(found, state, status)
          PROVE  /\ r'.managedMCG.uid = r.managedMCG.uid
                 /\ r'.managedMCG.fin = r.managedMCG.fin
                 /\ r'.managedMCG.del = r.managedMCG.del
                 /\ r'.fresh = r.fresh
                 /\ pc' \notin Stopped
                 /\ pc' \in ActivePass => r.managedMCG.uid # 0 /\ ~r.managedMCG.del
                 /\ pc' \in Teardown => r.managedMCG.del
      <3>1. /\ r'.managedMCG.uid = r.managedMCG.uid /\ r'.managedMCG.fin = r.managedMCG.fin
            /\ r'.managedMCG.del = r.managedMCG.del /\ r'.fresh = r.fresh
        BY <1>a, <2>1 DEF Observe, Goto, Reconciler, MCGVersion
      <3>2. pc' = Phase(r.managedMCG, state, found)
        BY <2>1 DEF Observe, Goto
      <3>3. TeardownPhase(state) \in Teardown
        BY DEF TeardownPhase, Teardown, Kind
      <3>4. ActivePhase(r.managedMCG, found) \in
              IF r.managedMCG.uid # 0 THEN ActivePass ELSE {"removeOLMComponents", "finish"}
        BY <1>a, MCGVersions DEF ActivePhase, ActivePass
      <3> QED
        BY <3>1, <3>2, <3>3, <3>4, Apart DEF Phase
    <2>2. \E found, state, status : Observe(found, state, status)
      BY <1>3 DEF ReconcilePhases
    <2>3. mcg' = mcg /\ uids' = uids
      BY <1>3 DEF ReconcilePhases
    <2> QED
      BY <2>1, <2>2, <2>3 DEF LogStep, CopyStep, Decided, FreshCopy
  <1>4. CASE AddManagedMCG
    <2>1. pc \notin Stopped /\ r.managedMCG.uid # 0 /\ ~r.managedMCG.del /\ uids' = uids
      BY <1>4, Apart DEF AddManagedMCG, Decided, ActivePass
    <2>2. CASE ~r.fresh
      BY <1>4, <2>1, <2>2, FailedWithin, WithinStep DEF AddManagedMCG, Refused
    <2>3. CASE r.fresh
      <3> DEFINE v == [Current(mcg) EXCEPT !.fin = TRUE]
                 st == IF v.status = "none" THEN r.managedMCG.status ELSE v.status
      <3>1. Current(mcg).uid = r.managedMCG.uid /\ ~Current(mcg).del
        BY <2>1, <2>3 DEF FreshCopy
      <3>2. v \in MCGVersion /\ Evolves(v)
        BY <1>a, <2>1, <3>1, MCGVersions, Evolution
      <3>3. v.uid = r.managedMCG.uid /\ ~v.del /\ v.fin
        BY <1>a, <3>1 DEF MCGVersion
      <3>4. mcg' = Write(mcg, v)
            /\ Reply("updateAddonParams", [r EXCEPT !.managedMCG = [v EXCEPT !.status = st]],
                     [r EXCEPT !.fresh = FALSE])
        BY <1>4, <2>3 DEF AddManagedMCG
      <3>5. [v EXCEPT !.status = st].uid = v.uid /\ [v EXCEPT !.status = st].del = v.del
            /\ [v EXCEPT !.status = st].fin = v.fin
        BY <3>2 DEF MCGVersion
      <3> HIDE DEF v, st
      <3>6. Current(mcg)' = v
        BY <1>a, <3>2, <3>4, WriteLog
      <3>7. CASE Goto("updateAddonParams", [r EXCEPT !.managedMCG = [v EXCEPT !.status = st]])
        <4>1. /\ r'.managedMCG.uid = v.uid /\ r'.managedMCG.del = v.del
              /\ r'.managedMCG.fin = v.fin /\ r'.fresh = r.fresh
              /\ pc' = "updateAddonParams"
          BY <1>a, <3>5, <3>7 DEF Goto, Reconciler
        <4>2. pc' \in ActivePass /\ pc' \notin Teardown /\ pc' \notin Stopped
          BY <4>1, Apart DEF ActivePass
        <4>3. LogStep
          BY <2>1, <3>2, <3>4 DEF LogStep
        <4>4. CopyStep
          BY <1>a, <3>2, <3>3, <4>1, <2>1 DEF CopyStep, MCGVersion
        <4>5. Decided'
          BY <2>1, <3>3, <4>1, <4>2 DEF Decided
        <4>6. FreshCopy'
          BY <3>6, <4>1 DEF FreshCopy
        <4> QED
          BY <4>3, <4>4, <4>5, <4>6
      <3>8. CASE Goto("finish", Failed([r EXCEPT !.fresh = FALSE]))
        <4>1. r'.managedMCG = r.managedMCG /\ ~r'.fresh /\ pc' = "finish"
          BY <1>a, <3>8 DEF Goto, Failed, Reconciler
        <4> QED
          BY <2>1, <3>2, <3>4, <4>1, Apart DEF LogStep, CopyStep, Decided, FreshCopy
      <3> QED
        BY <3>4, <3>7, <3>8 DEF Reply
    <2> QED
      BY <2>2, <2>3
  <1>5. CASE DeleteManagedMCG
    <2> DEFINE v == Deleted(Current(mcg), NoMCG)
    <2>1. v \in MCGVersion /\ Evolves(v) /\ mcg' = Write(mcg, v) /\ uids' = uids
      BY <1>5, <1>a, MCGVersions, Evolution DEF DeleteManagedMCG
    <2>2. pc' = "finish" /\ r'.managedMCG = r.managedMCG
          /\ (r'.fresh => r.fresh /\ v = Current(mcg))
      BY <1>5, <1>a DEF DeleteManagedMCG, Reply, Goto, Failed, Reconciler
    <2> HIDE DEF v
    <2>3. Current(mcg)' = v
      BY <1>a, <2>1, WriteLog
    <2> QED
      BY <2>1, <2>2, <2>3, Apart DEF LogStep, CopyStep, Decided, FreshCopy
  <1>6. CASE RemoveManagedMCG
    <2>1. pc \notin Stopped /\ uids' = uids
      BY <1>6, Apart DEF RemoveManagedMCG, Teardown
    <2>2. CASE ~r.fresh
      BY <1>6, <2>1, <2>2, FailedWithin, WithinStep DEF RemoveManagedMCG, Refused
    <2>3. CASE r.fresh
      <3> DEFINE v == Unfinalized(Current(mcg), NoMCG)
      <3>1. v \in MCGVersion /\ Evolves(v) /\ mcg' = Write(mcg, v)
        BY <1>6, <2>3, <1>a, MCGVersions, Evolution DEF RemoveManagedMCG
      <3>2. pc' = "finish" /\ r'.managedMCG = r.managedMCG /\ ~r'.fresh
        BY <1>6, <2>3, <1>a DEF RemoveManagedMCG, Reply, Goto, Failed, Reconciler
      <3> HIDE DEF v
      <3> QED
        BY <2>1, <3>1, <3>2, Apart DEF LogStep, CopyStep, Decided, FreshCopy
    <2> QED
      BY <2>2, <2>3
  <1>7. CASE Finish
    <2> DEFINE v == [Current(mcg) EXCEPT !.status = r.managedMCG.status]
    <2>1. r.fresh /\ r.managedMCG.uid # 0 => v \in MCGVersion /\ Evolves(v)
      <3> SUFFICES ASSUME r.fresh, r.managedMCG.uid # 0 PROVE v \in MCGVersion /\ Evolves(v)
        OBVIOUS
      <3>1. Current(mcg).uid # 0 /\ r.managedMCG.status \in {"none", "ready", "notReady"}
        BY <1>a DEF FreshCopy, MCGVersion
      <3> QED
        BY <3>1, <1>a, MCGVersions, Evolution
    <2>2. /\ mcg' = mcg \/ (r.fresh /\ r.managedMCG.uid # 0 /\ mcg' = Write(mcg, v))
          /\ uids' = uids /\ pc' = "idle" /\ r' = InitializedReconciler
      BY <1>7 DEF Finish, StatusAccepted, Goto
    <2> HIDE DEF v
    <2> QED
      BY <1>b, <2>1, <2>2, Apart DEF LogStep, CopyStep, Decided, FreshCopy
  <1>8. CASE Crash \/ OLMRemovesOperator
    <2>1. mcg' = mcg /\ uids' = uids /\ pc' \in Stopped /\ r' = InitializedReconciler
      BY <1>8 DEF Crash, OLMRemovesOperator, Goto, Stopped
    <2> QED
      BY <1>b, <2>1, Apart DEF LogStep, CopyStep, Decided, FreshCopy
  <1>9. CASE EnsureManagedMCG
    <2>1. pc \in Stopped /\ pc' \in Stopped /\ r' = r /\ ~r.fresh
      BY <1>9 DEF EnsureManagedMCG, Stopped, Decided
    <2>2. uids + 1 \in Nat /\ uids + 1 # 0
      BY <1>a
    <2>3. NewMCG(uids + 1) \in MCGVersion /\ NewMCG(uids + 1).uid = uids + 1
          /\ ~NewMCG(uids + 1).del
      BY <2>2, MCGVersions DEF NewMCG, NoMCG
    <2>4. LogStep
      BY <1>9, <2>3 DEF EnsureManagedMCG, LogStep
    <2> QED
      BY <2>1, <2>4, Apart DEF CopyStep, Decided, FreshCopy
  <1>10. CASE StartManager
    <2>1. mcg' = Relist(mcg) /\ uids' = uids /\ pc' = "idle" /\ r' = r /\ ~r.fresh
      BY <1>10 DEF StartManager, Decided, Stopped
    <2> QED
      BY <2>1, Apart DEF LogStep, CopyStep, Decided, FreshCopy
  <1>11. CASE DeliverMCG
    <2>1. mcg' = Deliver(mcg) /\ Lagging(mcg) /\ uids' = uids /\ pc' = pc /\ r' = r
      BY <1>11 DEF DeliverMCG
    <2>2. Current(mcg)' = Current(mcg)
      BY <1>a, <2>1, DeliverLog
    <2> QED
      BY <2>1, <2>2 DEF LogStep, CopyStep, Decided, FreshCopy
  <1>12. ASSUME NEW v, WriteMCG(v)
         PROVE  CopyStep /\ Decided' /\ FreshCopy' /\ mcg' = Write(mcg, v)
    <2>1. r'.managedMCG = r.managedMCG /\ ~r'.fresh /\ pc' = pc /\ mcg' = Write(mcg, v)
      BY <1>12, <1>a DEF WriteMCG, Reconciler
    <2> QED
      BY <2>1 DEF CopyStep, Decided, FreshCopy
  <1>13. CASE UserDeletesMCG
    <2>1. WriteMCG(Deleted(Current(mcg), NoMCG)) /\ uids' = uids
      BY <1>13 DEF UserDeletesMCG
    <2>2. Deleted(Current(mcg), NoMCG) \in MCGVersion /\ Evolves(Deleted(Current(mcg), NoMCG))
      BY <1>a, MCGVersions, Evolution
    <2> QED
      BY <1>12, <2>1, <2>2 DEF LogStep
  <1>14. CASE UserStripsFinalizer
    <2>1. WriteMCG(Unfinalized(Current(mcg), NoMCG)) /\ uids' = uids
      BY <1>14 DEF UserStripsFinalizer
    <2>2. Unfinalized(Current(mcg), NoMCG) \in MCGVersion /\ Evolves(Unfinalized(Current(mcg), NoMCG))
      BY <1>a, MCGVersions, Evolution
    <2> QED
      BY <1>12, <2>1, <2>2 DEF LogStep
  <1>15. CASE UserCreatesMCG
    <2>1. uids + 1 \in Nat /\ uids + 1 # 0
      BY <1>a
    <2>2. [NoMCG EXCEPT !.uid = uids + 1] \in MCGVersion
          /\ [NoMCG EXCEPT !.uid = uids + 1].uid = uids + 1
          /\ ~[NoMCG EXCEPT !.uid = uids + 1].del
      BY <2>1, MCGVersions DEF NoMCG
    <2> QED
      BY <1>15, <1>12, <2>2 DEF UserCreatesMCG, LogStep
  <1> QED
    BY <1>1, <1>2, <1>3, <1>4, <1>5, <1>6, <1>7, <1>8, <1>9, <1>10, <1>11, <1>13,
       <1>14, <1>15, PassWithin, AroundWithin
       DEF Next, Pass, Process, Delivery, Cluster
-----------------------------------------------------------------------------
\* A deletion is never taken back.

\* UIDs are handed out in order and never again.
Issued ==
  /\ \A i \in DOMAIN mcg : mcg[i].uid <= uids
  /\ r.managedMCG.uid <= uids

\* Of the versions of one ManagedMCG, those after a version in deletion are in
\* deletion; the pass's copy is as old as the cache's version, or older.
DeletionSticks ==
  /\ \A i, j \in DOMAIN mcg :
       i < j /\ mcg[i].uid = mcg[j].uid /\ mcg[i].del => mcg[j].del
  /\ r.managedMCG.del =>
       \A i \in DOMAIN mcg : mcg[i].uid = r.managedMCG.uid => mcg[i].del

\* A deletion is never taken back, whatever is written, delivered or copied.
LEMMA SticksStep ==
  ASSUME TypeOK, TypeOK', Issued, DeletionSticks, LogStep, CopyStep
  PROVE  Issued' /\ DeletionSticks'
  <1> DEFINE Older(w) == /\ w.uid <= uids
                         /\ w.del => \A i \in DOMAIN mcg : mcg[i].uid = w.uid => mcg[i].del
  <1>a. /\ mcg \in Log(MCGVersion) /\ mcg' \in Log(MCGVersion) /\ uids \in Nat
        /\ r.managedMCG \in MCGVersion /\ r'.managedMCG \in MCGVersion
    BY ReadTypes DEF TypeOK, Reconciler
  <1>b. /\ 1 \in DOMAIN mcg /\ Len(mcg) \in DOMAIN mcg /\ DOMAIN mcg = 1 .. Len(mcg)
        /\ Len(mcg) \in Nat \ {0}
        /\ Cached(mcg) = mcg[1] /\ Current(mcg) = mcg[Len(mcg)]
        /\ Current(mcg) \in MCGVersion /\ Cached(mcg) \in MCGVersion
        /\ \A i \in DOMAIN mcg : mcg[i] \in MCGVersion
    BY <1>a, LogElements DEF Cached, Current
  \* What the cache holds is no newer than anything in the log, and nothing in
  \* the log is newer than what the server holds.
  <1>c. Older(Cached(mcg)) /\ Older(r.managedMCG) /\ Older(NoMCG)
    BY <1>a, <1>b, MCGVersions DEF Issued, DeletionSticks
  <1>d. \A i \in DOMAIN mcg :
          mcg[i].uid = Current(mcg).uid /\ mcg[i].del => Current(mcg).del
    BY <1>b DEF DeletionSticks
  \* It is enough to show that the log keeps the invariant and that whatever
  \* was old enough to be the pass's copy still is.
  <1>e. ASSUME uids <= uids', uids' \in Nat,
               \A i \in DOMAIN mcg' : mcg'[i].uid <= uids',
               \A i, j \in DOMAIN mcg' :
                 i < j /\ mcg'[i].uid = mcg'[j].uid /\ mcg'[i].del => mcg'[j].del,
               \A w \in MCGVersion, i \in DOMAIN mcg' :
                 Older(w) /\ w.del /\ mcg'[i].uid = w.uid => mcg'[i].del
        PROVE  Issued' /\ DeletionSticks'
    <2>1. PICK w \in MCGVersion : /\ Older(w)
                                  /\ r'.managedMCG.uid = w.uid /\ r'.managedMCG.del = w.del
      BY <1>a, <1>b, <1>c, MCGVersions DEF CopyStep
    <2>2. w.uid <= uids /\ w.uid \in Nat
      BY <2>1, MCGVersions
    <2>3. r'.managedMCG.uid <= uids'
      BY <1>a, <1>e, <2>1, <2>2
    <2>4. r'.managedMCG.del =>
            \A i \in DOMAIN mcg' : mcg'[i].uid = r'.managedMCG.uid => mcg'[i].del
      <3> HIDE DEF Older
      <3> QED
        BY <1>e, <2>1
    <2> QED
      BY <1>e, <2>3, <2>4 DEF Issued, DeletionSticks
  <1>1. CASE mcg' = mcg /\ uids' = uids
    BY <1>1, <1>a, <1>e DEF Issued, DeletionSticks
  <1>2. ASSUME NEW v \in MCGVersion, mcg' = Write(mcg, v), uids' \in Nat, uids <= uids',
               v.uid <= uids',
               \A w \in MCGVersion : Older(w) /\ w.del /\ v.uid = w.uid => v.del,
               \A i \in DOMAIN mcg : mcg[i].del /\ v.uid = mcg[i].uid => v.del
        PROVE  Issued' /\ DeletionSticks'
    <2>2. ASSUME NEW i \in DOMAIN mcg'
          PROVE  \/ i \in DOMAIN mcg /\ mcg'[i] = mcg[i]
                 \/ i \notin DOMAIN mcg /\ mcg'[i] = v
      BY <1>2, <1>a, WriteLog
    <2>3. ASSUME NEW i \in DOMAIN mcg' PROVE mcg'[i].uid <= uids'
      <3>1. CASE mcg'[i] = v
        BY <1>2, <3>1
      <3>2. CASE i \in DOMAIN mcg /\ mcg'[i] = mcg[i]
        <4>1. mcg[i].uid <= uids /\ mcg[i].uid \in Nat
          BY <1>b, <3>2, MCGVersions DEF Issued
        <4> QED
          BY <1>2, <1>a, <3>2, <4>1
      <3> QED
        BY <2>2, <3>1, <3>2
    <2>4. ASSUME NEW i \in DOMAIN mcg', NEW j \in DOMAIN mcg',
                 i < j, mcg'[i].uid = mcg'[j].uid, mcg'[i].del
          PROVE  mcg'[j].del
      <3>1. i \in DOMAIN mcg /\ mcg'[i] = mcg[i]
        BY <1>2, <1>a, <2>4, WriteLog
      <3>2. CASE j \in DOMAIN mcg /\ mcg'[j] = mcg[j]
        BY <2>4, <3>1, <3>2 DEF DeletionSticks
      <3>3. CASE mcg'[j] = v
        BY <1>2, <2>4, <3>1, <3>3
      <3> QED
        BY <2>2, <3>2, <3>3
    <2>5. ASSUME NEW w \in MCGVersion, NEW i \in DOMAIN mcg', Older(w), w.del,
                 mcg'[i].uid = w.uid
          PROVE  mcg'[i].del
      BY <1>2, <2>2, <2>5
    <2> QED
      BY <1>2, <1>e, <2>3, <2>4, <2>5
  <1>3. ASSUME NEW v \in MCGVersion, mcg' = Write(mcg, v), uids' = uids, Evolves(v)
        PROVE  Issued' /\ DeletionSticks'
    <2>1. v.uid <= uids' /\ uids' \in Nat /\ uids <= uids'
      BY <1>3, <1>a, <1>b DEF Evolves, Issued
    <2>2. \A w \in MCGVersion : Older(w) /\ w.del /\ v.uid = w.uid => v.del
      BY <1>3, <1>b, MCGVersions DEF Evolves
    <2>3. \A i \in DOMAIN mcg : mcg[i].del /\ v.uid = mcg[i].uid => v.del
      BY <1>3, <1>b, <1>d, MCGVersions DEF Evolves
    <2> QED
      BY <1>2, <1>3, <2>1, <2>2, <2>3
  <1>4. ASSUME NEW v \in MCGVersion, mcg' = Write(mcg, v), uids' = uids + 1,
               v.uid = uids + 1, ~v.del
        PROVE  Issued' /\ DeletionSticks'
    <2>1. v.uid <= uids' /\ uids' \in Nat /\ uids <= uids'
      BY <1>4, <1>a
    <2>2. \A w \in MCGVersion : w.uid <= uids => w.uid # v.uid
      BY <1>4, <1>a, MCGVersions
    <2>3. \A w \in MCGVersion : Older(w) /\ w.del /\ v.uid = w.uid => v.del
      BY <2>2
    <2>4. \A i \in DOMAIN mcg : mcg[i].del /\ v.uid = mcg[i].uid => v.del
      BY <1>b, <2>2 DEF Issued
    <2> QED
      BY <1>2, <1>4, <2>1, <2>3, <2>4
  <1>5. CASE mcg' = Deliver(mcg) /\ Lagging(mcg) /\ uids' = uids
    <2>2. \A i \in DOMAIN mcg' : i \in Nat /\ i + 1 \in DOMAIN mcg /\ mcg'[i] = mcg[i + 1]
      BY <1>5, <1>a, DeliverLog
    <2>3. \A i \in DOMAIN mcg' : mcg'[i].uid <= uids'
      BY <1>5, <2>2 DEF Issued
    <2>4. ASSUME NEW i \in DOMAIN mcg', NEW j \in DOMAIN mcg',
                 i < j, mcg'[i].uid = mcg'[j].uid, mcg'[i].del
          PROVE  mcg'[j].del
      <3>1. i + 1 < j + 1
        BY <2>2, <2>4
      <3> QED
        BY <2>2, <2>4, <3>1 DEF DeletionSticks
    <2>5. ASSUME NEW w \in MCGVersion, NEW i \in DOMAIN mcg', Older(w), w.del,
                 mcg'[i].uid = w.uid
          PROVE  mcg'[i].del
      BY <2>2, <2>5
    <2> QED
      BY <1>5, <1>a, <1>e, <2>3, <2>4, <2>5
  <1>6. CASE mcg' = Relist(mcg) /\ uids' = uids
    <2>1. DOMAIN mcg' = {1} /\ mcg'[1] = Current(mcg)
      BY <1>6, <1>a, RelistLog
    <2>2. ASSUME NEW w \in MCGVersion, NEW i \in DOMAIN mcg', Older(w), w.del,
                 mcg'[i].uid = w.uid
          PROVE  mcg'[i].del
      BY <1>b, <2>1, <2>2
    <2> QED
      BY <1>6, <1>a, <1>b, <1>e, <2>1, <2>2 DEF Issued
  <1> QED
    BY <1>1, <1>3, <1>4, <1>5, <1>6 DEF LogStep

\* What the pass has decided, what its copy is worth, and that deletions last.
CopyInv == TypeOK /\ Decided /\ FreshCopy /\ Issued /\ DeletionSticks

\* The strengthened invariant holds at the start...
LEMMA CopyInvInit == Init => CopyInv
  <1> SUFFICES ASSUME Init PROVE CopyInv
    OBVIOUS
  <1>1. TypeOK
    BY InitType
  <1>2. DOMAIN mcg = {1} /\ mcg[1] = NoMCG /\ uids = 0
    BY SyncedLog, MCGVersions DEF Init
  <1>3. pc = "down" /\ r.managedMCG = NoMCG /\ ~r.fresh
    BY DEF Init, InitializedReconciler
  <1>4. pc \in Stopped
    BY <1>3 DEF Stopped
  <1>5. Decided /\ FreshCopy
    BY <1>3, <1>4, Apart DEF Decided, FreshCopy
  <1>6. Issued /\ DeletionSticks
    BY <1>2, <1>3, MCGVersions DEF Issued, DeletionSticks
  <1> QED
    BY <1>1, <1>5, <1>6 DEF CopyInv

\* ...and every step keeps it.
LEMMA CopyInvStep == CopyInv /\ [Next]_vars => CopyInv'
  <1> SUFFICES ASSUME CopyInv, [Next]_vars PROVE CopyInv'
    OBVIOUS
  <1>1. CASE Next
    <2>1. TypeOK'
      BY <1>1, PassType, ProcessType, ClusterType DEF CopyInv, Next
    <2>2. LogStep /\ CopyStep /\ Decided' /\ FreshCopy'
      BY <1>1, CopyInvariants DEF CopyInv
    <2> QED
      BY <2>1, <2>2, SticksStep DEF CopyInv
  <1>2. CASE UNCHANGED vars
    BY <1>2 DEF vars, cr, nb, stores, addon, process, CopyInv, TypeOK, Decided, FreshCopy,
                Issued, DeletionSticks, Current, Running
  <1> QED
    BY <1>1, <1>2

\* The state of the operator and of the cluster is well-typed in every
\* behaviour: no step of a pass, of the API server or of a user produces an
\* object in deletion without a finalizer, or a version of an absent object.
THEOREM TypeCorrect == Spec => []TypeOK
  <1>1. Spec => []CopyInv
    BY CopyInvInit, CopyInvStep, PTL DEF Spec
  <1>2. CopyInv => TypeOK
    BY DEF CopyInv
  <1> QED
    BY <1>1, <1>2, PTL

\* removeNoobaa and removeManagedMCG only ever run for a ManagedMCG that is in
\* deletion at the server or gone, with any number of failures, crashes,
\* deletions and re-creations, and however far the caches lag behind.
THEOREM TeardownSafe == Spec => []TeardownNeverOnActive
  <1>1. Spec => []CopyInv
    BY CopyInvInit, CopyInvStep, PTL DEF Spec
  <1>2. CopyInv => TeardownNeverOnActive
    <2>1. TypeOK => Len(mcg) \in DOMAIN mcg
      BY LogElements DEF TypeOK
    <2> QED
      BY <2>1 DEF CopyInv, Decided, DeletionSticks, TeardownNeverOnActive, Current
  <1> QED
    BY <1>1, <1>2, PTL
=============================================================================
