---------------------------- MODULE Stores_proofs ----------------------------
(***************************************************************************)
(* removeNoobaa releases every store it can see before the finalizer goes, *)
(* for any number of stores and of users' edits, provided that no call     *)
(* fails and that the process survives the pass.                           *)
(***************************************************************************)
EXTENDS ManagedMCG_proofs

\* No call of a pass fails and the process does not crash.
NoFailures == Hazards \cap {"fault", "crash"} = {}

\* The steps from the deletion of NooBaa to the end of the teardown, and the
\* end of the process should OLM remove it in between.
Owing ==
  [BackingStore   |-> {"listBackingStore", "deleteBackingStore", "removed"},
   NamespaceStore |-> {"listBackingStore", "deleteBackingStore",
                       "listNamespaceStore", "deleteNamespaceStore", "removed"}]

\* What is owed exists in every version the cache may still see and is not in
\* deletion; it is owed only until the loop over its kind has ended, and a
\* loop has everything that is owed before it.
Owed ==
  \A s \in Store :
    /\ \A i \in DOMAIN objs[s] : owed[s] \subseteq objs[s][i]
    /\ owed[s] \cap deleting[s] = {}
    /\ pc \notin Owing[s] => owed[s] = {}
    /\ pc = DeleteStep[s] => owed[s] \subseteq r.todo

\* Stores are of two kinds.
LEMMA Stores ==
  /\ Store = {"BackingStore", "NamespaceStore"} /\ Store \subseteq Kind
  /\ DOMAIN DeleteStep = Kind
  /\ \A s \in Store : DeleteStep[s] \in Owing[s] /\ ListStep[s] \in Owing[s]
                      /\ "removed" \in Owing[s] /\ "removed" # DeleteStep[s]
                      /\ Owing[s] \subseteq Owing["NamespaceStore"]
  BY DEF Store, Kind, Owing, DeleteStep, ListStep

\* While nothing is owed, nothing can go wrong.
LEMMA NothingOwed ==
  ASSUME Owed, owed' = owed, pc \notin Owing["NamespaceStore"]
  PROVE  Owed'
  <1>1. \A s \in Store : owed'[s] = {}
    BY Stores DEF Owed
  <1> QED
    BY <1>1 DEF Owed

\* What happens around a pass leaves what is owed where it is.
LEMMA AroundOwed ==
  ASSUME Owed, owed' = owed, pc' = pc, r'.todo = r.todo,
         \A s \in Store :
           /\ \A i \in DOMAIN objs[s]' : owed[s] \subseteq objs[s]'[i]
           /\ deleting'[s] \subseteq deleting[s]
  PROVE  Owed'
  BY DEF Owed

\* The same when neither objects nor their deletions change.
LEMMA StillOwed ==
  ASSUME Owed, UNCHANGED stores, pc' = pc, r'.todo = r.todo
  PROVE  Owed'
  BY AroundOwed DEF Owed, stores

\* Every step keeps what is owed.
LEMMA OwedStep ==
  ASSUME NoFailures, TypeOK, Owed, Next
  PROVE  Owed'
  <1> USE DEF cr, nb, addon, process
  <1>a. /\ r \in Reconciler /\ owed \in [Store -> SUBSET Obj]
        /\ deleting \in [Kind -> SUBSET Obj] /\ objs \in [Kind -> Log(SUBSET Obj)]
    BY DEF TypeOK
  <1>b. ~Spend("fault") /\ ~Spend("crash")
    BY DEF NoFailures, Spend
  <1>c. \A k \in Kind : /\ Cached(objs[k]) = objs[k][1] /\ 1 \in DOMAIN objs[k]
                        /\ Current(objs[k]) = objs[k][Len(objs[k])]
                        /\ Len(objs[k]) \in DOMAIN objs[k]
                        /\ Current(objs[k]) \in SUBSET Obj
    BY <1>a, LogElements DEF Cached, Current
  <1>1. CASE \/ Reconcile \/ ReconcilePhases \/ AddManagedMCG \/ UpdateAddonParams
             \/ ReconcileNoobaa \/ ReconcileRest \/ DeleteManagedMCG \/ RemoveManagedMCG
             \/ PollBucketClass \/ UpdateNooBaa \/ RemoveOLMComponents \/ Finish
             \/ EnsureManagedMCG \/ StartManager
    <2>1. owed' = owed
      BY <1>1 DEF stores, Reconcile, ReconcilePhases, AddManagedMCG, UpdateAddonParams,
                  ReconcileNoobaa, ReconcileRest, DeleteManagedMCG, RemoveManagedMCG,
                  PollBucketClass, UpdateNooBaa, RemoveOLMComponents, Finish,
                  EnsureManagedMCG, StartManager
    <2>2. pc \in {"idle", "reconcilePhases", "addManagedMCG", "updateAddonParams",
                  "reconcileNoobaa", "reconcileRest", "deleteManagedMCG",
                  "removeManagedMCG", "pollBucketClass", "updateNooBaa",
                  "removeOLMComponents", "finish", "down", "starting"}
      BY <1>1 DEF Reconcile, ReconcilePhases, AddManagedMCG, UpdateAddonParams,
                  ReconcileNoobaa, ReconcileRest, DeleteManagedMCG, RemoveManagedMCG,
                  PollBucketClass, UpdateNooBaa, RemoveOLMComponents, Finish,
                  EnsureManagedMCG, StartManager
    <2> QED
      BY <2>1, <2>2, NothingOwed DEF Owing
  <1>2. ASSUME NEW k \in Kind, ListObjects(k) PROVE Owed'
    <2>1. /\ UNCHANGED stores /\ pc = ListStep[k]
          /\ r'.todo = Cached(objs[k])
          /\ pc' = IF Cached(objs[k]) = {} THEN AfterDelete(k) ELSE DeleteStep[k]
      BY <1>2, <1>a DEF ListObjects, Goto, Reconciler
    <2>2. CASE k = "BucketClass"
      BY <2>1, <2>2, NothingOwed DEF stores, ListStep, Owing
    <2>3. CASE k = "BackingStore"
      <3>1. pc' \in {"listNamespaceStore", "deleteBackingStore"}
            /\ (pc' = "listNamespaceStore" => Cached(objs[k]) = {})
        BY <2>1, <2>3 DEF AfterDelete, ListStep, DeleteStep
      <3>2. owed["BackingStore"] \subseteq Cached(objs["BackingStore"])
        BY <1>c, Stores DEF Owed
      <3> QED
        BY <2>1, <2>3, <3>1, <3>2, Stores DEF Owed, Owing, stores, DeleteStep
    <2>4. CASE k = "NamespaceStore"
      <3>1. pc' \in {"finish", "deleteNamespaceStore"}
            /\ (pc' = "finish" => Cached(objs[k]) = {})
        BY <2>1, <2>4 DEF AfterDelete, DeleteStep
      <3>2. owed["NamespaceStore"] \subseteq Cached(objs["NamespaceStore"])
            /\ owed["BackingStore"] = {}
        BY <1>c, <2>1, <2>4, Stores DEF Owed, Owing, ListStep
      <3> QED
        BY <2>1, <2>4, <3>1, <3>2, Stores DEF Owed, Owing, stores, DeleteStep
    <2> QED
      BY <2>2, <2>3, <2>4 DEF Kind
  <1>3. ASSUME NEW k \in Kind, DeleteObject(k) PROVE Owed'
    <2>1. PICK o \in r.todo :
            /\ deleting' = [deleting EXCEPT ![k] = @ \cup ({o} \cap Current(objs[k]))]
            /\ owed' = [s \in Store |-> IF s = k THEN owed[s] \ {o} ELSE owed[s]]
            /\ pc' = IF r.todo \ {o} = {} THEN AfterDelete(k) ELSE pc
            /\ r'.todo = r.todo \ {o}
      BY <1>3, <1>a, <1>b DEF DeleteObject, Reply, Goto, Reconciler
    <2>2. objs' = objs /\ pc = DeleteStep[k]
      BY <1>3 DEF DeleteObject
    <2>3. \A s \in Store :
            /\ \A i \in DOMAIN objs[s]' : owed'[s] \subseteq objs[s]'[i]
            /\ owed'[s] \cap deleting'[s] = {}
            /\ s # k => owed'[s] = owed[s]
            /\ s = k => owed'[s] = owed[s] \ {o}
      BY <1>a, <2>1, <2>2, Stores DEF Owed
    <2>4. CASE k = "BucketClass"
      <3>1. \A s \in Store : owed'[s] = {}
        BY <2>2, <2>3, <2>4, Stores DEF Owed, Owing, DeleteStep
      <3> QED
        BY <2>3, <3>1 DEF Owed
    <2>5. CASE k = "BackingStore"
      <3>1. pc' = (IF r.todo \ {o} = {} THEN "listNamespaceStore" ELSE "deleteBackingStore")
        BY <2>1, <2>2, <2>5 DEF AfterDelete, ListStep, DeleteStep
      <3>2. owed'["BackingStore"] \subseteq r.todo \ {o}
        BY <2>2, <2>3, <2>5, Stores DEF Owed
      <3> QED
        BY <2>1, <2>3, <3>1, <3>2, Stores DEF Owed, Owing, DeleteStep
    <2>6. CASE k = "NamespaceStore"
      <3>1. pc' = (IF r.todo \ {o} = {} THEN "finish" ELSE "deleteNamespaceStore")
        BY <2>1, <2>2, <2>6 DEF AfterDelete, DeleteStep
      <3>2. owed'["NamespaceStore"] \subseteq r.todo \ {o}
        BY <2>2, <2>3, <2>6, Stores DEF Owed
      <3>3. owed'["BackingStore"] = {}
        BY <2>2, <2>3, <2>6, Stores DEF Owed, Owing, DeleteStep
      <3> QED
        BY <2>1, <2>3, <3>1, <3>2, <3>3, Stores DEF Owed, Owing, DeleteStep
    <2> QED
      BY <2>4, <2>5, <2>6 DEF Kind
  <1>4. CASE DeleteNooBaa
    <2>1. /\ objs' = objs /\ deleting' = deleting
          /\ owed' = [s \in Store |->
               {o \in Obj : \A i \in DOMAIN objs[s] : o \in objs[s][i]} \ deleting[s]]
          /\ pc' = "listBackingStore"
      BY <1>4, <1>b DEF DeleteNooBaa, Reply, Goto, ListStep
    <2>2. \A s \in Store : pc' \in Owing[s] /\ pc' # DeleteStep[s]
      BY <2>1, Stores DEF Owing, DeleteStep
    <2>3. \A s \in Store :
            owed'[s] = {o \in Obj : \A i \in DOMAIN objs[s] : o \in objs[s][i]} \ deleting[s]
      BY <2>1
    <2> QED
      BY <2>1, <2>2, <2>3 DEF Owed
  <1>5. ~FailStep /\ ~Crash
    BY <1>b DEF FailStep, Crash
  <1>6. CASE OLMRemovesOperator
    <2>1. UNCHANGED stores /\ pc' = "removed"
      BY <1>6 DEF OLMRemovesOperator, Goto
    <2> QED
      BY <2>1, Stores DEF Owed, stores
  <1>7. CASE DeliverMCG \/ DeliverNooBaa \/ DeliverKey \/ Resync \/ OtherEvent
    BY <1>7, StillOwed DEF DeliverMCG, DeliverNooBaa, DeliverKey, Resync, OtherEvent
  <1>8. ASSUME NEW k \in Kind, DeliverObjects(k) PROVE Owed'
    <2>1. /\ owed' = owed /\ deleting' = deleting /\ pc' = pc /\ r' = r
          /\ Lagging(objs[k])
          /\ \A s \in Kind : objs'[s] = IF s = k THEN Deliver(objs[k]) ELSE objs[s]
      BY <1>8, <1>a DEF DeliverObjects
    <2>2. \A i \in DOMAIN Deliver(objs[k]) :
            i + 1 \in DOMAIN objs[k] /\ Deliver(objs[k])[i] = objs[k][i + 1]
      BY <1>a, <2>1, DeliverLog
    <2>3. ASSUME NEW s \in Store, NEW i \in DOMAIN objs'[s] PROVE owed[s] \subseteq objs'[s][i]
      BY <2>1, <2>2, Stores DEF Owed
    <2> QED
      BY <2>1, <2>3, AroundOwed
  <1>9. ASSUME NEW v, WriteMCG(v) \/ WriteNooBaa(v) PROVE Owed'
    <2>1. UNCHANGED stores /\ pc' = pc /\ r'.todo = r.todo
      BY <1>9, <1>a DEF WriteMCG, WriteNooBaa, Reconciler
    <2> QED
      BY <2>1, StillOwed
  <1>10. CASE UserDeletesMCG \/ UserCreatesMCG \/ UserStripsFinalizer
    BY <1>9, <1>10 DEF UserDeletesMCG, UserCreatesMCG, UserStripsFinalizer
  <1>11. CASE NooBaaReady \/ NooBaaSteps
    BY <1>9, <1>11 DEF NooBaaReady, NooBaaSteps, NooBaaAddsFinalizer, NooBaaFinalized,
                       NooBaaNotReady, UserDeletesNooBaa, NooBaaDrifts
  <1>12. ASSUME NEW k \in Kind, NEW S \in SUBSET Obj, Current(objs[k]) \ S \subseteq deleting[k],
                objs' = [objs EXCEPT ![k] = Write(@, S)],
                owed' = owed, pc' = pc, r' = r,
                \A s \in Kind : deleting'[s] \subseteq deleting[s]
         PROVE  Owed'
    <2>1. \A i \in DOMAIN Write(objs[k], S) :
            \/ Write(objs[k], S)[i] = S
            \/ i \in DOMAIN objs[k] /\ Write(objs[k], S)[i] = objs[k][i]
      BY <1>a, WriteLog
    <2>2. \A s \in Kind : objs'[s] = IF s = k THEN Write(objs[k], S) ELSE objs[s]
      BY <1>12, <1>a
    <2>3. k \in Store => owed[k] \subseteq S
      BY <1>12, <1>c DEF Owed
    <2>4. ASSUME NEW s \in Store, NEW i \in DOMAIN objs'[s] PROVE owed[s] \subseteq objs'[s][i]
      BY <2>1, <2>2, <2>3, <2>4, Stores DEF Owed
    <2> QED
      BY <1>12, <2>4, Stores, AroundOwed
  <1>13. ASSUME NEW k \in Kind, NEW o \in Obj, CreateObject(k, o) PROVE Owed'
    <2>1. Current(objs[k]) \ (Current(objs[k]) \cup {o}) \subseteq deleting[k]
      OBVIOUS
    <2>2. Current(objs[k]) \cup {o} \in SUBSET Obj
      BY <1>c
    <2> QED
      BY <1>12, <1>13, <2>1, <2>2 DEF CreateObject
  <1>14. ASSUME NEW k \in Kind, NEW o \in Obj, FinalizeObject(k, o) PROVE Owed'
    <2>1. Current(objs[k]) \ (Current(objs[k]) \ {o}) \subseteq deleting[k]
      BY <1>14 DEF FinalizeObject
    <2>2. \A s \in Kind : deleting'[s] \subseteq deleting[s]
      BY <1>14, <1>a DEF FinalizeObject
    <2>3. Current(objs[k]) \ {o} \in SUBSET Obj
      BY <1>c
    <2> QED
      BY <1>12, <1>14, <2>1, <2>2, <2>3 DEF FinalizeObject
  <1>15. CASE \/ SetDeletionKey
              \/ \E c \in Component : ComponentReady(c) \/ ComponentFails(c) \/ GarbageCollect(c)
              \/ Unblock \/ \E step \in Blockable : Block(step)
    BY <1>15, StillOwed DEF SetDeletionKey, ComponentReady, ComponentFails, GarbageCollect,
                            Unblock, Block
  <1> QED
    BY <1>1, <1>2, <1>3, <1>4, <1>5, <1>6, <1>7, <1>8, <1>10, <1>11, <1>13, <1>14, <1>15
       DEF Next, Pass, Process, Delivery, Cluster

\* When no call fails and the process survives, every backing store and
\* namespace store that removeNoobaa could see when it deleted NooBaa has been
\* deleted by the time a later pass drops the finalizer.
THEOREM StoresSafe ==
  ASSUME NoFailures
  PROVE  Spec => []StoresReleased
  <1>1. Init => Owed
    <2> SUFFICES ASSUME Init PROVE Owed
      OBVIOUS
    <2>1. pc = "down" /\ \A s \in Store : owed[s] = {}
      BY DEF Init
    <2> QED
      BY <2>1 DEF Owed
  <1>2. TypeOK /\ Owed /\ [Next]_vars => Owed'
    BY OwedStep, StillOwed DEF vars, process
  <1>3. Owed => StoresReleased
    BY Stores DEF Owed, StoresReleased, Owing
  <1> QED
    BY <1>1, <1>2, <1>3, TypeCorrect, PTL DEF Spec
=============================================================================
