--------------------------- MODULE Readiness_proofs ---------------------------
(***************************************************************************)
(* Where an answer OK of the readiness server comes from, for every value  *)
(* of the constants: through failures, crashes, deletions, re-creations    *)
(* and edits behind the finalizer's back.                                  *)
(***************************************************************************)
EXTENDS Readiness, ManagedMCG_proofs

\* A copy that may still be stored and says "ready" says so by what its own
\* pass has read, or only repeats what the server holds: the cache's status
\* before it is computed, and the one that adding the finalizer brings back.
Honest ==
  r.fresh /\ r.managedMCG.status = "ready" => r.ready \/ Current(mcg).status = "ready"

\* A step that stores no status "ready" and, if the copy may be stored after
\* it, leaves the copy and the server's status alone.
Silent ==
  /\ Current(mcg)'.status = "ready" => Current(mcg).status = "ready"
  /\ r'.fresh => /\ r.fresh /\ r'.ready = r.ready
                 /\ r'.managedMCG.status = r.managedMCG.status
                 /\ Current(mcg)'.status = Current(mcg).status

\* Deletes, dropped finalizers and new objects bring no status.
LEMMA StatusVersions ==
  /\ NoMCG.status = "none" /\ \A u : NewMCG(u).status = "none"
  /\ \A u : [NoMCG EXCEPT !.uid = u].status = "none"
  /\ \A v \in MCGVersion :
       /\ Deleted(v, NoMCG).status \in {v.status, "none"}
       /\ Unfinalized(v, NoMCG).status \in {v.status, "none"}
       /\ v.status = "ready" => v.uid # 0
  BY DEF Deleted, Unfinalized, NoMCG, NewMCG, MCGVersion

\* Only four steps are not silent.
LEMMA SilentSteps ==
  ASSUME TypeOK, Decided, Next
  PROVE  Silent \/ Reconcile \/ ReconcilePhases \/ AddManagedMCG \/ Finish
  <1> USE DEF cr, nb, stores, addon, process
  <1>a. /\ r \in Reconciler /\ mcg \in Log(MCGVersion) /\ uids \in Nat
        /\ Current(mcg) \in MCGVersion
    BY ReadTypes DEF TypeOK
  <1>1. CASE Within
    BY <1>1 DEF Within, Silent, Current
  <1>2. ASSUME NEW v \in MCGVersion, v.status \in {Current(mcg).status, "none"},
               mcg' = Write(mcg, v),
               r'.fresh => v = Current(mcg) /\ r.fresh /\ r'.ready = r.ready
                           /\ r'.managedMCG.status = r.managedMCG.status
        PROVE  Silent
    <2>1. Current(mcg)' = v
      BY <1>2, <1>a, WriteLog
    <2> QED
      BY <1>2, <2>1 DEF Silent
  <1>3. ASSUME mcg' = mcg \/ Current(mcg)' = Current(mcg), ~r'.fresh \/ r' = r
        PROVE  Silent
    BY <1>3 DEF Silent, Current
  <1>4. CASE DeleteManagedMCG
    <2> DEFINE v == Deleted(Current(mcg), NoMCG)
    <2>1. v \in MCGVersion /\ v.status \in {Current(mcg).status, "none"}
          /\ mcg' = Write(mcg, v)
      BY <1>4, <1>a, MCGVersions, StatusVersions DEF DeleteManagedMCG
    <2>2. /\ r'.fresh => v = Current(mcg) /\ r.fresh
          /\ r'.ready = r.ready /\ r'.managedMCG = r.managedMCG
      BY <1>4, <1>a DEF DeleteManagedMCG, Reply, Goto, Failed, Reconciler
    <2> HIDE DEF v
    <2> QED
      BY <1>2, <2>1, <2>2
  <1>5. CASE RemoveManagedMCG
    <2> DEFINE v == Unfinalized(Current(mcg), NoMCG)
    <2>1. CASE r.fresh
      <3>1. v \in MCGVersion /\ v.status \in {Current(mcg).status, "none"}
            /\ mcg' = Write(mcg, v)
        BY <1>5, <1>a, <2>1, MCGVersions, StatusVersions DEF RemoveManagedMCG
      <3>2. ~r'.fresh
        BY <1>5, <1>a, <2>1 DEF RemoveManagedMCG, Reply, Goto, Failed, Reconciler
      <3> HIDE DEF v
      <3> QED
        BY <1>2, <3>1, <3>2
    <2>2. CASE ~r.fresh
      BY <1>3, <1>5, <1>a, <2>2 DEF RemoveManagedMCG, Refused, Goto, Failed, Reconciler
    <2> QED
      BY <2>1, <2>2
  <1>6. CASE Crash \/ OLMRemovesOperator
    <2>1. mcg' = mcg /\ ~r'.fresh
      BY <1>6 DEF Crash, OLMRemovesOperator, Goto, InitializedReconciler
    <2> QED
      BY <1>3, <2>1
  <1>7. CASE EnsureManagedMCG
    <2>1. ~r.fresh /\ r' = r
      BY <1>7 DEF EnsureManagedMCG, Decided, Stopped
    <2>2. CASE Current(mcg).uid = 0
      <3>1. uids + 1 \in Nat /\ uids + 1 # 0
        BY <1>a
      <3>2. NewMCG(uids + 1) \in MCGVersion
        BY <3>1, MCGVersions
      <3>3. mcg' = Write(mcg, NewMCG(uids + 1))
        BY <1>7, <2>2 DEF EnsureManagedMCG
      <3> QED
        BY <1>2, <2>1, <3>2, <3>3, StatusVersions
    <2>3. CASE Current(mcg).uid # 0
      BY <1>3, <1>7, <2>1, <2>3 DEF EnsureManagedMCG
    <2> QED
      BY <2>2, <2>3
  <1>8. CASE StartManager \/ DeliverMCG
    <2>1. Current(mcg)' = Current(mcg) /\ r' = r
      BY <1>8, <1>a, RelistLog, DeliverLog DEF StartManager, DeliverMCG
    <2> QED
      BY <1>3, <2>1
  <1>9. ASSUME NEW v \in MCGVersion, v.status \in {Current(mcg).status, "none"}, WriteMCG(v)
        PROVE  Silent
    <2>1. mcg' = Write(mcg, v) /\ ~r'.fresh
      BY <1>9, <1>a DEF WriteMCG, Reconciler
    <2> QED
      BY <1>2, <1>9, <2>1
  <1>10. CASE UserDeletesMCG \/ UserStripsFinalizer
    BY <1>9, <1>10, <1>a, MCGVersions, StatusVersions DEF UserDeletesMCG, UserStripsFinalizer
  <1>11. CASE UserCreatesMCG
    <2>1. uids + 1 \in Nat /\ uids + 1 # 0
      BY <1>a
    <2>2. [NoMCG EXCEPT !.uid = uids + 1] \in MCGVersion
      BY <2>1, MCGVersions
    <2> QED
      BY <1>9, <1>11, <2>2, StatusVersions DEF UserCreatesMCG
  <1> QED
    BY <1>1, <1>4, <1>5, <1>6, <1>7, <1>8, <1>10, <1>11, PassWithin, AroundWithin
       DEF Next, Pass, Process, Delivery, Cluster

\* Every step keeps the copy honest.
LEMMA HonestStep ==
  ASSUME TypeOK, Decided, FreshCopy, Honest, Next
  PROVE  Honest'
  <1> USE DEF cr, nb, stores, addon, process
  <1>a. /\ r \in Reconciler /\ mcg \in Log(MCGVersion) /\ r.managedMCG \in MCGVersion
        /\ Current(mcg) \in MCGVersion /\ Cached(mcg) \in MCGVersion
    BY ReadTypes DEF TypeOK
  <1>1. CASE Silent
    BY <1>1 DEF Silent, Honest
  <1>2. CASE Reconcile
    <2>1. ~Lagging(mcg) => Cached(mcg) = Current(mcg)
      BY <1>a, LogElements DEF Lagging, Cached, Current
    <2>2. mcg' = mcg /\ (r' = r \/ (r'.managedMCG = Cached(mcg) /\ r'.fresh = ~Lagging(mcg)))
      BY <1>2 DEF Reconcile, Goto, InitializedReconciler
    <2>3. Current(mcg)' = Current(mcg)
      BY <2>2 DEF Current
    <2>4. CASE r' = r
      BY <2>3, <2>4 DEF Honest
    <2>5. CASE r'.managedMCG = Cached(mcg) /\ r'.fresh = ~Lagging(mcg)
      BY <2>1, <2>3, <2>5 DEF Honest
    <2> QED
      BY <2>2, <2>4, <2>5
  <1>3. CASE ReconcilePhases
    <2>1. PICK found, state, status : Observe(found, state, status)
      BY <1>3 DEF ReconcilePhases
    <2>2. r'.managedMCG.status = (IF r.managedMCG.uid = 0 THEN "none" ELSE status)
          /\ r'.ready = (status = "ready")
      BY <1>a, <2>1 DEF Observe, Goto, Reconciler, MCGVersion
    <2> QED
      BY <2>2 DEF Honest
  <1>4. CASE AddManagedMCG
    <2> DEFINE v == [Current(mcg) EXCEPT !.fin = TRUE]
               st == IF v.status = "none" THEN r.managedMCG.status ELSE v.status
    <2>1. CASE r.fresh
      <3>1. Current(mcg).uid # 0
        BY <1>4, <1>a, <2>1 DEF AddManagedMCG, Decided, FreshCopy, ActivePass
      <3>2. v \in MCGVersion /\ v.status = Current(mcg).status
        BY <1>a, <3>1, MCGVersions DEF MCGVersion
      <3>3. [v EXCEPT !.status = st].status = st
        BY <3>2 DEF MCGVersion
      <3>4. mcg' = Write(mcg, v)
        BY <1>4, <2>1 DEF AddManagedMCG
      <3>5. Reply("updateAddonParams", [r EXCEPT !.managedMCG = [v EXCEPT !.status = st]],
                  [r EXCEPT !.fresh = FALSE])
        BY <1>4, <2>1 DEF AddManagedMCG
      <3>6. st = "ready" => r.managedMCG.status = "ready" \/ v.status = "ready"
        OBVIOUS
      <3>7. v.status = "none" /\ st = "ready" => r.ready
        <4> SUFFICES ASSUME v.status = "none", st = "ready" PROVE r.ready
          OBVIOUS
        <4>1. r.managedMCG.status = "ready" /\ Current(mcg).status = "none"
          BY <3>2
        <4> QED
          BY <2>1, <4>1 DEF Honest
      <3>8. v.status # "none" => st = v.status
        OBVIOUS
      <3> HIDE DEF v, st
      <3>9. Current(mcg)' = v
        BY <1>a, <3>2, <3>4, WriteLog
      <3>10. \/ r'.managedMCG.status = st /\ r'.ready = r.ready
             \/ ~r'.fresh
        BY <1>a, <3>3, <3>5 DEF Reply, Goto, Failed, Reconciler
      <3> QED
        BY <3>7, <3>8, <3>9, <3>10 DEF Honest
    <2>2. CASE ~r.fresh
      BY <1>4, <1>a, <2>2 DEF AddManagedMCG, Refused, Goto, Failed, Reconciler, Honest
    <2> QED
      BY <2>1, <2>2
  <1>5. CASE Finish
    BY <1>5 DEF Finish, Goto, InitializedReconciler, Honest
  <1> QED
    BY <1>1, <1>2, <1>3, <1>4, <1>5, SilentSteps

\* An answer turns to OK by a pass that has read every component as Ready.
LEMMA AnswerStep ==
  ASSUME TypeOK, Decided, FreshCopy, Honest, Next, Answer # "OK", Answer' = "OK"
  PROVE  r.ready /\ r.managedMCG.uid = Current(mcg).uid
  <1> USE DEF cr, nb, stores, addon, process
  <1>a. /\ r \in Reconciler /\ mcg \in Log(MCGVersion) /\ r.managedMCG \in MCGVersion
        /\ Current(mcg) \in MCGVersion
    BY ReadTypes DEF TypeOK
  <1>b. Current(mcg).status # "ready" /\ Current(mcg)'.status = "ready"
    <2>1. Current(mcg)'.status = "ready"
      BY DEF Answer, IsReady
    <2>2. Current(mcg).status = "ready" => Current(mcg).uid # 0
      BY <1>a, StatusVersions
    <2> QED
      BY <2>1, <2>2 DEF Answer, IsReady
  <1>1. CASE Silent
    BY <1>1, <1>b DEF Silent
  <1>2. CASE Reconcile \/ ReconcilePhases
    BY <1>2, <1>b DEF Reconcile, ReconcilePhases, Current
  <1>3. CASE AddManagedMCG
    <2>1. CASE r.fresh
      <3> DEFINE v == [Current(mcg) EXCEPT !.fin = TRUE]
      <3>1. Current(mcg).uid # 0
        BY <1>3, <1>a, <2>1 DEF AddManagedMCG, Decided, FreshCopy, ActivePass
      <3>2. v \in MCGVersion /\ v.status = Current(mcg).status
        BY <1>a, <3>1, MCGVersions DEF MCGVersion
      <3>3. mcg' = Write(mcg, v)
        BY <1>3, <2>1 DEF AddManagedMCG
      <3> HIDE DEF v
      <3> QED
        BY <1>a, <1>b, <3>2, <3>3, WriteLog
    <2>2. CASE ~r.fresh
      BY <1>3, <1>b, <2>2 DEF AddManagedMCG, Current
    <2> QED
      BY <2>1, <2>2
  <1>4. CASE Finish
    <2> DEFINE v == [Current(mcg) EXCEPT !.status = r.managedMCG.status]
    <2>1. mcg' # mcg
      BY <1>b DEF Current
    <2>2. r.fresh /\ r.managedMCG.uid # 0 /\ mcg' = Write(mcg, v)
      BY <1>4, <2>1 DEF Finish, StatusAccepted
    <2>3. r.managedMCG.uid = Current(mcg).uid
      BY <2>2 DEF FreshCopy
    <2>4. v \in MCGVersion /\ v.status = r.managedMCG.status
      <3>1. r.managedMCG.status \in {"none", "ready", "notReady"}
        BY <1>a DEF MCGVersion
      <3> QED
        BY <1>a, <2>2, <2>3, <3>1, MCGVersions DEF MCGVersion
    <2> HIDE DEF v
    <2>5. Current(mcg)' = v
      BY <1>a, <2>2, <2>4, WriteLog
    <2> QED
      BY <1>b, <2>2, <2>3, <2>4, <2>5 DEF Honest
  <1> QED
    BY <1>1, <1>2, <1>3, <1>4, SilentSteps

\* The readiness server turns to OK only through the status update of a pass
\* that has itself read every component as Ready for the ManagedMCG that is
\* asked about.
THEOREM ReadySafe == Spec => ReadyFirstHand
  <1> DEFINE Inv == CopyInv /\ Honest
  <1>1. Init => Inv
    <2>1. Init => ~r.fresh
      BY DEF Init, InitializedReconciler
    <2> QED
      BY <2>1, CopyInvInit DEF Honest
  <1>2. Inv /\ [Next]_vars => Inv'
    <2> SUFFICES ASSUME Inv, [Next]_vars PROVE Inv'
      OBVIOUS
    <2>1. CASE Next
      BY <2>1, CopyInvStep, HonestStep DEF CopyInv
    <2>2. CASE UNCHANGED vars
      BY <2>2, CopyInvStep DEF vars, cr, process, Honest, Current
    <2> QED
      BY <2>1, <2>2
  <1>3. Inv /\ [Next]_vars =>
          [Answer # "OK" /\ Answer' = "OK" =>
             r.ready /\ r.managedMCG.uid = Current(mcg).uid]_vars
    <2> SUFFICES ASSUME Inv, Next, Answer # "OK", Answer' = "OK"
                 PROVE  r.ready /\ r.managedMCG.uid = Current(mcg).uid
      OBVIOUS
    <2> QED
      BY AnswerStep DEF CopyInv
  <1> HIDE DEF Inv
  <1> QED
    BY <1>1, <1>2, <1>3, PTL DEF Spec, ReadyFirstHand
=============================================================================
