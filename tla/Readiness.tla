----------------------------- MODULE Readiness ------------------------------
(***************************************************************************)
(* The readiness server of readinessProbe/ beside the operator: a process  *)
(* of its own that answers the kubelet from the status the operator has    *)
(* stored in the ManagedMCG.  It keeps nothing and has no cache, so it has *)
(* neither variables nor actions: its answer at any moment is a function   *)
(* of what the API server holds.  What can be wrong is the status, which a *)
(* pass computes from lagging reads and writes at its very end.            *)
(***************************************************************************)
EXTENDS ManagedMCG

\* Mutant: a ManagedMCG whose status has been written is taken for ready.
IsReadyHasty(v) == v.status # "none"

\* isReady: the stored states of all four components.
IsReady(v) == v.status = "ready"

\* The handler of /readyz/: a ManagedMCG that cannot be read is an error.
Answer ==
  IF Current(mcg).uid = 0 THEN "InternalServerError"
  ELSE IF IsReady(Current(mcg)) THEN "OK" ELSE "ServiceUnavailable"
-----------------------------------------------------------------------------
\* Properties.

\* The answer turns to OK only by the status update of a pass that has itself
\* read every component as Ready, for the ManagedMCG instance that is asked
\* about: never by a pass that began with a predecessor of the same name, and
\* never by a status that adding the finalizer has brought back.
ReadyFirstHand ==
  [][Answer # "OK" /\ Answer' = "OK" =>
       r.ready /\ r.managedMCG.uid = Current(mcg).uid]_vars

\* The answer follows the components: if one of them stays down the server
\* stops answering OK, and if all of them stay up beside a ManagedMCG it goes
\* back to OK, though nobody watches the components, passes fail before and
\* after they have computed the status, and its update may be a conflict.
\* Without the CSV there is no operator that would report anything.
AnswerFollows ==
  /\ <>[](csv /\ ~AllReady) => <>[](Answer # "OK")
  /\ <>[](csv /\ AllReady /\ Current(mcg).uid # 0) => <>[](Answer = "OK")
=============================================================================
