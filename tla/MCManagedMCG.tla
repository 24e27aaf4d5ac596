---------------------------- MODULE MCManagedMCG ----------------------------
(***************************************************************************)
(* ManagedMCG for TLC: the adverse events each run lets happen.  A run     *)
(* leaves out what its question does not depend on.                        *)
(***************************************************************************)
EXTENDS Readiness

\* What can happen to the operator itself.
OperatorFailures == {"fault", "crash"}

\* Everything but edits behind the finalizer's back and objects of users.
LifecycleHazards == HazardKind \ {"createMCG", "stripFinalizer", "createObj"}

\* No call fails: the one case in which a teardown is held to release stores.
\* ManagedMCGs may be without the finalizer, created by hand or stripped of it,
\* and a component may go down in between: an earlier status gets into a pass.
TeardownHazards ==
  {"createObj", "deleteMCG", "deleteNooBaa", "unready", "createMCG", "stripFinalizer"}

\* An uninstallation begins with the key, nobody deletes the ManagedMCG by hand.
UninstallHazards == OperatorFailures \cup {"unready", "block"}

DeletionHazards == OperatorFailures \cup {"deleteMCG"}
=============================================================================
