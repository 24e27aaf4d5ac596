---------------------------- MODULE MCResources -----------------------------
(***************************************************************************)
(* Resources for TLC: the objects that users touch, the ones that are      *)
(* created first, and the adverse events of each run.                      *)
(***************************************************************************)
EXTENDS Resources

\* The watched object that a pass writes last, and a rule of somebody else.
WatchedObjects == {"ingressNetworkPolicy", "foreignRule"}

\* The first object of a pass, and a rule that is created after the step that
\* labels rules.
InstalledLate == {"consolePlugin", "dmsRule"}

RestHazards == {"fault", "crash", "edit", "rhobs", "plugins"}

\* Objects nobody watches, and a rule in the one state that triggers nothing.
UnwatchedObjects == {"prometheus", "originalRule"}

ConvergeHazards == {"fault", "edit", "block", "ocs", "rhobs", "unready"}
=============================================================================
