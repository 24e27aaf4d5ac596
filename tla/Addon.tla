------------------------------- MODULE Addon --------------------------------
(***************************************************************************)
(* What the operator promises of the add-on, without caches, passes, calls *)
(* that fail or processes that restart: a ManagedMCG stands for the        *)
(* gateway it brought up, goes only after it, and the operator itself goes *)
(* last and only when asked to.  Module ManagedMCG implements this.        *)
(***************************************************************************)

VARIABLES
  phase,      \* of the ManagedMCG: absent, active or deleting
  gateway,    \* there is a NooBaa that was seen to serve a ManagedMCG
  requested,  \* the add-on is to be uninstalled
  installed   \* the operator's ClusterServiceVersion exists

vars == <<phase, gateway, requested, installed>>

Init == phase = "absent" /\ gateway = FALSE /\ requested \in BOOLEAN /\ installed = TRUE

\* Activation follows absence: a deletion is never taken back.
Activate ==
  /\ phase = "absent" /\ phase' = "active"
  /\ UNCHANGED <<gateway, requested, installed>>

RequestDeletion ==
  /\ phase = "active" /\ phase' = "deleting"
  /\ UNCHANGED <<gateway, requested, installed>>

\* The finalizer goes after the gateway.
Release ==
  /\ phase = "deleting" /\ phase' = "absent"
  /\ ~gateway
  /\ UNCHANGED <<gateway, requested, installed>>

\* No gateway without a ManagedMCG to take it down again.
Serve ==
  /\ ~gateway /\ gateway' = TRUE
  /\ phase # "absent"
  /\ UNCHANGED <<phase, requested, installed>>

\* Torn down, or deleted by a user.
Retire ==
  /\ gateway /\ gateway' = FALSE
  /\ UNCHANGED <<phase, requested, installed>>

RequestUninstallation ==
  /\ ~requested /\ requested' = TRUE
  /\ UNCHANGED <<phase, gateway, installed>>

\* Only when asked to, and when nothing is left that needs the operator.
Uninstall ==
  /\ installed /\ installed' = FALSE
  /\ requested /\ phase = "absent" /\ ~gateway
  /\ UNCHANGED <<phase, gateway, requested>>

Next == Activate \/ RequestDeletion \/ Release \/ Serve \/ Retire
          \/ RequestUninstallation \/ Uninstall

Spec == Init /\ [][Next]_vars
=============================================================================
