------------------------- MODULE MCAlertReceivers ---------------------------
(***************************************************************************)
(* AlertReceivers for TLC.                                                 *)
(***************************************************************************)
EXTENDS AlertReceivers

CONSTANTS v1, v2

Versions == {v1, v2}
AllHazards == HazardKind
=============================================================================
