--------------------------- MODULE MCBucketClaims ---------------------------
(***************************************************************************)
(* BucketClaims for TLC: the bucket classes of each run.                   *)
(***************************************************************************)
EXTENDS BucketClaims

CONSTANTS c1, c2

\* One event waits behind another.
TwoClasses == {c1, c2}

OneClass == {c1}
=============================================================================
