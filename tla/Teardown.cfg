\* Teardown when no call fails, and readiness, for ManagedMCGs that may lack the
\* finalizer: two adverse events, the users' objects among them.
CONSTANTS
  prometheus = prometheus
  o1 = o1
  Component = {prometheus}
  Obj = {o1}
  Preexisting = {}
  Hazards <- TeardownHazards
  MaxHazards = 2
SPECIFICATION Spec
CHECK_DEADLOCK FALSE
INVARIANTS
  StoresReleased
  TeardownNeverOnActive
  StrandedOnlyUnseen
PROPERTIES
  ReadyFirstHand
