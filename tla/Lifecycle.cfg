\* The operator against failures, crashes and users, two of them per behaviour.
CONSTANTS
  prometheus = prometheus
  Component = {prometheus}
  Obj = {}
  Preexisting = {}
  Hazards <- LifecycleHazards
  MaxHazards = 2
SPECIFICATION Spec
CHECK_DEADLOCK FALSE
INVARIANTS
  TeardownNeverOnActive
  ActivePassHasItsCR
  StrandedOnlyUnseen
  CSVDeletedLast
PROPERTIES
  ImplementsAddon
