\* Deletion of a ManagedMCG on events and retries alone.
CONSTANTS
  prometheus = prometheus
  o1 = o1
  Component = {prometheus}
  Obj = {o1}
  Preexisting = {"BucketClass"}
  Hazards <- DeletionHazards
  MaxHazards = 2
SPECIFICATION EventSpec
CHECK_DEADLOCK FALSE
PROPERTIES
  DeletionCompletes
