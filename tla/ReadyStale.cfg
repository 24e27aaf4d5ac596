\* The logged condition of the uninstallation.
CONSTANTS
  prometheus = prometheus
  Component = {prometheus}
  Obj = {}
  Preexisting = {}
  Hazards = {"stripFinalizer", "unready"}
  MaxHazards = 2
SPECIFICATION Spec
CHECK_DEADLOCK FALSE
INVARIANTS
  DeletesOnlyWhenReady
