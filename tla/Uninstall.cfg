\* Uninstallation runs to its end.
CONSTANTS
  prometheus = prometheus
  Component = {prometheus}
  Obj = {}
  Preexisting = {}
  Hazards <- UninstallHazards
  MaxHazards = 2
SPECIFICATION FairSpec
CHECK_DEADLOCK FALSE
PROPERTIES
  UninstallCompletes
  AnswerFollows
