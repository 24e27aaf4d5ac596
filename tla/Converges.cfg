\* Everything is restored in the end.
CONSTANTS
  Plugins = {}
  Missing = {}
  Editable <- UnwatchedObjects
  Hazards <- ConvergeHazards
  MaxHazards = 2
SPECIFICATION FairSpec
PROPERTIES
  Converges
