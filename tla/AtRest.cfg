\* What is true whenever the operator has come to rest, and of the console.
CONSTANTS
  p1 = p1
  Plugins = {p1}
  Missing <- InstalledLate
  Editable <- WatchedObjects
  Hazards <- RestHazards
  MaxHazards = 2
SPECIFICATION Spec
INVARIANTS
  TypeOK
  RulesSelected
  WatchedRestored
  RemoteWriteFollows
PROPERTIES
  PluginsKept
