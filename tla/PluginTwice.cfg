\* The console read twice.
CONSTANTS
  Plugins = {}
  Missing = {}
  Editable = {}
  Hazards = {}
  MaxHazards = 0
SPECIFICATION Spec
INVARIANTS
  PluginListedOnce
