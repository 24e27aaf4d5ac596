\* A console plugin that differs from the operator's.
CONSTANTS
  Plugins = {}
  Missing = {}
  Editable = {"consolePlugin"}
  Hazards = {"edit"}
  MaxHazards = 1
SPECIFICATION FairSpec
PROPERTIES
  PluginUpdated
