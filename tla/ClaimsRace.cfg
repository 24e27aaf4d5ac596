\* The outcome the unit test expects, with passes beside the handler.
CONSTANTS
  c1 = c1
  c2 = c2
  Class <- OneClass
  LocalClass <- OneClass
  MaxClassOps = 0
  MaxFailures = 0
SPECIFICATION Spec
INVARIANTS
  ReadyClassClaimed
