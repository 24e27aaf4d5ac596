\* Handler, passes, users and failures together.
CONSTANTS
  c1 = c1
  c2 = c2
  Class <- TwoClasses
  LocalClass <- OneClass
  MaxClassOps = 1
  MaxFailures = 2
SPECIFICATION FairSpec
INVARIANTS
  TypeOK
  NoOrphan
  ClaimedUnlessExcused
PROPERTIES
  ClaimsFollow
