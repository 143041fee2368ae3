SPECIFICATION FairSpec
CONSTANTS
  NumProcs = 2
  Handlers = {h1, h2}
INVARIANTS
  TypeOK
  LinksInPlace
  LinkRemoved
PROPERTY
  LinkPhaseEnds
CHECK_DEADLOCK FALSE
