SPECIFICATION FairSpec
CONSTANTS
  BUF = 4
  PIPE = 2
  Tests <- ThreeTests
  Behaviours <- TextBehaviours
  Inherited <- Unflushed
INVARIANTS
  TypeOK
  NothingLost
PROPERTIES
  GradesWhatRan
  FinishesOrStuck
