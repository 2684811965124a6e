CONSTANT
  MAX_REQUESTS = 9
CHECK_DEADLOCK FALSE
SPECIFICATION FairSpec
INVARIANTS
  TypeOK
  NeverFails
  DigestExact
  Settled
  AnswersAreTrue
  SpinsOnlyAtStart
PROPERTIES
  ImplementsLifecycle
  NeverHangs
