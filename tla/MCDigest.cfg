CONSTANT
  Cases <- MCCases
CHECK_DEADLOCK FALSE
SPECIFICATION Spec
INVARIANTS
  DigestAsExpected
  ContentIsParity
