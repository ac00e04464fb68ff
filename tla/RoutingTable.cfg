\* Eight keys, two addresses each, room for two entries in a bucket.
SPECIFICATION Spec
CONSTANTS
  KeyBits = 3
  K = 2
  MaxRadius = 1
  Self <- NoBits
  Addrs = {a1, a2}
  SelfAddr = a1
  None = None
INVARIANTS TypeOK Placement SelfPresent Capacity AnswersFull ClosestKInReach
PROPERTIES ImplementsContactBook NewcomersFit
