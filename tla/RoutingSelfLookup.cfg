\* Sixteen keys; MaxRadius is half of KeyBits, as 128 is of 256.
SPECIFICATION Spec
CONSTANTS
  KeyBits = 4
  K = 2
  MaxRadius = 2
  Self <- NoBits
  Addrs = {a1}
  SelfAddr = a1
  None = None
INVARIANT SelfLookupFindsPeers
