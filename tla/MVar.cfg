CONSTANTS
  Writers = {w1, w2, w3, w4, w5, w6, w7}
  Readers = {r1, r2, r3}
  None = None
SPECIFICATION FairSpec
INVARIANTS SinglePlace
PROPERTIES EverybodyServed
