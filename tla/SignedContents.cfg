CONSTANTS
  Pubkeys = {1, 2, 3}
  Weights = {0, 1, 2}
  Nodes = {n1}
  Absent = Absent
  n1 = n1
  RollupBits = 1
  HeightBits = 2
  ByteBits = 2
  d1 = d1
  d2 = d2
  Digests = {d1, d2}
  MaxMessages = 4
SPECIFICATION ContentsSpec
SYMMETRY MCSymmetry
INVARIANTS DeltaLeadsToNewSet ProofsConvince ProofsSound
CHECK_DEADLOCK FALSE
