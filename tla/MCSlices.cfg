SPECIFICATION SliceSpec
CONSTANTS
  Member = {1, 2, 3, 4, 5}
  Size = 3
  Absent = absent
INVARIANTS QuorumIsDistinctNodes HoldsTheHeard
