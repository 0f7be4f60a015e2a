\* A reader and three writers, two row versions of two keys.
SPECIFICATION Spec
CONSTANTS
  Tx = {r, w1, w2, w3}
  Reader = r
  Key = {1, 2}
  MaxRow = 2
SYMMETRY Writers
CHECK_DEADLOCK FALSE
INVARIANT TypeOK
 
INVARIANT NoDirtyRow
INVARIANT ReturnedWasVisible
INVARIANT MissedWasHidden
