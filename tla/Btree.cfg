\* Nodes of two blocks, three keys with duplicates, two crashes.
SPECIFICATION Spec
CONSTANTS
  MaxKey = 3
  LeafCap = 2
  InnerCap = 2
  MaxInsert = 7
  MaxCrash = 2
CHECK_DEADLOCK FALSE
INVARIANT TypeOK
 
INVARIANT ChainComplete
INVARIANT ChainSorted
INVARIANT SearchFirst
INVARIANT MissesAreSeparators
