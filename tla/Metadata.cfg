\* Two connections, two databases one after the other, restarts at any step.
SPECIFICATION Spec
CONSTANTS
  Client = {c1, c2}
  Db = {d1, d2}
  NoDb = NoDb
  Table = {t1}
  Columns = {x, y}
  None = None
  MaxTx = 2
  MaxLines = 2
  Overlap = FALSE
  Mixed = FALSE
SYMMETRY Interchangeable
CHECK_DEADLOCK FALSE
INVARIANT TypeOK
INVARIANT NumbersUnique
INVARIANT KnownIsOnDisk
PROPERTY ImplementsTxNumbers
 
