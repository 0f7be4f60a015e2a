\* Two connections to one database start transactions at the same time.
SPECIFICATION Spec
CONSTANTS
  Client = {c1, c2}
  Db = {d1}
  NoDb = NoDb
  Table = {t1}
  Columns = {x}
  None = None
  MaxTx = 3
  MaxLines = 0
  Overlap = TRUE
  Mixed = FALSE
CHECK_DEADLOCK FALSE
INVARIANT NumbersUnique
