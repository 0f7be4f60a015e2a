\* One connection that inserts and deletes rows, and crashes; rows no longer than the headers
\* of a page and of two blocks, which never wrap around.
SPECIFICATION Spec
CONSTANTS
  Thread = {t1}
  PageSize = 110
  RowLen = {8, 20, 46}
  MaxRow = 5
  CanCrash = TRUE
CHECK_DEADLOCK FALSE
INVARIANT TypeOK
INVARIANT PagesWellFormed
INVARIANT RowsReadable
INVARIANT MarksStay
