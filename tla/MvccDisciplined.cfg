\* Three connections that update two rows inside BEGIN ... COMMIT.
SPECIFICATION Spec
CONSTANTS
  k1 = k1
  k2 = k2
  Client = {c1, c2, c3}
  Key = {k1, k2}
  MaxTx = 4
  MaxRow = 5
  Workload = {"UPDATE", "SELECT"}
  Autocommit = FALSE
  Disciplined = TRUE
  Seed <- TwoRows
SYMMETRY Connections
CHECK_DEADLOCK FALSE
INVARIANT UpdateExclusive
INVARIANT OneVersion
PROPERTY MarksKept
PROPERTY NoLostUpdate
