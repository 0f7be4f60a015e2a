\* Two connections; one of them may roll its transaction back.
SPECIFICATION Spec
CONSTANTS
  k1 = k1
  k2 = k2
  Client = {c1, c2}
  Key = {k1}
  MaxTx = 3
  MaxRow = 3
  Workload = {"UPDATE", "ROLLBACK"}
  Autocommit = FALSE
  Disciplined = FALSE
  Seed <- OneRow
CHECK_DEADLOCK FALSE
INVARIANT HolderIsRunning
