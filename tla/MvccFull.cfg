\* Two connections and three transactions on one row, every fault included.
SPECIFICATION Spec
CONSTANTS
  k1 = k1
  k2 = k2
  Client = {c1, c2}
  Key = {k1}
  MaxTx = 4
  MaxRow = 3
  Workload = {"INSERT", "DELETE", "UPDATE", "BADLITERAL", "FAIL", "ROLLBACK", "CRASH"}
  Autocommit = TRUE
  Disciplined = FALSE
  Seed <- OneRow
SYMMETRY Connections
CHECK_DEADLOCK FALSE
INVARIANT TypeOK
INVARIANT VisibilityIsReadCommitted
INVARIANT UncommittedPrivate
INVARIANT OneOwnVersion
PROPERTY OutcomeFinal
