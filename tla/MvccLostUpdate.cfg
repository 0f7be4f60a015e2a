\* Two connections whose UPDATE statements are transactions of their own.
SPECIFICATION Spec
CONSTANTS
  k1 = k1
  k2 = k2
  Client = {c1, c2}
  Key = {k1}
  MaxTx = 3
  MaxRow = 3
  Workload = {"UPDATE"}
  Autocommit = TRUE
  Disciplined = FALSE
  Seed <- OneRow
CHECK_DEADLOCK FALSE
PROPERTY NoLostUpdate
