\* Two clients; one types up to three lines, the other one.
SPECIFICATION Spec
CONSTANTS
  Client = {c1, c2}
  c1 = c1
  c2 = c2
  Command <- Commands
  Statement <- OneStatement
  Refused <- Faulty
  Odd <- OddLines
  Known = {"t"}
  Beyond = {"OTHER"}
  MaxLines <- Typed
  Capacity = 1
  Long = 2
CHECK_DEADLOCK FALSE
 
PROPERTY RepliesMatch
 
