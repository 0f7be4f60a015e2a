\* Up to two versions of three keys, conditions of up to three comparisons,
\* or that begin with something else.
SPECIFICATION QuerySpec
CONSTANTS
  Key = {1, 2, 3}
  Literal = {1, 2}
  MaxRows = 2
  MaxTerms = 3
  Stray <- StrayTokens
  Behind = {"OTHER"}
  Losable = {1}
CHECK_DEADLOCK FALSE
 
INVARIANT SelectionComplete
INVARIANT SelectedOnce
INVARIANT DeletesSelected
