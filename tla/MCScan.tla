------------------------------- MODULE MCScan -------------------------------
(* The instance of Scan that TLC checks: the writers are interchangeable.  *)
EXTENDS Scan, TLC

Writers == Permutations(Tx \ {Reader})
=============================================================================
