------------------------------ MODULE MCQuery ------------------------------
(* The instance of Query that TLC checks.                                  *)
EXTENDS Query

(* A literal on the left of the operator, on both sides, and on none; a    *)
(* chain of operators; a comparison that breaks off.                       *)
StrayTokens ==
  {<<Lit(2), Sign("LESS"), Name("id")>>,
   <<Lit(1), Sign("EQUAL"), Lit(2)>>,
   <<Name("id"), Sign("LESS"), Name("id")>>,
   <<Name("id"), Sign("LESS"), Lit(2), Sign("GREATER"), Lit(1)>>,
   <<Name("id"), Sign("GREATER")>>}
=============================================================================
