------------------------------- MODULE Where -------------------------------
(***************************************************************************)
(* What a WHERE clause computes from the rows of a table: Table::          *)
(* RangeQuery of daemon/storage/table.cpp and the execute() functions of   *)
(* daemon/parser/expr.cpp, as pure operators.                              *)
(*                                                                         *)
(* chain is the leaf chain of the primary index: the stored row versions   *)
(* in the order of their keys, each with its key and whether IsVisible     *)
(* accepts it.  A row of a result is its position in the chain, which      *)
(* stands for the values of the row and for its page and block number.     *)
(* lost is the set of keys that Btree::search misses (module Btree says    *)
(* which).  Keys are naturals in the order of the strings they stand for.  *)
(***************************************************************************)
EXTENDS Naturals, Sequences, SequencesExt

NoKey == 0        \* a null pointer where RangeQuery expects a bound

(* The position of the first block RangeQuery reads, 0 for none: beg() for *)
(* an open lower bound, else the first block with exactly that key.        *)
FirstBlock(chain, lost, key1) ==
  IF key1 = NoKey THEN IF chain = <<>> THEN 0 ELSE 1
  ELSE IF key1 \in lost THEN 0
       ELSE SelectInSeq(chain, LAMBDA v : v.key = key1)

(* Mutant: the walk stops in front of the upper bound.                     *)
WalkShort(chain, first, key2) ==
  {i \in DOMAIN chain : first # 0 /\ first <= i /\ (key2 # NoKey => chain[i].key < key2)}

(* The blocks the loop comes to: it goes on while the key is not above the *)
(* upper bound, or to the end of the chain.                                *)
Walk(chain, first, key2) ==
  {i \in DOMAIN chain : first # 0 /\ first <= i /\ (key2 # NoKey => chain[i].key <= key2)}

(* The test for a block the loop has come to.  The two bounds matter only  *)
(* if both are given; with an open end every block is taken.               *)
Taken(key, key1, key2, includeKey1, includeKey2) ==
  \/ key1 # NoKey /\ key = key1 /\ includeKey1
  \/ key2 # NoKey /\ key = key2 /\ includeKey2
  \/ key1 = NoKey \/ key2 = NoKey

(* A set of positions in their order.                                      *)
Ascending(S) ==
  CHOOSE s \in SetToSeqs(S) : \A m, n \in DOMAIN s : m < n => s[m] < s[n]

RangeQuery(chain, lost, key1, key2, includeKey1, includeKey2) ==
  Ascending({i \in Walk(chain, FirstBlock(chain, lost, key1), key2) :
               /\ Taken(chain[i].key, key1, key2, includeKey1, includeKey2)
               /\ chain[i].visible})

(* BinaryExpr::execute for an operator and a literal.                      *)
Compare(chain, lost, op, key) ==
  CASE op = "LESS"          -> RangeQuery(chain, lost, NoKey, key, TRUE, FALSE)
    [] op = "LESS_EQUAL"    -> RangeQuery(chain, lost, NoKey, key, TRUE, TRUE)
    [] op = "GREATER"       -> RangeQuery(chain, lost, key, NoKey, FALSE, TRUE)
    [] op = "GREATER_EQUAL" -> RangeQuery(chain, lost, key, NoKey, TRUE, TRUE)
    [] op = "EQUAL"         -> RangeQuery(chain, lost, key, key, TRUE, TRUE)

SameKey(chain, r, s) == chain[r].key = chain[s].key

(* ANDExpr::execute: for every row of the left operand the first row of    *)
(* the right one with its key.                                             *)
AndRows(chain, left, right) ==
  LET both == Ascending({m \in DOMAIN left : \E r \in Range(right) :
                           SameKey(chain, left[m], r)})
  IN  [n \in DOMAIN both |->
         right[SelectInSeq(right, LAMBDA r : SameKey(chain, left[both[n]], r))]]

(* Mutant: no keys are remembered.                                         *)
OrRowsTwice(chain, left, right) == left \o right

(* ORExpr::execute: the rows of the left operand, then those of the right  *)
(* one whose key has not been added yet.                                   *)
OrRows(chain, left, right) ==
  LET new == Ascending({n \in DOMAIN right :
                          /\ \A l \in Range(left) : ~SameKey(chain, l, right[n])
                          /\ \A m \in 1..(n - 1) : ~SameKey(chain, right[m], right[n])})
  IN  left \o [n \in DOMAIN new |-> right[new[n]]]
=============================================================================
