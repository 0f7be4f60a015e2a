------------------------------- MODULE Query -------------------------------
(***************************************************************************)
(* From the tokens of a WHERE clause to the rows it selects: the expression *)
(* grammar of daemon/parser/parser.cpp, executed by daemon/parser/expr.cpp *)
(* (module Where), for SELECT, and for DELETE, which looks every selected  *)
(* key up again.                                                           *)
(*                                                                         *)
(* Parsing and execution are sequential and change nothing but the rows;   *)
(* the state here is what they depend on, and the steps vary it: rows are  *)
(* stored, and a condition is typed, comparison by comparison, behind      *)
(* tokens that may be something else.  The parser does not check for the   *)
(* end of the tokens before it looks at the next one: what lies behind the *)
(* last token is beyond.                                                   *)
(***************************************************************************)
EXTENDS Where, FiniteSets

CONSTANTS
  Key,            \* keys and literals, from 1
  Literal,        \* keys that occur in conditions
  MaxRows,        \* bound: stored row versions
  MaxTerms,       \* bound: comparisons in a condition
  Stray,          \* other sequences of tokens a condition may begin with
  Behind,         \* the types of the token that memory holds behind the end
  Losable         \* keys that search may miss

ASSUME QueryAssumption ==
  /\ Key \subseteq Nat \ {NoKey} /\ Literal \subseteq Key /\ Losable \subseteq Key
  /\ MaxRows \in Nat /\ MaxTerms \in Nat
  /\ Stray \subseteq Seq([type : STRING, value : STRING, key : Nat])
  /\ \A t \in Stray : \A i \in DOMAIN t : t[i].type = "LITERAL" => t[i].key \in Key
  /\ Behind \subseteq STRING

VARIABLES
  chain,          \* the stored versions in the order of the leaf chain
  lost,           \* the keys search misses
  tokens,         \* the tokens of the condition
  beyond          \* the type of the token behind the last one

queryVars == <<chain, lost, tokens, beyond>>

INSTANCE Parser WITH tables <- {}

-----------------------------------------------------------------------------
(* Execution. *)

NoResult == [defined |-> FALSE, rows |-> <<>>]
Result(rows) == [defined |-> TRUE, rows |-> rows]

(* BinaryExpr::execute: the literal is the operand that is not the column; *)
(* without a column on the left the left one, and op as it stands.  If     *)
(* that operand is no literal a null pointer is followed.  A literal or a  *)
(* column alone yields a row without the values its readers look for.      *)
LiteralOf(e) == IF e.left.kind = "IDENTIFIER" THEN e.right ELSE e.left

Comparing(e) ==
  IF e.kind = "BINARY" /\ LiteralOf(e).kind = "LITERAL"
  THEN Result(Compare(chain, lost, e.op, LiteralOf(e).key)) ELSE NoResult

Joining(kind, left, right) ==
  IF left.defined /\ right.defined
  THEN Result(IF kind = "AND" THEN AndRows(chain, left.rows, right.rows)
                              ELSE OrRows(chain, left.rows, right.rows))
  ELSE NoResult

(* The nodes the parser may build of the tokens.                           *)
Nodes == Range(comparison) \cup Range(OR) \cup Range(AND)

execute[e \in Nodes] ==
  IF e.kind \in {"AND", "OR"}
  THEN Joining(e.kind, execute[e.left], execute[e.right])
  ELSE Comparing(e)

(* The rows a statement selects; without WHERE, all visible ones.          *)
Selected ==
  IF tokens = <<>> THEN Result(RangeQuery(chain, lost, NoKey, NoKey, TRUE, TRUE))
                   ELSE execute[Expression(1)]

(* Mutant: the query for the single key leaves its bounds out.              *)
MarkedBetween(rows) ==
  UNION {Range(RangeQuery(chain, lost, chain[r].key, chain[r].key, FALSE, FALSE)) :
           r \in Range(rows)}

(* DELETE hands the key of each selected row to Transaction::Delete, which *)
(* queries for that key and marks what it finds.                           *)
Marked(rows) ==
  UNION {Range(RangeQuery(chain, lost, chain[r].key, chain[r].key, TRUE, TRUE)) :
           r \in Range(rows)}

-----------------------------------------------------------------------------
(* The steps. *)

(* A row version enters the leaf chain behind those with its key.          *)
Store(k) ==
  /\ tokens = <<>> /\ Len(chain) < MaxRows
  /\ \E i \in 1..(Len(chain) + 1), visible \in BOOLEAN :
       /\ \A j \in DOMAIN chain : j < i <=> chain[j].key <= k
       /\ chain' = InsertAt(chain, i, [key |-> k, visible |-> visible])
  /\ UNCHANGED <<lost, tokens, beyond>>

Term(op, k) == <<Name("id"), Sign(op), Lit(k)>>
Terms == Cardinality({i \in DOMAIN tokens : tokens[i].type \in Comparison})

(* A comparison is typed, joined to those before it.                       *)
TypeTerm(op, k) ==
  /\ Terms < MaxTerms
  /\ IF tokens = <<>> THEN tokens' = Term(op, k)
     ELSE \E join \in {"AND", "OR"} :
            tokens' = tokens \o <<Sign(join)>> \o Term(op, k)
  /\ UNCHANGED <<chain, lost, beyond>>

(* The condition begins with something else than a comparison of the      *)
(* column with a literal.                                                  *)
TypeStray(t) ==
  /\ tokens = <<>>
  /\ tokens' = t
  /\ UNCHANGED <<chain, lost, beyond>>

QueryInit ==
  /\ chain = <<>> /\ tokens = <<>>
  /\ lost \in SUBSET Losable
  /\ beyond \in Behind

QueryNext ==
  \/ \E k \in Key : Store(k)
  \/ \E op \in Comparison, k \in Literal : TypeTerm(op, k)
  \/ \E t \in Stray : TypeStray(t)

QuerySpec == QueryInit /\ [][QueryNext]_queryVars

-----------------------------------------------------------------------------
(* What a condition means. *)

(* A well-formed condition: comparisons of the column with a literal,      *)
(* joined by AND and OR, and nothing behind the last one that looks like a *)
(* continuation.                                                           *)
At(n) == 4 * n - 3                  \* where comparison n starts
Count == (Len(tokens) + 1) \div 4
WellFormed ==
  /\ tokens # <<>> /\ Len(tokens) % 4 = 3
  /\ \A n \in 1..Count :
       /\ tokens[At(n)].type = "IDENTIFIER"
       /\ tokens[At(n) + 1].type \in Comparison /\ tokens[At(n) + 2].type = "LITERAL"
       /\ n < Count => tokens[At(n) + 3].type \in {"AND", "OR"}
  /\ beyond \notin Comparison \cup {"AND", "OR"}

(* A comparison read as the engine executes it: < includes its bound as    *)
(* <= does, and > as >= does.                                              *)
Holds(n, k) ==
  LET bound == tokens[At(n) + 2].key
  IN  CASE tokens[At(n) + 1].type \in {"LESS", "LESS_EQUAL"}       -> k <= bound
        [] tokens[At(n) + 1].type \in {"GREATER", "GREATER_EQUAL"} -> k >= bound
        [] tokens[At(n) + 1].type = "EQUAL"                        -> k = bound

(* The condition without parsing it: OR binds tighter than AND, so it is   *)
(* a conjunction of the stretches between ANDs, each a disjunction.        *)
Together(m, n) ==
  \A j \in 1..(Count - 1) :
    (m <= j /\ j < n) \/ (n <= j /\ j < m) => tokens[At(j) + 3].type = "OR"

Satisfies(k) ==
  \A n \in 1..Count : \E m \in 1..Count : Together(m, n) /\ Holds(m, k)

(* Lower bounds have to be stored and found, else the whole comparison     *)
(* comes out empty.                                                        *)
BoundsFound ==
  \A n \in 1..Count :
    LET bound == tokens[At(n) + 2].key
    IN  /\ tokens[At(n) + 1].type \in {"GREATER", "GREATER_EQUAL"} =>
             FirstBlock(chain, lost, bound) # 0
        /\ tokens[At(n) + 1].type = "EQUAL" => bound \notin lost

(* At most one visible version of a row, as module Mvcc promises to        *)
(* clients that update under the lock.                                     *)
OneVisible ==
  \A i, j \in DOMAIN chain :
    chain[i].visible /\ chain[j].visible /\ chain[i].key = chain[j].key => i = j

-----------------------------------------------------------------------------
(* No row is selected that the condition does not cover or the transaction *)
(* does not see: whatever mixture of AND, OR and comparisons is typed, and *)
(* whatever keys search misses.                                            *)
SelectionSound ==
  LET result == Selected
  IN  WellFormed /\ result.defined =>
        \A r \in Range(result.rows) : chain[r].visible /\ Satisfies(chain[r].key)

(* Every visible row that the condition covers is selected, provided the   *)
(* lower bounds exist as keys: a condition is complete relative to that    *)
(* limitation of RangeQuery only.                                          *)
SelectionComplete ==
  LET result == Selected
  IN  WellFormed /\ BoundsFound =>
        /\ result.defined
        /\ \A i \in DOMAIN chain :
             chain[i].visible /\ Satisfies(chain[i].key) =>
               \E r \in Range(result.rows) : chain[r].key = chain[i].key

(* No row is selected twice, so that an UPDATE does not replace the same   *)
(* version twice, unless the transaction sees two versions of it.          *)
SelectedOnce ==
  LET result == Selected
  IN  OneVisible /\ result.defined => IsInjective(result.rows)

(* DELETE marks every row it reports, except those whose key search cannot *)
(* find again, and no other row.                                           *)
DeletesSelected ==
  LET result == Selected
  IN  OneVisible /\ result.defined =>
        Marked(result.rows) = {r \in Range(result.rows) : chain[r].key \notin lost}

=============================================================================
