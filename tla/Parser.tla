------------------------------- MODULE Parser -------------------------------
(***************************************************************************)
(* The recursive descent parser of daemon/parser/parser.cpp: from the      *)
(* tokens of one text to the statements in it, or to the way it fails.     *)
(*                                                                         *)
(* A parse function consumes a token of a given type, or throws; or it     *)
(* looks at the next token and decides.  Before a look the parser does not *)
(* check that there is a next token: what the memory behind the last one   *)
(* holds is the constant beyond.  Where it copies the value of a token     *)
(* that is not there, or reaches the end of a function that should return  *)
(* a node, what happens is undefined.                                      *)
(***************************************************************************)
EXTENDS Naturals, Sequences

CONSTANTS
  tokens,         \* the tokens of the text
  beyond,         \* the type of token behind the last one
  tables          \* the tables the connection knows

(* Tokens: a type, a word, and the key a literal stands for.               *)
Sign(type) == [type |-> type, value |-> "", key |-> 0]
Keyword(word) == [type |-> "KEYWORD", value |-> word, key |-> 0]
Name(word) == [type |-> "IDENTIFIER", value |-> word, key |-> 0]
Lit(k) == [type |-> "LITERAL", value |-> "", key |-> k]

Comparison == {"LESS", "LESS_EQUAL", "GREATER", "GREATER_EQUAL", "EQUAL"}
TokenType == Comparison \cup
  {"KEYWORD", "IDENTIFIER", "LITERAL", "OPERATOR", "COMMA", "LEFT_PAREN",
   "RIGHT_PAREN", "AND", "OR", "NOT"}

Index == 1..(Len(tokens) + 2)
There(i) == i \in DOMAIN tokens
TypeAt(i) == IF There(i) THEN tokens[i].type ELSE beyond

-----------------------------------------------------------------------------
(* Expressions.  Each function takes the index of a token and returns the  *)
(* node it builds from there, with the index behind it.                    *)

Undefined == [kind |-> "UNDEFINED", at |-> 0]

(* primary(): a literal or a column; for anything else the function ends   *)
(* without returning a value.                                              *)
Primary(i) ==
  IF There(i) /\ tokens[i].type \in {"LITERAL", "IDENTIFIER"}
  THEN [kind |-> tokens[i].type, key |-> tokens[i].key, at |-> i + 1]
  ELSE Undefined

Node(kind, op, left, right) ==
  IF Undefined \in {left, right} THEN Undefined
  ELSE [kind |-> kind, op |-> op, left |-> left, right |-> right, at |-> right.at]

comparison[i \in Index] ==
  LET left == Primary(i)
  IN  IF left # Undefined /\ TypeAt(left.at) \in Comparison
      THEN Node("BINARY", TypeAt(left.at), left, comparison[left.at + 1])
      ELSE left

OR[i \in Index] ==
  LET left == comparison[i]
  IN  IF left # Undefined /\ TypeAt(left.at) = "OR"
      THEN Node("OR", "OR", left, OR[left.at + 1])
      ELSE left

AND[i \in Index] ==
  LET left == OR[i]
  IN  IF left # Undefined /\ TypeAt(left.at) = "AND"
      THEN Node("AND", "AND", left, AND[left.at + 1])
      ELSE left

(* Mutant: parseExpression enters the grammar at OR.                       *)
ExpressionOr(i) == OR[i]

(* parseExpression.                                                        *)
Expression(i) == AND[i]

-----------------------------------------------------------------------------
(* Statements.  A parse function is a walk through states: in a state it   *)
(* takes the tokens listed for it, each with a type, a word (or any) and   *)
(* the state that follows.                                                 *)

Whatever == ""
Grammar == {
  (* parseSelectStatement *)
  <<"SELECT",    "KEYWORD",     Whatever,  "columns">>,
  <<"columns",   "OPERATOR",    "*",       "from">>,
  <<"columns",   "IDENTIFIER",  Whatever,  "columns,">>,
  <<"columns,",  "COMMA",       Whatever,  "column">>,
  <<"column",    "IDENTIFIER",  Whatever,  "columns,">>,
  <<"from",      "KEYWORD",     "FROM",    "table">>,
  <<"table",     "IDENTIFIER",  Whatever,  "where">>,
  <<"where",     "KEYWORD",     "WHERE",   "expression">>,
  (* parseDeleteStatement *)
  <<"DELETE",    "KEYWORD",     Whatever,  "of">>,
  <<"of",        "KEYWORD",     "FROM",    "table">>,
  (* parseUpdateStatement *)
  <<"UPDATE",    "KEYWORD",     Whatever,  "updated">>,
  <<"updated",   "IDENTIFIER",  Whatever,  "set">>,
  <<"set",       "KEYWORD",     Whatever,  "changed">>,
  <<"changed",   "IDENTIFIER",  Whatever,  "=">>,
  <<"=",         "EQUAL",       Whatever,  "new">>,
  <<"new",       "LITERAL",     Whatever,  "new,">>,
  <<"new,",      "COMMA",       Whatever,  "changed">>,
  (* parseInsertStatement *)
  <<"INSERT",    "KEYWORD",     Whatever,  "into">>,
  <<"into",      "KEYWORD",     "INTO",    "target">>,
  <<"target",    "IDENTIFIER",  Whatever,  "values">>,
  <<"values",    "KEYWORD",     Whatever,  "(values">>,
  <<"(values",   "LEFT_PAREN",  Whatever,  "value">>,
  <<"value",     "LITERAL",     Whatever,  "value,">>,
  <<"value,",    "COMMA",       Whatever,  "value">>,
  <<"value,",    "RIGHT_PAREN", Whatever,  "end">>,
  (* parseCreateStatement *)
  <<"CREATE",    "KEYWORD",     Whatever,  "TABLE">>,
  <<"TABLE",     "KEYWORD",     "TABLE",   "created">>,
  <<"created",   "IDENTIFIER",  Whatever,  "(fields">>,
  <<"(fields",   "LEFT_PAREN",  Whatever,  "field">>,
  <<"field",     "IDENTIFIER",  Whatever,  "type">>,
  <<"type",      "KEYWORD",     Whatever,  "field,">>,
  <<"field,",    "COMMA",       Whatever,  "field">>,
  <<"field,",    "RIGHT_PAREN", Whatever,  "end">>,
  (* parseBeginStatement, parseCommitStatement, parseRollbackStatement *)
  <<"BEGIN",     "KEYWORD",     Whatever,  "end">>,
  <<"COMMIT",    "KEYWORD",     Whatever,  "end">>,
  <<"ROLLBACK",  "KEYWORD",     Whatever,  "end">>}

Start == {"SELECT", "INSERT", "UPDATE", "DELETE", "CREATE", "BEGIN", "COMMIT", "ROLLBACK"}
State == {g[1] : g \in Grammar} \cup {"end", "expression", "error", "undefined"}

(* Where the function goes on, without taking a token, if none of those it *)
(* looks for is there.  The list of an INSERT or CREATE that begins, or    *)
(* goes on after a comma, with a right parenthesis ends in front of it.    *)
Otherwise(state, i) ==
  CASE state = "columns,"         -> "from"
    [] state = "where"            -> "end"
    [] state = "new," /\ TypeAt(i) # "COMMA" -> "where"
    [] state \in {"value", "field"} /\ TypeAt(i) = "RIGHT_PAREN" -> "end"
    [] OTHER                      -> "error"

(* States whose token is copied before its type is checked.                *)
Copied == {"column", "columns", "table", "of", "updated", "changed", "new",
           "into", "target", "value", "TABLE", "created", "field", "type"}

(* Where the statement that is in state at token i ends, or that it does   *)
(* not.                                                                    *)
walk[state \in State, i \in Index] ==
  LET taken == {g \in Grammar : /\ g[1] = state /\ There(i)
                                /\ g[2] = tokens[i].type
                                /\ g[3] \in {Whatever, tokens[i].value}}
  IN  CASE state \in {"end", "error", "undefined"} -> [state |-> state, at |-> i]
        [] state = "expression" ->
             IF Expression(i) = Undefined THEN [state |-> "undefined", at |-> i]
             ELSE [state |-> "end", at |-> Expression(i).at]
        [] taken # {} -> walk[(CHOOSE g \in taken : TRUE)[4], i + 1]
        [] ~There(i) /\ state \in Copied /\ Otherwise(state, i) = "error" ->
             [state |-> "undefined", at |-> i]
        [] OTHER -> walk[Otherwise(state, i), i]

(* parseInsertStatement asks the table it names for its columns, whether   *)
(* or not there is one; a statement of any other kind looks it up later.   *)
Built(i, w) ==
  IF w.state = "end" /\ tokens[i].value = "INSERT" /\ tokens[i + 2].value \notin tables
  THEN [w EXCEPT !.state = "undefined"] ELSE w

Statements(list) == [kind |-> "statements", list |-> list]
Failure(kind) == [kind |-> kind, list |-> <<>>]

(* parse(): statement after statement; a text that has anything else       *)
(* between them has no statement at all.                                   *)
parse[i \in Index] ==
  IF ~There(i) THEN Statements(<<>>)
  ELSE IF tokens[i].type = "KEYWORD" /\ tokens[i].value \in Start
       THEN LET w == Built(i, walk[tokens[i].value, i])
                rest == parse[w.at]
            IN  IF w.state # "end" THEN Failure(w.state)
                ELSE IF rest.kind # "statements" THEN rest
                ELSE Statements(<<tokens[i].value>> \o rest.list)
       ELSE Failure("nothing")

(* Mutant: an exception keeps the statements in front of it.               *)
parseKeeping[i \in Index] ==
  IF ~There(i) THEN Statements(<<>>)
  ELSE IF tokens[i].type = "KEYWORD" /\ tokens[i].value \in Start
       THEN LET w == Built(i, walk[tokens[i].value, i])
                rest == parseKeeping[w.at]
            IN  IF w.state # "end" THEN Statements(<<"ERROR">>)
                ELSE Statements(<<tokens[i].value>> \o rest.list)
       ELSE Failure("nothing")

ParseKeeping == parseKeeping[1]

(* The statements of the text.                                             *)
Parse == parse[1]
=============================================================================
