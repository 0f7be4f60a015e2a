----------------------------- MODULE MCSession -----------------------------
(* The lines that TLC lets the clients of Session type.                    *)
EXTENDS Session

CONSTANTS c1, c2

(* One client goes through a session, the other comes and goes.            *)
Typed == [c \in Client |-> IF c = c1 THEN 3 ELSE 1]

LOCAL Sign(type) == [type |-> type, value |-> "", key |-> 0]
LOCAL Star == [type |-> "OPERATOR", value |-> "*", key |-> 0]
LOCAL K(word) == [type |-> "KEYWORD", value |-> word, key |-> 0]
LOCAL N(word) == [type |-> "IDENTIFIER", value |-> word, key |-> 0]
LOCAL V == [type |-> "LITERAL", value |-> "1", key |-> 1]
LOCAL Where == <<K("WHERE"), N("id"), Sign("LESS"), V, Sign("AND"), V, Sign("EQUAL"), N("id")>>
LOCAL SelectAll == <<K("SELECT"), Star, K("FROM"), N("t")>>
LOCAL InsertInto(t) ==
  <<K("INSERT"), K("INTO"), N(t), K("VALUES"), Sign("LEFT_PAREN"), V>>

Commands == {<<N("CONNECT"), N("db")>>, <<N("CONNECT")>>, <<N("EXIT")>>}

OneStatement ==
  {SelectAll,
   <<K("SELECT"), N("id"), Sign("COMMA"), N("a"), K("FROM"), N("t")>> \o Where,
   <<K("DELETE"), K("FROM"), N("t")>> \o Where,
   <<K("UPDATE"), N("t"), K("SET"), N("a"), Sign("EQUAL"), V,
     Sign("COMMA"), N("b"), Sign("EQUAL"), V>>,
   InsertInto("t") \o <<Sign("COMMA"), V, Sign("RIGHT_PAREN")>>,
   <<K("CREATE"), K("TABLE"), N("u"), Sign("LEFT_PAREN"), N("id"), K("INT"),
     Sign("COMMA"), N("a"), K("STRING"), Sign("RIGHT_PAREN")>>}

(* No column; no value; a good statement and one that breaks off.          *)
Faulty ==
  {<<K("SELECT"), K("FROM"), N("t")>>,
   <<K("UPDATE"), N("t"), K("SET"), N("a"), Sign("EQUAL"), N("b")>>,
   SelectAll \o <<K("DELETE"), N("t")>>}

(* Nothing; a command too late; a list that ends with a comma; two         *)
(* statements; a transaction; half a statement; a table that is not there. *)
OddLines ==
  {<<>>, <<N("EXIT")>>,
   InsertInto("t") \o <<Sign("COMMA"), Sign("RIGHT_PAREN")>>,
   SelectAll \o SelectAll,
   <<K("BEGIN")>>,
   <<K("DELETE"), K("FROM")>>,
   InsertInto("nosuch") \o <<Sign("RIGHT_PAREN")>>}
=============================================================================
