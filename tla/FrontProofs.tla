--------------------------- MODULE FrontProofs ---------------------------
(***************************************************************************)
(* Proofs about what is in front of the tables: sessions and WHERE clauses.*)
(*                                                                         *)
(* Sessions: for any number of clients and any lines, clients that keep to *)
(* the rules do not bring the daemon down, whatever the other ones do      *)
(* short of that, and print the reply to what they asked.  Nothing in the  *)
(* protocol says which reply is whose.  The invariant says how far the one *)
(* exchange is that an orderly client and its thread are in: a line is on  *)
(* its way, or its statement is executed, or its reply is on its way back, *)
(* and there is never more than one of these.  An orderly client leaves    *)
(* only between two exchanges, so that its thread writes to nobody who has *)
(* gone.                                                                   *)
(*                                                                         *)
(* WHERE clauses: for any rows, any keys that search misses and conditions *)
(* of any length, what is selected is what the condition means.  That the  *)
(* recursive functions of the parser and of the execution exist is shown   *)
(* from the last token to the first; in the same direction, what they      *)
(* compute: a comparison selects the keys that meet it, OR and AND unite   *)
(* and intersect, and the stretches between the ANDs of a well-formed      *)
(* condition are what the functions build nodes of.                        *)
(***************************************************************************)
EXTENDS Session, Query, TLAPS, SequenceTheorems, FiniteSetTheorems

(* The lines are what the names of the constants say: of Statement, one    *)
(* statement each; of Refused, ones the parser throws an exception for.    *)
Kind == {"SELECT", "INSERT", "UPDATE", "DELETE", "CREATE", "BEGIN", "COMMIT", "ROLLBACK"}
LinesAsNamed ==
  \A b \in Beyond :
    /\ \A line \in Statement : \E kind \in Kind :
         Parsed[line, b].kind = "statements" /\ Parsed[line, b].list = <<kind>>
    /\ \A line \in Refused :
         Parsed[line, b].kind = "error" /\ Parsed[line, b].list = <<>>

-----------------------------------------------------------------------------
(* The inductive invariant, in named parts. *)

PerClient(f) == f = [c \in Client |-> f[c]]
Typed ==
  /\ alive \in BOOLEAN /\ orderly \in [Client -> BOOLEAN]
  /\ sent \in [Client -> Nat] /\ serving \in [Client -> Nat]
  /\ down \in [Client -> Seq(Nat)]
  /\ PerClient(at) /\ PerClient(up) /\ PerClient(peer) /\ PerClient(pc)
  /\ PerClient(text) /\ PerClient(stmts)

(* The thread waits for the next line, or has ended.                       *)
Waits(c) == up[c] = <<>> /\ pc[c] \in {"command", "query", "ended"}

(* The line is on its way, or its statement is executed.                   *)
Asked(c) ==
  /\ down[c] = <<>>
  /\ \/ pc[c] = "command" /\ up[c] \in Command
     \/ pc[c] = "query" /\ up[c] \in Statement \cup Refused
     \/ /\ pc[c] = "execute" /\ up[c] = <<>> /\ serving[c] = sent[c]
        /\ \E kind \in Kind : stmts[c] = <<kind>>

(* How far an orderly client and its thread have come.                     *)
Phase(c) ==
  /\ peer[c] = IF at[c] = "gone" THEN "closed" ELSE "open"
  /\ \/ at[c] = "off" /\ pc[c] = "none" /\ up[c] = <<>> /\ down[c] = <<>>
     \/ at[c] = "greeting" /\ pc[c] = "welcome" /\ up[c] = <<>> /\ down[c] = <<>>
     \/ at[c] = "greeting" /\ pc[c] = "command" /\ up[c] = <<>> /\ Len(down[c]) = 1
     \/ at[c] = "prompt" /\ Waits(c) /\ down[c] = <<>>
     \/ at[c] = "reading" /\ (Waits(c) \/ Asked(c))
     \/ at[c] = "gone" /\ Waits(c)

(* All that is on its way to a client that waits answers its last line,    *)
(* and one read takes it.                                                  *)
Answer(c) == /\ \A k \in DOMAIN down[c] : down[c][k] = sent[c]
             /\ Len(down[c]) <= Capacity

Kept(c) == /\ alive => Phase(c)
           /\ at[c] = "reading" => Answer(c)

IInv == /\ Typed /\ OrderlyKeepsDaemon
        /\ \A c \in Client : orderly[c] => Kept(c)

-----------------------------------------------------------------------------
(* What one client and its thread do leaves the other ones alone. *)

Same(c) ==
  /\ at'[c] = at[c] /\ sent'[c] = sent[c] /\ up'[c] = up[c] /\ down'[c] = down[c]
  /\ peer'[c] = peer[c] /\ pc'[c] = pc[c] /\ stmts'[c] = stmts[c]
  /\ serving'[c] = serving[c] /\ orderly'[c] = orderly[c]

LEMMA SameKept ==
  ASSUME NEW c \in Client, Same(c), alive' => alive, orderly[c] => Kept(c)
  PROVE  orderly'[c] => Kept(c)'
  BY DEF Same, Kept, Phase, Waits, Asked, Answer

(* It remains to show what becomes of the client itself, and of the daemon. *)
LEMMA StepKeeps ==
  ASSUME IInv, NEW c \in Client, Typed', alive' => alive,
         \A o \in Client \ {c} : Same(o),
         orderly'[c] => orderly[c],
         orderly'[c] => Kept(c)',
         alive /\ orderly'[c] => alive'
  PROVE  IInv'
<1>1. \A o \in Client \ {c} : orderly'[o] => Kept(o)'
  BY SameKept DEF IInv
<1>2. OrderlyKeepsDaemon'
  <2>1. CASE alive
    BY <2>1 DEF OrderlyKeepsDaemon
  <2>2. CASE ~alive
    <3>1. PICK o \in Client : ~orderly[o]
      BY <2>2 DEF IInv, OrderlyKeepsDaemon
    <3>2. ~orderly'[o]
      BY <3>1 DEF Same
    <3> QED
      BY <3>2 DEF OrderlyKeepsDaemon
  <2> QED
    BY <2>1, <2>2
<1> QED
  BY <1>1, <1>2 DEF IInv

-----------------------------------------------------------------------------
(* The client. *)

LEMMA InitInv == Init => IInv
<1> SUFFICES ASSUME Init PROVE IInv
  OBVIOUS
<1> USE DEF Init
<1>1. Typed
  BY DEF Typed, PerClient
<1>2. ASSUME NEW c \in Client PROVE Kept(c)
  BY DEF Kept, Phase
<1> QED
  BY <1>1, <1>2 DEF IInv, OrderlyKeepsDaemon

LEMMA DialInv ==
  ASSUME IInv, NEW c \in Client, Dial(c)
  PROVE  IInv'
<1> USE DEF IInv, Dial
<1>1. Typed'
  BY DEF Typed, PerClient
<1>2. \A o \in Client \ {c} : Same(o)
  BY DEF Same, Typed, PerClient
<1>3. orderly'[c] => Kept(c)'
  BY DEF Kept, Phase, Typed, PerClient
<1> HIDE DEF Dial
<1> QED
  BY <1>1, <1>2, <1>3, StepKeeps DEF Dial

LEMMA ReceiveInv ==
  ASSUME IInv, NEW c \in Client, Receive(c)
  PROVE  IInv'
<1> USE DEF Receive, client, thread
<1>1. Typed'
  <2>1. down[c] \in Seq(Nat) /\ Capacity \in Nat
    BY SessionAssumption DEF IInv, Typed
  <2>2. SubSeq(down[c], Capacity + 1, Len(down[c])) \in Seq(Nat)
    BY <2>1, SubSeqProperties
  <2> QED
    BY <2>2 DEF IInv, Typed, PerClient
<1>2. \A o \in Client \ {c} : Same(o)
  BY DEF IInv, Same, Typed, PerClient
<1>3. ASSUME orderly[c], alive PROVE Phase(c)'
  <2>1. Phase(c) /\ (at[c] = "reading" => Answer(c))
    BY <1>3 DEF IInv, Kept
  <2>2. Waits(c) \/ (at[c] = "greeting" /\ pc[c] = "command" /\ up[c] = <<>>)
    BY <1>3, <2>1 DEF Phase, Asked, Closed
  <2>3. Len(down[c]) <= Capacity /\ Len(down[c]) \in Nat /\ Capacity \in Nat
    <3>1. Capacity \in Nat /\ Capacity >= 1
      BY SessionAssumption
    <3>2. Len(down[c]) = 1 \/ Len(down[c]) <= Capacity
      BY <2>1, <2>2 DEF Phase, Waits, Answer
    <3>3. Len(down[c]) \in Nat
      BY DEF IInv, Typed
    <3> QED
      BY <3>1, <3>2, <3>3
  <2>4. SubSeq(down[c], Capacity + 1, Len(down[c])) = <<>>
    BY <2>3, SubSeqEmpty
  <2>5. down'[c] = <<>> /\ at'[c] = "prompt"
    BY <2>4 DEF IInv, Typed, PerClient
  <2> QED
    BY <2>1, <2>2, <2>5 DEF Phase, Waits
<1>4. orderly'[c] => Kept(c)'
  BY <1>3 DEF IInv, Kept, Typed, PerClient
<1> QED
  BY <1>1, <1>2, <1>4, StepKeeps

LEMMA SendInv ==
  ASSUME IInv, NEW c \in Client, NEW line \in Line, Send(c, line)
  PROVE  IInv'
<1> USE DEF Send, thread
<1>1. Typed'
  <2> DEFINE fits == line \in Fitting(c)
  <2>1. orderly' = [orderly EXCEPT ![c] = @ /\ fits] /\ fits \in BOOLEAN
    OBVIOUS
  <2> HIDE DEF fits
  <2>2. orderly' \in [Client -> BOOLEAN]
    BY <2>1 DEF IInv, Typed
  <2>3. /\ PerClient(at)' /\ PerClient(up)' /\ PerClient(peer)' /\ PerClient(pc)'
        /\ PerClient(text)' /\ PerClient(stmts)'
    BY DEF IInv, Typed, PerClient
  <2>4. sent' \in [Client -> Nat] /\ serving' \in [Client -> Nat] /\ alive' \in BOOLEAN
    BY DEF IInv, Typed
  <2>5. down' \in [Client -> Seq(Nat)]
    BY DEF IInv, Typed
  <2> QED
    BY ONLY <2>2, <2>3, <2>4, <2>5 DEF Typed
<1>2. \A o \in Client \ {c} : Same(o)
  BY DEF IInv, Same, Typed, PerClient
<1>3. ASSUME orderly'[c] PROVE Phase(c)' /\ Answer(c)'
  <2>1. orderly[c] /\ line \in Fitting(c)
    BY <1>3 DEF IInv, Typed
  <2>2. Phase(c) /\ at[c] = "prompt"
    BY <2>1 DEF IInv, Kept, Closed
  <2>3. Waits(c) /\ down[c] = <<>> /\ peer[c] = "open" /\ pc[c] # "ended"
    BY <2>2 DEF Phase, Closed
  <2>4. line \in Seq([type : STRING, value : STRING, key : Nat])
    BY LineAssumption
  <2>5. up'[c] = line
    <3>1. up'[c] = <<>> \o line
      BY <2>3 DEF Glue, Waits, IInv, Typed, PerClient
    <3> QED
      BY <3>1, <2>4
  <2>6. /\ at'[c] = "reading" /\ pc'[c] = pc[c] /\ down'[c] = <<>> /\ peer'[c] = "open"
    BY <2>3 DEF IInv, Typed, PerClient
  <2>7. Asked(c)'
    BY <2>1, <2>3, <2>5, <2>6 DEF Asked, Fitting, Waits
  <2>8. Len(<<>>) <= Capacity
    BY SessionAssumption
  <2> QED
    BY <2>6, <2>7, <2>8 DEF Phase, Answer
<1>4. orderly'[c] => orderly[c]
  BY DEF IInv, Typed
<1> QED
  BY <1>1, <1>2, <1>3, <1>4, StepKeeps DEF Kept

LEMMA QuitInv ==
  ASSUME IInv, NEW c \in Client, Quit(c) \/ Interrupt(c)
  PROVE  IInv'
<1> USE DEF Close, Quit, Interrupt, thread
<1>1. Typed'
  BY DEF IInv, Typed, PerClient
<1>2. \A o \in Client \ {c} : Same(o)
  BY DEF IInv, Same, Typed, PerClient
<1>3. ASSUME orderly'[c] PROVE Kept(c)'
  <2>1. Quit(c) /\ orderly[c]
    BY <1>3 DEF IInv, Typed
  <2>2. at'[c] = "gone"
    BY DEF IInv, Typed, PerClient
  <2>3. ASSUME alive PROVE Phase(c)'
    <3>1. Phase(c) /\ at[c] = "prompt"
      BY <2>1, <2>3 DEF IInv, Kept
    <3>2. Waits(c) /\ down[c] = <<>>
      BY <3>1 DEF Phase
    <3>3. peer'[c] = "closed"
      BY <3>2 DEF IInv, Typed, PerClient
    <3> QED
      BY <2>2, <3>2, <3>3 DEF Phase, Waits
  <2> QED
    BY <2>2, <2>3 DEF Kept
<1>4. orderly'[c] => orderly[c]
  BY DEF IInv, Typed
<1> QED
  BY <1>1, <1>2, <1>3, <1>4, StepKeeps

-----------------------------------------------------------------------------
(* The thread. *)

LEMMA ReplyFacts ==
  ASSUME Typed, NEW c \in Client, NEW n \in Nat, NEW line \in Nat, Reply(c, n, line)
  PROVE  /\ alive' \in BOOLEAN /\ (alive' => alive)
         /\ down' \in [Client -> Seq(Nat)]
         /\ \A o \in Client \ {c} : down'[o] = down[o]
         /\ peer[c] = "open" =>
              /\ alive' = alive
              /\ down[c] = <<>> => /\ Len(down'[c]) = n
                                   /\ \A k \in DOMAIN down'[c] : down'[c][k] = line
<1> DEFINE reply == [k \in 1..n |-> line]
<1>1. reply \in Seq(Nat) /\ Len(reply) = n /\ DOMAIN reply = 1..n
  OBVIOUS
<1>2. \A k \in DOMAIN reply : reply[k] = line
  OBVIOUS
<1> HIDE DEF reply
<1>3. down[c] \o reply \in Seq(Nat)
  BY <1>1 DEF Typed
<1>4. CASE peer[c] = "open"
  <2>1. down' = [down EXCEPT ![c] = @ \o reply] /\ alive' = alive
    BY <1>4 DEF Reply, reply
  <2>2. down'[c] = down[c] \o reply /\ \A o \in Client \ {c} : down'[o] = down[o]
    BY <2>1 DEF Typed
  <2>3. down[c] = <<>> => down'[c] = reply
    BY <1>1, <2>2
  <2>4. down' \in [Client -> Seq(Nat)]
    BY <1>3, <2>1 DEF Typed
  <2> QED
    BY <1>1, <1>2, <2>1, <2>2, <2>3, <2>4 DEF Typed
<1>5. CASE peer[c] # "open"
  BY <1>5 DEF Reply, Typed
<1> QED
  BY <1>4, <1>5

LEMMA WelcomeInv ==
  ASSUME IInv, NEW c \in Client, alive, Welcome(c)
  PROVE  IInv'
<1> USE DEF Welcome, Go, client
<1>1. Typed /\ Reply(c, 1, 0)
  BY DEF IInv
<1>2. /\ alive' \in BOOLEAN /\ down' \in [Client -> Seq(Nat)]
      /\ \A o \in Client \ {c} : down'[o] = down[o]
      /\ peer[c] = "open" =>
           /\ alive' = alive
           /\ down[c] = <<>> => /\ Len(down'[c]) = 1
                                /\ \A k \in DOMAIN down'[c] : down'[c][k] = 0
  BY <1>1, ReplyFacts
<1>3. Typed'
  BY <1>1, <1>2 DEF Typed, PerClient
<1>4. \A o \in Client \ {c} : Same(o)
  BY <1>1, <1>2 DEF Same, Typed, PerClient
<1>5. ASSUME orderly[c] PROVE alive' /\ Phase(c)' /\ at'[c] = "greeting"
  <2>1. Phase(c)
    BY <1>5 DEF IInv, Kept
  <2>2. at[c] = "greeting" /\ up[c] = <<>> /\ down[c] = <<>> /\ peer[c] = "open"
    BY <2>1 DEF Phase, Waits, Asked
  <2>3. alive' /\ Len(down'[c]) = 1 /\ pc'[c] = "command"
    BY <1>1, <1>2, <2>2 DEF Typed, PerClient
  <2> QED
    BY <2>2, <2>3 DEF Phase
<1> QED
  BY <1>3, <1>4, <1>5, StepKeeps DEF Kept

LEMMA CommandsEndInv ==
  ASSUME IInv, NEW c \in Client, CommandsEnd(c)
  PROVE  IInv'
<1> USE DEF CommandsEnd, Go, client
<1>1. Typed'
  BY DEF IInv, Typed, PerClient
<1>2. \A o \in Client \ {c} : Same(o)
  BY DEF IInv, Same, Typed, PerClient
<1>3. orderly'[c] => Kept(c)'
  BY DEF IInv, Kept, Phase, Waits, Answer, Typed, PerClient
<1> QED
  BY <1>1, <1>2, <1>3, StepKeeps

LEMMA ReadCommandInv ==
  ASSUME IInv, NEW c \in Client, alive, ReadCommand(c)
  PROVE  IInv'
<1>1. Typed /\ sent[c] \in Nat /\ pc[c] = "command" /\ up[c] # <<>>
  BY DEF IInv, Typed, ReadCommand
<1>2. /\ \/ Silence /\ (Go(c, "ended") \/ UNCHANGED pc)
         \/ Reply(c, 1, sent[c]) /\ (Go(c, "query") \/ UNCHANGED pc)
      /\ up' = [up EXCEPT ![c] = <<>>]
      /\ UNCHANGED <<client, peer, text, stmts, serving, orderly>>
  BY Zenon DEF ReadCommand
<1>3. /\ alive' \in BOOLEAN /\ down' \in [Client -> Seq(Nat)]
      /\ \A o \in Client \ {c} : down'[o] = down[o]
      /\ peer[c] = "open" /\ down[c] = <<>> =>
           /\ alive' = alive
           /\ \/ down'[c] = <<>>
              \/ Len(down'[c]) = 1 /\ \A k \in DOMAIN down'[c] : down'[c][k] = sent[c]
  <2>1. CASE Silence
    BY <1>1, <2>1 DEF Silence, Typed
  <2>2. CASE Reply(c, 1, sent[c])
    <3>1. 1 \in Nat
      OBVIOUS
    <3> QED
      BY <1>1, <2>2, <3>1, ReplyFacts
  <2> QED
    BY <1>2, <2>1, <2>2
<1>4. Typed'
  BY <1>1, <1>2, <1>3 DEF Typed, PerClient, Go, client
<1>5. \A o \in Client \ {c} : Same(o)
  BY <1>1, <1>2, <1>3 DEF Same, Typed, PerClient, Go, client
<1>6. ASSUME orderly[c] PROVE alive' /\ Phase(c)' /\ Answer(c)'
  <2>1. Phase(c)
    BY <1>6 DEF IInv, Kept
  <2>2. at[c] = "reading" /\ down[c] = <<>> /\ peer[c] = "open"
    BY <1>1, <2>1 DEF Phase, Waits, Asked
  <2>3. /\ at'[c] = "reading" /\ peer'[c] = "open" /\ sent'[c] = sent[c] /\ up'[c] = <<>>
        /\ pc'[c] \in {"command", "query", "ended"}
    BY <1>1, <1>2, <2>2 DEF Typed, PerClient, Go, client
  <2>4. Capacity \in Nat \ {0}
    BY SessionAssumption
  <2>5. Answer(c)'
    BY <1>3, <2>2, <2>3, <2>4 DEF Answer
  <2> QED
    BY <1>3, <2>2, <2>3, <2>5 DEF Phase, Waits
<1>7. orderly' = orderly
  BY <1>2
<1> QED
  BY <1>4, <1>5, <1>6, <1>7, StepKeeps DEF Kept

(* What the interpreter does with a line, and with one of an orderly       *)
(* client.                                                                 *)
LEMMA InterpretFacts ==
  ASSUME Typed, NEW c \in Client, NEW t, NEW line \in Nat, Interpret(c, t, line)
  PROVE  /\ alive' \in BOOLEAN /\ (alive' => alive)
         /\ down' \in [Client -> Seq(Nat)] /\ serving' \in [Client -> Nat]
         /\ PerClient(stmts)' /\ PerClient(text)' /\ PerClient(pc)'
         /\ \A o \in Client \ {c} : /\ down'[o] = down[o] /\ stmts'[o] = stmts[o]
                                    /\ serving'[o] = serving[o] /\ pc'[o] = pc[o]
<1>1. PICK b \in Beyond :
        /\ stmts' = [stmts EXCEPT ![c] = Parsed[t, b].list]
        /\ \/ Reply(c, 1, line) \/ Silence \/ Death
  BY Zenon DEF Interpret
<1>2. /\ alive' \in BOOLEAN /\ (alive' => alive)
      /\ down' \in [Client -> Seq(Nat)]
      /\ \A o \in Client \ {c} : down'[o] = down[o]
  <2>1. CASE Reply(c, 1, line)
    <3>1. 1 \in Nat /\ Typed
      OBVIOUS
    <3>2. /\ alive' \in BOOLEAN /\ (alive' => alive)
          /\ down' \in [Client -> Seq(Nat)]
          /\ \A o \in Client \ {c} : down'[o] = down[o]
      BY ONLY <2>1, <3>1, ReplyFacts
    <3> QED
      BY <3>2
  <2>2. CASE Silence
    BY ONLY <2>2, Typed DEF Silence, Typed
  <2>3. CASE Death
    BY ONLY <2>3, Typed DEF Death, Typed
  <2> QED
    BY <1>1, <2>1, <2>2, <2>3
<1>3. /\ text' = [text EXCEPT ![c] = t]
      /\ serving' = [serving EXCEPT ![c] = line]
      /\ \E where : pc' = [pc EXCEPT ![c] = where]
  BY Zenon DEF Interpret, Go
<1> QED
  BY <1>1, <1>2, <1>3 DEF Typed, PerClient

LEMMA InterpretLine ==
  ASSUME LinesAsNamed, Typed, NEW c \in Client, NEW t \in Statement \cup Refused,
         NEW line \in Nat, Interpret(c, t, line), peer[c] = "open", down[c] = <<>>
  PROVE  /\ alive' = alive
         /\ \/ /\ pc'[c] = "execute" /\ serving'[c] = line /\ down'[c] = <<>>
               /\ \E kind \in Kind : stmts'[c] = <<kind>>
            \/ /\ pc'[c] = "query" /\ Len(down'[c]) = 1
               /\ \A k \in DOMAIN down'[c] : down'[c][k] = line
<1>1. PICK b \in Beyond :
        LET parsed == Parsed[t, b]
        IN  /\ stmts' = [stmts EXCEPT ![c] = parsed.list]
            /\ \/ parsed.kind = "error" /\ Reply(c, 1, line)
               \/ parsed.kind = "undefined" /\ (Silence \/ Death)
               \/ parsed.kind \notin {"error", "undefined"} /\ Silence
  BY Zenon DEF Interpret
<1>2. /\ serving' = [serving EXCEPT ![c] = line]
      /\ pc' = [pc EXCEPT ![c] = IF stmts'[c] = <<>> THEN "query" ELSE "execute"]
  BY Zenon DEF Interpret, Go
<1>3. /\ serving'[c] = line /\ stmts'[c] = Parsed[t, b].list
      /\ pc'[c] = IF stmts'[c] = <<>> THEN "query" ELSE "execute"
  BY <1>1, <1>2 DEF Typed, PerClient
<1>4. CASE t \in Statement
  <2>1. PICK kind \in Kind :
          Parsed[t, b].kind = "statements" /\ Parsed[t, b].list = <<kind>>
    BY <1>4 DEF LinesAsNamed
  <2>2. Silence
    BY <1>1, <2>1
  <2>3. <<kind>> # <<>>
    OBVIOUS
  <2> QED
    BY <1>3, <2>1, <2>2, <2>3 DEF Silence
<1>5. CASE t \in Refused
  <2>1. Parsed[t, b].kind = "error" /\ Parsed[t, b].list = <<>>
    BY <1>5 DEF LinesAsNamed
  <2>2. Reply(c, 1, line) /\ 1 \in Nat
    BY <1>1, <2>1
  <2>3. /\ alive' = alive /\ Len(down'[c]) = 1
        /\ \A k \in DOMAIN down'[c] : down'[c][k] = line
    BY <2>2, ReplyFacts
  <2> QED
    BY <1>3, <2>1, <2>3
<1> QED
  BY <1>4, <1>5

LEMMA ReadTextInv ==
  ASSUME LinesAsNamed, IInv, NEW c \in Client, alive, ReadText(c)
  PROVE  IInv'
<1>1. /\ Typed /\ sent[c] \in Nat /\ pc[c] = "query" /\ up[c] # <<>>
      /\ up' = [up EXCEPT ![c] = <<>>]
      /\ Interpret(c, up[c], sent[c])
      /\ at' = at /\ sent' = sent /\ peer' = peer /\ orderly' = orderly
  BY DEF IInv, Typed, ReadText, client
<1>2. /\ alive' \in BOOLEAN /\ (alive' => alive)
      /\ down' \in [Client -> Seq(Nat)] /\ serving' \in [Client -> Nat]
      /\ PerClient(stmts)' /\ PerClient(text)' /\ PerClient(pc)'
      /\ \A o \in Client \ {c} : /\ down'[o] = down[o] /\ stmts'[o] = stmts[o]
                                 /\ serving'[o] = serving[o] /\ pc'[o] = pc[o]
  BY <1>1, InterpretFacts
<1>3. Typed'
  BY <1>1, <1>2 DEF Typed, PerClient
<1>4. \A o \in Client \ {c} : Same(o)
  BY <1>1, <1>2 DEF Same, Typed, PerClient
<1>5. ASSUME orderly[c] PROVE alive' /\ Phase(c)' /\ Answer(c)'
  <2>1. Phase(c)
    BY <1>5 DEF IInv, Kept
  <2>2. /\ at[c] = "reading" /\ down[c] = <<>> /\ peer[c] = "open"
        /\ up[c] \in Statement \cup Refused
    BY <1>1, <2>1 DEF Phase, Waits, Asked
  <2>3. /\ alive' = alive
        /\ \/ /\ pc'[c] = "execute" /\ serving'[c] = sent[c] /\ down'[c] = <<>>
              /\ \E kind \in Kind : stmts'[c] = <<kind>>
           \/ /\ pc'[c] = "query" /\ Len(down'[c]) = 1
              /\ \A k \in DOMAIN down'[c] : down'[c][k] = sent[c]
    BY <1>1, <2>2, InterpretLine
  <2>4. up'[c] = <<>>
    BY <1>1 DEF Typed, PerClient
  <2>5. Capacity \in Nat \ {0} /\ Len(<<>>) = 0 /\ DOMAIN <<>> = {}
    BY SessionAssumption
  <2>6. Answer(c)'
    <3>1. CASE down'[c] = <<>>
      BY <1>1, <2>5, <3>1 DEF Answer
    <3>2. CASE Len(down'[c]) = 1 /\ \A k \in DOMAIN down'[c] : down'[c][k] = sent[c]
      BY <1>1, <2>5, <3>2 DEF Answer
    <3> QED
      BY <2>3, <3>1, <3>2
  <2> QED
    BY <1>1, <2>2, <2>3, <2>4, <2>6 DEF Phase, Waits, Asked
<1> QED
  BY <1>1, <1>3, <1>4, <1>5, StepKeeps DEF Kept

(* No orderly client has gone with its connection reset.                   *)
LEMMA ReadFailsInv ==
  ASSUME IInv, NEW c \in Client, alive, ReadFails(c)
  PROVE  IInv'
<1>1. CASE peer[c] = "closed"
  <2>1. UNCHANGED vars
    BY <1>1 DEF ReadFails
  <2>2. Typed' /\ \A o \in Client \ {c} : Same(o)
    BY <2>1 DEF IInv, Typed, PerClient, Same, vars, client, thread
  <2>3. alive' = alive /\ orderly' = orderly
    BY <2>1 DEF vars
  <2>4. Kept(c) => Kept(c)'
    BY <2>1 DEF Kept, Phase, Waits, Asked, Answer, vars, client, thread
  <2> QED
    BY <2>2, <2>3, <2>4, StepKeeps DEF IInv
<1>2. CASE peer[c] # "closed"
  <2>1. /\ Typed /\ serving[c] \in Nat /\ peer[c] # "open"
        /\ peer' = [peer EXCEPT ![c] = "closed"]
        /\ Interpret(c, text[c], serving[c])
        /\ at' = at /\ sent' = sent /\ up' = up /\ orderly' = orderly
    BY <1>2 DEF IInv, Typed, ReadFails, client
  <2>2. /\ alive' \in BOOLEAN /\ (alive' => alive)
        /\ down' \in [Client -> Seq(Nat)] /\ serving' \in [Client -> Nat]
        /\ PerClient(stmts)' /\ PerClient(text)' /\ PerClient(pc)'
        /\ \A o \in Client \ {c} : /\ down'[o] = down[o] /\ stmts'[o] = stmts[o]
                                   /\ serving'[o] = serving[o] /\ pc'[o] = pc[o]
    BY <2>1, InterpretFacts
  <2>3. Typed'
    BY <2>1, <2>2 DEF Typed, PerClient
  <2>4. \A o \in Client \ {c} : Same(o)
    BY <2>1, <2>2 DEF Same, Typed, PerClient
  <2>5. ~orderly[c]
    BY <1>2, <2>1 DEF IInv, Kept, Phase
  <2> QED
    BY <2>1, <2>2, <2>3, <2>4, <2>5, StepKeeps
<1> QED
  BY <1>1, <1>2

LEMMA ExecuteInv ==
  ASSUME IInv, NEW c \in Client, alive, Execute(c)
  PROVE  IInv'
<1>1. /\ Typed /\ serving[c] \in Nat /\ pc[c] = "execute"
      /\ stmts' = [stmts EXCEPT ![c] = Tail(@)]
      /\ pc' = [pc EXCEPT ![c] = IF stmts'[c] = <<>> THEN "query" ELSE "execute"]
      /\ at' = at /\ sent' = sent /\ up' = up /\ peer' = peer
      /\ text' = text /\ serving' = serving
  BY DEF IInv, Typed, Execute, Executed, Go, client
<1>2. \/ orderly' = [orderly EXCEPT ![c] = FALSE] /\ Death
      \/ \E n \in Nat :
           /\ Reply(c, n, serving[c])
           /\ \/ orderly' = [orderly EXCEPT ![c] = FALSE]
              \/ orderly' = [orderly EXCEPT ![c] = @ /\ n <= Capacity]
  BY SessionAssumption DEF Execute
<1>3. /\ alive' \in BOOLEAN /\ (alive' => alive) /\ down' \in [Client -> Seq(Nat)]
      /\ orderly' \in [Client -> BOOLEAN]
      /\ \A o \in Client \ {c} : down'[o] = down[o] /\ orderly'[o] = orderly[o]
      /\ orderly'[c] =>
           /\ orderly[c]
           /\ peer[c] = "open" /\ down[c] = <<>> =>
                /\ alive' = alive /\ Len(down'[c]) <= Capacity
                /\ \A k \in DOMAIN down'[c] : down'[c][k] = serving[c]
  <2>1. CASE orderly' = [orderly EXCEPT ![c] = FALSE] /\ Death
    BY <1>1, <2>1 DEF Death, Typed
  <2>2. CASE \E n \in Nat :
               /\ Reply(c, n, serving[c])
               /\ \/ orderly' = [orderly EXCEPT ![c] = FALSE]
                  \/ orderly' = [orderly EXCEPT ![c] = @ /\ n <= Capacity]
    <3>1. PICK n \in Nat :
               /\ Reply(c, n, serving[c])
               /\ \/ orderly' = [orderly EXCEPT ![c] = FALSE]
                  \/ orderly' = [orderly EXCEPT ![c] = @ /\ n <= Capacity]
      BY <2>2
    <3>2. /\ alive' \in BOOLEAN /\ (alive' => alive)
          /\ down' \in [Client -> Seq(Nat)]
          /\ \A o \in Client \ {c} : down'[o] = down[o]
          /\ peer[c] = "open" =>
               /\ alive' = alive
               /\ down[c] = <<>> => /\ Len(down'[c]) = n
                                    /\ \A k \in DOMAIN down'[c] : down'[c][k] = serving[c]
      BY <1>1, <3>1, ReplyFacts
    <3>3. /\ orderly' \in [Client -> BOOLEAN]
          /\ \A o \in Client \ {c} : orderly'[o] = orderly[o]
          /\ orderly'[c] => orderly[c] /\ n <= Capacity
      BY <1>1, <3>1 DEF Typed
    <3> QED
      BY <3>2, <3>3
  <2> QED
    BY <1>2, <2>1, <2>2
<1>4. Typed'
  BY <1>1, <1>3 DEF Typed, PerClient
<1>5. \A o \in Client \ {c} : Same(o)
  BY <1>1, <1>3 DEF Same, Typed, PerClient
<1>6. ASSUME orderly'[c] PROVE alive' /\ Phase(c)' /\ Answer(c)'
  <2>1. Phase(c)
    BY <1>3, <1>6 DEF IInv, Kept
  <2>2. /\ at[c] = "reading" /\ down[c] = <<>> /\ peer[c] = "open"
        /\ up[c] = <<>> /\ serving[c] = sent[c]
    BY <1>1, <2>1 DEF Phase, Waits, Asked
  <2>3. PICK kind \in Kind : stmts[c] = <<kind>>
    BY <1>1, <2>1 DEF Phase, Waits, Asked
  <2>4. Tail(<<kind>>) = <<>>
    OBVIOUS
  <2>5. stmts'[c] = <<>> /\ pc'[c] = "query"
    BY <1>1, <2>3, <2>4 DEF Typed, PerClient
  <2>6. Answer(c)'
    BY <1>1, <1>3, <1>6, <2>2 DEF Answer
  <2> QED
    BY <1>1, <1>3, <1>6, <2>2, <2>5, <2>6 DEF Phase, Waits
<1> QED
  BY <1>3, <1>4, <1>5, <1>6, StepKeeps DEF Kept

-----------------------------------------------------------------------------
LEMMA NextInv ==
  ASSUME LinesAsNamed, IInv, [Next]_vars
  PROVE  IInv'
<1>1. CASE UNCHANGED vars
  <2>1. \A c \in Client : Kept(c)' <=> Kept(c)
    BY <1>1 DEF Kept, Phase, Waits, Asked, Answer, vars, client, thread
  <2> QED
    BY <1>1, <2>1 DEF IInv, Typed, PerClient, OrderlyKeepsDaemon, vars, client, thread
<1>2. CASE Next
  <2>1. PICK c \in Client : \/ Dial(c) \/ Receive(c) \/ Quit(c) \/ Interrupt(c)
                            \/ \E line \in Line : Send(c, line)
                            \/ Thread(c)
    BY <1>2 DEF Next
  <2>2. CASE Dial(c) \/ Receive(c) \/ Quit(c) \/ Interrupt(c)
    BY <2>2, DialInv, ReceiveInv, QuitInv
  <2>3. CASE \E line \in Line : Send(c, line)
    BY <2>3, SendInv
  <2>4. CASE Thread(c)
    BY <2>4, WelcomeInv, ReadCommandInv, CommandsEndInv, ReadTextInv, ReadFailsInv,
       ExecuteInv DEF Thread
  <2> QED
    BY <2>1, <2>2, <2>3, <2>4
<1> QED
  BY <1>1, <1>2

THEOREM Invariance == ASSUME LinesAsNamed PROVE Spec => []IInv
<1>1. IInv /\ [Next]_vars => IInv'
  BY NextInv
<1> QED
  BY <1>1, InitInv, PTL DEF Spec

(* Clients that keep to the rules do not bring the daemon down: no reply   *)
(* to one of them goes to a connection whose other end is closed, which    *)
(* would kill it, and no text of one of them makes the parser read behind  *)
(* its tokens.                                                             *)
THEOREM OrderlyClientsKeepDaemon ==
  ASSUME LinesAsNamed PROVE Spec => []OrderlyKeepsDaemon
<1>1. IInv => OrderlyKeepsDaemon
  BY DEF IInv
<1> QED
  BY <1>1, Invariance, PTL

(* What the read of a client that keeps to the rules returns is the reply  *)
(* to the line it sent last, the whole of it and nothing else, whatever    *)
(* other clients do and even if the daemon dies.                           *)
THEOREM OrderlyRepliesMatch ==
  ASSUME LinesAsNamed PROVE Spec => RepliesMatch
<1> DEFINE Match ==
      \A c \in Client :
        orderly[c] /\ at[c] = "reading" /\ at'[c] = "prompt" /\ down[c] # <<>> =>
          (\A k \in DOMAIN down[c] : down[c][k] = sent[c]) /\ down'[c] = <<>>
<1>1. ASSUME IInv, [Next]_vars PROVE [Match]_vars
  <2>1. SUFFICES ASSUME NEW c \in Client, orderly[c], at[c] = "reading", at'[c] = "prompt",
                        Next
                 PROVE  (\A k \in DOMAIN down[c] : down[c][k] = sent[c]) /\ down'[c] = <<>>
    BY <1>1
  <2>2. Answer(c) /\ Typed
    BY <1>1, <2>1 DEF IInv, Kept
  <2>3. Receive(c)
    BY <2>1, <2>2 DEF Next, Typed, PerClient, Dial, Receive, Quit, Interrupt, Close, Send,
       Thread, Welcome, ReadCommand, CommandsEnd, ReadText, ReadFails, Execute, client, vars
  <2>4. Len(down[c]) \in Nat /\ Capacity \in Nat /\ Len(down[c]) < Capacity + 1
    BY <2>2, SessionAssumption DEF Answer, Typed
  <2>5. SubSeq(down[c], Capacity + 1, Len(down[c])) = <<>>
    BY <2>4, SubSeqEmpty
  <2>6. down'[c] = <<>>
    BY <2>2, <2>3, <2>5 DEF Receive, Typed
  <2> QED
    BY <2>2, <2>6 DEF Answer
<1> QED
  BY <1>1, Invariance, PTL DEF Spec, RepliesMatch

-----------------------------------------------------------------------------
(* WHERE clauses.  First sets of positions, and their order.              *)

(* A set of numbers that is not empty has a least element.                 *)
LEMMA Least ==
  ASSUME NEW X \in SUBSET Nat, X # {}
  PROVE  Min(X) \in X /\ \A y \in X : Min(X) <= y
<1> DEFINE R == OpToRel(<, Nat)
<1>1. \A x, y \in Nat : <<y, x>> \in R <=> y < x
  BY DEF OpToRel
<1>2. IsWellFoundedOn(R, Nat)
  BY NatLessThanWellFounded, Zenon
<1> HIDE DEF R
<1>3. X \subseteq Nat /\ X # {}
  OBVIOUS
<1>4. PICK x \in X : \A y \in X : ~(<<y, x>> \in R)
  BY <1>2, <1>3, WFMin, Zenon
<1>5. ASSUME NEW y \in X PROVE x <= y
  <2>1. x \in Nat /\ y \in Nat /\ ~(y < x)
    BY <1>1, <1>4
  <2> QED BY <2>1
<1> QED BY <1>5 DEF Min

(* A set of numbers below a bound that is not empty has a greatest one.    *)
LEMMA Greatest ==
  ASSUME NEW n \in Nat, NEW X \in SUBSET (1..n), X # {}
  PROVE  \E x \in X : \A y \in X : y <= x
<1> DEFINE D == {n - x : x \in X}
<1>0. \A x \in X : x \in 1..n
  OBVIOUS
<1>1. D \in SUBSET Nat /\ D # {}
  <2>1. \A x \in X : n - x \in Nat
    BY <1>0
  <2>2. D \subseteq Nat
    BY <2>1
  <2>3. PICK x \in X : TRUE
    OBVIOUS
  <2>4. n - x \in D
    BY <2>3
  <2> QED BY <2>2, <2>4
<1>2. PICK d \in D : \A y \in D : d <= y
  BY <1>1, Least
<1>3. PICK x \in X : d = n - x
  OBVIOUS
<1>4. \A y \in X : n - y \in D
  OBVIOUS
<1> HIDE DEF D
<1>5. \A y \in X : y <= x
  BY <1>0, <1>2, <1>3, <1>4
<1> QED BY <1>5

-----------------------------------------------------------------------------
(* Rows in their order. *)

Increasing(s) == \A m, n \in DOMAIN s : m < n => s[m] < s[n]

(* A set of positions is finite.                                           *)
LEMMA Positions ==
  ASSUME NEW n \in Nat, NEW X \in SUBSET (1..n)
  PROVE  IsFiniteSet(X) /\ Cardinality(X) \in Nat
<1>1. IsFiniteSet(1..n) /\ X \in SUBSET (1..n)
  BY FS_Interval
<1> QED BY <1>1, FS_Subset, FS_CardinalityType

(* They can be put in order.                                               *)
LEMMA Ordered ==
  ASSUME NEW n \in Nat
  PROVE  \A X \in SUBSET (1..n) : \E s \in SetToSeqs(X) : Increasing(s)
<1> DEFINE Can(k) == \A X \in SUBSET (1..k) : \E s \in SetToSeqs(X) : Increasing(s)
           Bad == {k \in Nat : ~Can(k)}
<1>1. ASSUME Bad # {} PROVE FALSE
  <2>1. PICK k \in Bad : \A j \in Bad : k <= j
    BY <1>1, Least
  <2>2. PICK X \in SUBSET (1..k) : \A s \in SetToSeqs(X) : ~Increasing(s)
    BY <2>1
  <2>3. IsFiniteSet(X) /\ Cardinality(X) \in Nat
    BY Positions
  <2>4. CASE k = 0
    <3>1. X = {} /\ Cardinality(X) = 0
      <4>1. X = {}
        BY <2>2, <2>4
      <4> QED BY <4>1, FS_EmptySet
    <3>2. <<>> \in SetToSeqs(X)
      BY <3>1 DEF SetToSeqs
    <3>3. Increasing(<<>>)
      BY DEF Increasing
    <3> QED BY <2>2, <3>2, <3>3
  <2>5. CASE k # 0
    <3>1. k - 1 \in Nat /\ Can(k - 1)
      BY <2>1, <2>5
    <3> DEFINE Y == X \ {k}
    <3>2. Y \in SUBSET (1..(k - 1))
      BY <2>1, <2>5
    <3>3. PICK s \in SetToSeqs(Y) : Increasing(s)
      BY <3>1, <3>2
    <3>4. k \in X
      BY <2>2, <3>3
    <3>5. IsFiniteSet(Y) /\ Cardinality(Y) = Cardinality(X) - 1 /\ Cardinality(Y) \in Nat
      BY <2>3, <3>4, FS_RemoveElement, FS_CardinalityType
    <3> DEFINE c == Cardinality(X)
               t == [i \in 1..c |-> IF i = c THEN k ELSE s[i]]
    <3>6. /\ s \in [1..(c - 1) -> Y] /\ \A i, j \in 1..(c - 1) : i # j => s[i] # s[j]
          /\ \A i, j \in 1..(c - 1) : i < j => s[i] < s[j]
      <4>1. s \in [1..Cardinality(Y) -> Y]
            /\ \A i, j \in 1..Cardinality(Y) : i # j => s[i] # s[j]
        BY <3>3 DEF SetToSeqs
      <4>2. DOMAIN s = 1..(c - 1)
        BY <3>5, <4>1
      <4> QED BY <3>3, <3>5, <4>1, <4>2 DEF Increasing
    <3>7. c \in Nat \ {0}
      BY <2>3, <3>5
    <3>8. \A i \in 1..(c - 1) : s[i] \in X /\ s[i] \in Nat /\ s[i] < k
      <4>1. \A y \in Y : y \in X /\ y \in Nat /\ y < k
        BY <2>1, <3>2
      <4> QED BY <3>6, <4>1
    <3> HIDE DEF Y
    <3>9. DOMAIN t = 1..c /\ t[c] = k /\ \A i \in 1..(c - 1) : t[i] = s[i]
      BY <3>7
    <3>10. \A i \in 1..c : i = c \/ i \in 1..(c - 1)
      BY <3>7
    <3>11. t \in [1..c -> X]
      BY <3>4, <3>8, <3>10
    <3> HIDE DEF t
    <3>12. \A i, j \in 1..c : i < j => t[i] < t[j]
      BY <2>1, <3>6, <3>7, <3>8, <3>9, <3>10
    <3>13. \A i, j \in 1..c : i # j => t[i] # t[j]
      <4>1. SUFFICES ASSUME NEW i \in 1..c, NEW j \in 1..c, i # j PROVE t[i] # t[j]
        OBVIOUS
      <4>2. t[i] \in Nat /\ t[j] \in Nat
        <5>1. \A x \in X : x \in Nat
          BY <2>1
        <5> QED BY <3>11, <4>1, <5>1
      <4>3. i < j \/ j < i
        BY <3>7, <4>1
      <4> QED BY <3>12, <4>2, <4>3
    <3>14. t \in SetToSeqs(X) /\ Increasing(t)
      BY <3>9, <3>11, <3>12, <3>13 DEF SetToSeqs, Increasing
    <3> QED BY <2>2, <3>14
  <2> QED BY <2>4, <2>5
<1> QED BY <1>1

LEMMA AscendingFacts ==
  ASSUME NEW n \in Nat, NEW X \in SUBSET (1..n)
  PROVE  /\ Ascending(X) \in Seq(X)
         /\ Increasing(Ascending(X))
         /\ Range(Ascending(X)) = X
<1> DEFINE s == Ascending(X)
<1>1. s \in SetToSeqs(X) /\ Increasing(s)
  BY Ordered DEF Ascending, Increasing
<1> HIDE DEF s
<1>2. IsFiniteSet(X) /\ Cardinality(X) \in Nat
  BY Positions
<1> DEFINE c == Cardinality(X)
<1>3. s \in [1..c -> X] /\ \A i, j \in 1..c : i # j => s[i] # s[j]
  BY <1>1 DEF SetToSeqs
<1>4. s \in Seq(X)
  BY <1>2, <1>3
<1>5. s \in Injection(1..c, X)
  BY <1>3 DEF Injection, IsInjective
<1>6. Cardinality(1..c) = c
  BY <1>2, FS_Interval
<1>7. s \in Surjection(1..c, X)
  BY <1>2, <1>5, <1>6, FS_Injection
<1>8. Range(s) = X
  BY <1>3, <1>7 DEF Range, Surjection
<1> QED BY <1>1, <1>4, <1>8 DEF s

-----------------------------------------------------------------------------
(* What a comparison selects. *)

Chained ==
  /\ chain \in Seq([key : Nat \ {NoKey}, visible : BOOLEAN])
  /\ \A i, j \in DOMAIN chain : i < j => chain[i].key <= chain[j].key

(* Rows the transaction sees; and of every key one at most.                *)
Shown(rows) == rows \in Seq(DOMAIN chain) /\ \A n \in DOMAIN rows : chain[rows[n]].visible
Once(rows) == \A m, n \in DOMAIN rows : SameKey(chain, rows[m], rows[n]) => m = n

LEMMA ChainFacts ==
  ASSUME Chained
  PROVE  /\ Len(chain) \in Nat /\ DOMAIN chain = 1..Len(chain)
         /\ \A i \in DOMAIN chain : chain[i].key \in Nat \ {NoKey}
<1>1. Len(chain) \in Nat /\ DOMAIN chain = 1..Len(chain)
  BY DEF Chained
<1>2. ASSUME NEW i \in DOMAIN chain PROVE chain[i].key \in Nat \ {NoKey}
  <2>1. chain[i] \in [key : Nat \ {NoKey}, visible : BOOLEAN]
    BY <1>1, ElementOfSeq DEF Chained
  <2> QED BY <2>1
<1> QED BY <1>1, <1>2

(* What a range query comes to.                                            *)
Found(key1, key2, includeKey1, includeKey2) ==
  {i \in Walk(chain, FirstBlock(chain, lost, key1), key2) :
     /\ Taken(chain[i].key, key1, key2, includeKey1, includeKey2)
     /\ chain[i].visible}

Returns(rows, found) == /\ Shown(rows) /\ Range(rows) = found
                        /\ OneVisible => Once(rows)

LEMMA RangeRows ==
  ASSUME Chained, NEW key1, NEW key2, NEW includeKey1, NEW includeKey2
  PROVE  Returns(RangeQuery(chain, lost, key1, key2, includeKey1, includeKey2),
                 Found(key1, key2, includeKey1, includeKey2))
<1> DEFINE found == Found(key1, key2, includeKey1, includeKey2)
           rows  == RangeQuery(chain, lost, key1, key2, includeKey1, includeKey2)
<1>1. found \in SUBSET (1..Len(chain)) /\ Len(chain) \in Nat
  <2>1. found \subseteq DOMAIN chain
    BY DEF Found, Walk
  <2> QED BY <2>1, ChainFacts
<1>2. \A i \in found : chain[i].visible
  BY DEF Found
<1>3. rows = Ascending(found)
  BY DEF RangeQuery, Found
<1> HIDE DEF found, rows
<1>4. rows \in Seq(found) /\ Increasing(rows) /\ Range(rows) = found
  BY <1>1, <1>3, AscendingFacts
<1>5. \A n \in DOMAIN rows : rows[n] \in found
  BY <1>4
<1>6. Shown(rows)
  <2>1. found \subseteq DOMAIN chain
    BY <1>1, ChainFacts
  <2>2. rows \in Seq(DOMAIN chain)
    BY <1>4, <2>1
  <2> QED BY <1>2, <1>5, <2>2 DEF Shown
<1>7. ASSUME OneVisible PROVE Once(rows)
  <2>1. SUFFICES ASSUME NEW m \in DOMAIN rows, NEW n \in DOMAIN rows,
                        SameKey(chain, rows[m], rows[n]), m # n
                 PROVE  FALSE
    BY DEF Once
  <2>2. rows[m] = rows[n]
    BY <1>1, <1>2, <1>5, <1>7, <2>1, ChainFacts DEF OneVisible, SameKey
  <2>3. m \in Nat /\ n \in Nat /\ rows[m] \in Nat
    <3>1. \A x \in found : x \in Nat
      BY <1>1
    <3> QED BY <1>4, <1>5, <2>1, <3>1
  <2>4. m < n \/ n < m
    BY <2>1, <2>3
  <2> QED BY <1>4, <2>1, <2>2, <2>3, <2>4 DEF Increasing
<1> QED BY <1>4, <1>6, <1>7 DEF rows, found, Returns

(* The first block with a key is where search leads, unless it misses it.  *)
LEMMA FirstBlockFacts ==
  ASSUME Chained, NEW key \in Nat \ {NoKey}
  PROVE  LET f == FirstBlock(chain, lost, key)
         IN  \/ f = 0 /\ (key \in lost \/ \A i \in DOMAIN chain : chain[i].key # key)
             \/ /\ f \in DOMAIN chain /\ chain[f].key = key /\ key \notin lost
                /\ \A i \in DOMAIN chain : chain[i].key = key => f <= i
<1> DEFINE X == {i \in 1..Len(chain) : chain[i].key = key}
           f == FirstBlock(chain, lost, key)
<1>1. f = IF key \in lost THEN 0 ELSE IF X # {} THEN Min(X) ELSE 0
  BY DEF FirstBlock, SelectInSeq
<1>2. Len(chain) \in Nat /\ DOMAIN chain = 1..Len(chain)
  BY ChainFacts
<1>3. X \in SUBSET Nat
  BY <1>2
<1>4. X # {} => Min(X) \in X /\ \A y \in X : Min(X) <= y
  BY <1>3, Least
<1> HIDE DEF f
<1>5. CASE key \in lost
  BY <1>1, <1>5 DEF f
<1>6. CASE key \notin lost /\ X = {}
  BY <1>1, <1>2, <1>6 DEF f
<1>7. CASE key \notin lost /\ X # {}
  <2>1. f \in X /\ \A y \in X : f <= y
    BY <1>1, <1>4, <1>7
  <2> QED BY <1>2, <1>7, <2>1 DEF f
<1> QED BY <1>5, <1>6, <1>7

(* A key meets a comparison with a bound, as the engine executes it.       *)
Meets(op, bound, k) ==
  \/ op \in {"LESS", "LESS_EQUAL"} /\ k <= bound
  \/ op \in {"GREATER", "GREATER_EQUAL"} /\ k >= bound
  \/ op = "EQUAL" /\ k = bound

(* The bound of a comparison is found as far as it has to be.              *)
Bounded(op, bound) ==
  /\ op \in {"GREATER", "GREATER_EQUAL"} => FirstBlock(chain, lost, bound) # 0
  /\ op = "EQUAL" => bound \notin lost

LEMMA CompareFacts ==
  ASSUME Chained, NEW op \in Comparison, NEW bound \in Nat \ {NoKey}
  PROVE  LET rows == Compare(chain, lost, op, bound)
         IN  /\ Shown(rows) /\ (OneVisible => Once(rows))
             /\ \A r \in Range(rows) : Meets(op, bound, chain[r].key)
             /\ Bounded(op, bound) =>
                  \A i \in DOMAIN chain :
                    chain[i].visible /\ Meets(op, bound, chain[i].key) => i \in Range(rows)
<1> DEFINE rows == Compare(chain, lost, op, bound)
           first == FirstBlock(chain, lost, bound)
<1>0. Len(chain) \in Nat /\ DOMAIN chain = 1..Len(chain)
  BY ChainFacts
<1>1. CASE op \in {"LESS", "LESS_EQUAL"}
  <2>1. PICK b \in BOOLEAN : rows = RangeQuery(chain, lost, NoKey, bound, TRUE, b)
    BY <1>1 DEF Compare
  <2>2. FirstBlock(chain, lost, NoKey) = IF chain = <<>> THEN 0 ELSE 1
    BY DEF FirstBlock
  <2>3. DOMAIN chain = {} \/ FirstBlock(chain, lost, NoKey) = 1
    BY <2>2
  <2> HIDE DEF rows
  <2>20. Returns(rows, Found(NoKey, bound, TRUE, b))
    BY <2>1, RangeRows, Zenon
  <2>4. Shown(rows) /\ (OneVisible => Once(rows))
    BY <2>20 DEF Returns
  <2>5. Range(rows) = {i \in DOMAIN chain : chain[i].key <= bound /\ chain[i].visible}
    BY <1>0, <2>20, <2>3 DEF Returns, Found, Walk, Taken
  <2>6. \A k : Meets(op, bound, k) <=> k <= bound
    BY <1>1 DEF Meets
  <2> QED BY <2>4, <2>5, <2>6 DEF rows
<1>2. CASE op \in {"GREATER", "GREATER_EQUAL"}
  <2>1. PICK b \in BOOLEAN : rows = RangeQuery(chain, lost, bound, NoKey, b, TRUE)
    BY <1>2 DEF Compare
  <2> HIDE DEF rows
  <2>20. Returns(rows, Found(bound, NoKey, b, TRUE))
    BY <2>1, RangeRows, Zenon
  <2>4. Shown(rows) /\ (OneVisible => Once(rows))
    BY <2>20 DEF Returns
  <2>5. Range(rows) = {i \in DOMAIN chain : first # 0 /\ first <= i /\ chain[i].visible}
    BY <2>20 DEF Returns, Found, Walk, Taken
  <2>6. \A k : Meets(op, bound, k) <=> k >= bound
    BY <1>2 DEF Meets
  <2>7. first = 0 \/ (first \in DOMAIN chain /\ chain[first].key = bound /\
                      \A i \in DOMAIN chain : chain[i].key = bound => first <= i)
    BY FirstBlockFacts
  <2> HIDE DEF first
  <2>8. ASSUME NEW i \in DOMAIN chain, first # 0
        PROVE  first <= i <=> chain[i].key >= bound
    <3>1. first \in Nat /\ i \in Nat /\ chain[i].key \in Nat
      BY <1>0, <2>7, <2>8, ChainFacts
    <3>2. first < i => bound <= chain[i].key
      BY <2>7, <2>8 DEF Chained
    <3>3. i < first => chain[i].key <= bound /\ chain[i].key # bound
      BY <2>7, <2>8, <3>1 DEF Chained
    <3>4. chain[first].key = bound /\ bound \in Nat
      BY <2>7, <2>8
    <3> DEFINE k == chain[i].key
    <3>5. /\ first < i => bound <= k
          /\ i < first => k <= bound /\ k # bound
          /\ i = first => k = bound
      BY <3>2, <3>3, <3>4
    <3>6. k \in Nat
      BY <3>1
    <3> HIDE DEF k
    <3>7. first <= i <=> k >= bound
      BY <3>1, <3>4, <3>5, <3>6
    <3> QED BY <3>7 DEF k
  <2>9. Bounded(op, bound) => first # 0
    BY <1>2 DEF Bounded, first
  <2> QED BY <2>4, <2>5, <2>6, <2>8, <2>9 DEF rows
<1>3. CASE op = "EQUAL"
  <2>1. rows = RangeQuery(chain, lost, bound, bound, TRUE, TRUE)
    BY <1>3 DEF Compare
  <2> HIDE DEF rows
  <2>20. Returns(rows, Found(bound, bound, TRUE, TRUE))
    BY <2>1, RangeRows, Zenon
  <2>4. Shown(rows) /\ (OneVisible => Once(rows))
    BY <2>20 DEF Returns
  <2>5. Range(rows) = {i \in DOMAIN chain : /\ first # 0 /\ first <= i /\ chain[i].key <= bound
                                            /\ chain[i].key = bound /\ chain[i].visible}
    BY <2>20 DEF Returns, Found, Walk, Taken
  <2>6. \A k : Meets(op, bound, k) <=> k = bound
    BY <1>3 DEF Meets
  <2>7. bound \notin lost =>
          \A i \in DOMAIN chain : chain[i].key = bound => first # 0 /\ first <= i
    BY <1>0, FirstBlockFacts
  <2>8. Bounded(op, bound) => bound \notin lost
    BY <1>3 DEF Bounded
  <2> HIDE DEF first
  <2> QED BY <2>4, <2>5, <2>6, <2>7, <2>8 DEF rows
<1> QED BY <1>1, <1>2, <1>3 DEF Comparison
-----------------------------------------------------------------------------
(* What AND and OR make of two results. *)

LEMMA ShownFacts ==
  ASSUME Chained, NEW rows, Shown(rows)
  PROVE  /\ Len(rows) \in Nat /\ DOMAIN rows = 1..Len(rows)
         /\ \A n \in DOMAIN rows : rows[n] \in DOMAIN chain /\ chain[rows[n]].visible
<1>1. rows \in Seq(DOMAIN chain)
  BY DEF Shown
<1>2. Len(rows) \in Nat /\ DOMAIN rows = 1..Len(rows)
  BY <1>1
<1>3. \A n \in DOMAIN rows : rows[n] \in DOMAIN chain
  BY <1>1, <1>2, ElementOfSeq
<1> QED BY <1>2, <1>3 DEF Shown

LEMMA IncreasingOnce ==
  ASSUME NEW k \in Nat, NEW X \in SUBSET (1..k), NEW m \in DOMAIN Ascending(X),
         NEW n \in DOMAIN Ascending(X), Ascending(X)[m] = Ascending(X)[n]
  PROVE  m = n
<1> DEFINE s == Ascending(X)
<1>1. s \in Seq(X) /\ Increasing(s)
  BY AscendingFacts
<1>2. s[m] \in Nat /\ m \in Nat /\ n \in Nat /\ s[m] = s[n]
  <2>1. \A x \in X : x \in Nat
    OBVIOUS
  <2>2. Len(s) \in Nat /\ DOMAIN s = 1..Len(s)
    BY <1>1
  <2>3. s[m] \in X
    BY <1>1, <2>2, ElementOfSeq
  <2> HIDE DEF s
  <2>4. m \in DOMAIN s /\ n \in DOMAIN s /\ s[m] = s[n]
    BY DEF s
  <2>5. \A i \in DOMAIN s : i \in Nat
    BY <2>2
  <2>6. s[m] \in Nat
    BY <2>1, <2>3
  <2> QED BY <2>4, <2>5, <2>6
<1> HIDE DEF s
<1>3. m \in DOMAIN s /\ n \in DOMAIN s
  BY DEF s
<1>4. m < n \/ n < m \/ m = n
  BY <1>2
<1> QED BY <1>1, <1>2, <1>3, <1>4 DEF Increasing

Joined(rows, left, right) ==
  /\ Shown(rows)
  /\ Once(left) => Once(rows)
  /\ \A r \in Range(rows) : /\ r \in Range(right)
                            /\ \E l \in Range(left) : SameKey(chain, l, r)
  /\ \A l \in Range(left), r \in Range(right) :
       SameKey(chain, l, r) => \E x \in Range(rows) : SameKey(chain, x, l)

LEMMA AndFacts ==
  ASSUME Chained, NEW left, NEW right, Shown(left), Shown(right)
  PROVE  Joined(AndRows(chain, left, right), left, right)
<1> DEFINE M    == {m \in DOMAIN left : \E r \in Range(right) : SameKey(chain, left[m], r)}
           both == Ascending(M)
           I(n) == {i \in 1..Len(right) : SameKey(chain, left[both[n]], right[i])}
           pick == [n \in DOMAIN both |-> IF I(n) # {} THEN Min(I(n)) ELSE 0]
           rows == [n \in DOMAIN both |-> right[pick[n]]]
<1>1. AndRows(chain, left, right) = rows
  BY DEF AndRows, SelectInSeq
<1>2. /\ Len(left) \in Nat /\ DOMAIN left = 1..Len(left)
      /\ Len(right) \in Nat /\ DOMAIN right = 1..Len(right)
      /\ \A n \in DOMAIN right : right[n] \in DOMAIN chain /\ chain[right[n]].visible
  BY ShownFacts
<1>3. M \in SUBSET (1..Len(left))
  BY <1>2
<1>4. both \in Seq(M) /\ Range(both) = M
  BY <1>2, <1>3, AscendingFacts
<1>5. Len(both) \in Nat /\ DOMAIN both = 1..Len(both)
  BY <1>4
<1>6. \A n \in DOMAIN both : both[n] \in M
  BY <1>4, <1>5, ElementOfSeq
<1>7. \A m, n \in DOMAIN both : both[m] = both[n] => m = n
  BY <1>2, <1>3, IncreasingOnce
<1>8. \A m \in M : \E n \in DOMAIN both : both[n] = m
  BY <1>4 DEF Range
<1>9. \A m \in M : m \in DOMAIN left /\ \E i \in DOMAIN right : SameKey(chain, left[m], right[i])
  BY DEF Range
<1>10. \A m \in DOMAIN left, i \in DOMAIN right : SameKey(chain, left[m], right[i]) => m \in M
  BY DEF Range
<1> HIDE DEF M, both
<1>11. ASSUME NEW n \in DOMAIN both
       PROVE  pick[n] \in DOMAIN right /\ SameKey(chain, left[both[n]], right[pick[n]])
  <2>1. I(n) # {} /\ I(n) \in SUBSET Nat
    BY <1>2, <1>6, <1>9
  <2>2. pick[n] = Min(I(n))
    BY <2>1
  <2>3. pick[n] \in I(n)
    BY <2>1, <2>2, Least
  <2> QED BY <1>2, <2>3
<1> HIDE DEF pick
<1>12. DOMAIN rows = DOMAIN both /\ \A n \in DOMAIN both : rows[n] = right[pick[n]]
  OBVIOUS
<1>13. rows \in Seq(DOMAIN chain)
  BY <1>2, <1>5, <1>11
<1> HIDE DEF rows
<1>14. Shown(rows)
  BY <1>2, <1>11, <1>12, <1>13 DEF Shown
<1>15. ASSUME Once(left) PROVE Once(rows)
  <2>1. SUFFICES ASSUME NEW m \in DOMAIN rows, NEW n \in DOMAIN rows,
                        SameKey(chain, rows[m], rows[n])
                 PROVE  m = n
    BY DEF Once
  <2>2. SameKey(chain, left[both[m]], left[both[n]])
    BY <1>11, <1>12, <2>1 DEF SameKey
  <2>3. both[m] \in DOMAIN left /\ both[n] \in DOMAIN left
    BY <1>6, <1>9, <1>12, <2>1
  <2>4. both[m] = both[n]
    BY <1>15, <2>2, <2>3 DEF Once
  <2> QED BY <1>7, <1>12, <2>1, <2>4
<1>16. \A r \in Range(rows) : /\ r \in Range(right)
                              /\ \E l \in Range(left) : SameKey(chain, l, r)
  <2>1. SUFFICES ASSUME NEW n \in DOMAIN rows
                 PROVE  /\ rows[n] \in Range(right)
                        /\ \E l \in Range(left) : SameKey(chain, l, rows[n])
    BY DEF Range
  <2>2. both[n] \in DOMAIN left
    BY <1>6, <1>9, <1>12
  <2>3. left[both[n]] \in Range(left) /\ right[pick[n]] \in Range(right)
    BY <1>11, <1>12, <2>2 DEF Range
  <2> QED BY <1>11, <1>12, <2>3
<1>17. ASSUME NEW l \in Range(left), NEW r \in Range(right), SameKey(chain, l, r)
       PROVE  \E x \in Range(rows) : SameKey(chain, x, l)
  <2>1. PICK m \in DOMAIN left, i \in DOMAIN right : l = left[m] /\ r = right[i]
    BY <1>17 DEF Range
  <2>2. PICK n \in DOMAIN both : both[n] = m
    BY <1>8, <1>10, <1>17, <2>1
  <2>3. SameKey(chain, left[m], right[pick[n]])
    BY <1>11, <2>2
  <2>4. rows[n] \in Range(rows) /\ SameKey(chain, rows[n], l)
    BY <1>12, <2>1, <2>3 DEF Range, SameKey
  <2> QED BY <2>4
<1> QED BY <1>1, <1>14, <1>15, <1>16, <1>17 DEF Joined

United(rows, left, right) ==
  /\ Shown(rows)
  /\ Once(left) => Once(rows)
  /\ Range(left) \subseteq Range(rows) /\ Range(rows) \subseteq Range(left) \cup Range(right)
  /\ \A r \in Range(right) : \E x \in Range(rows) : SameKey(chain, x, r)

LEMMA OrFacts ==
  ASSUME Chained, NEW left, NEW right, Shown(left), Shown(right)
  PROVE  United(OrRows(chain, left, right), left, right)
<1> DEFINE N    == {n \in DOMAIN right :
                      /\ \A l \in Range(left) : ~SameKey(chain, l, right[n])
                      /\ \A m \in 1..(n - 1) : ~SameKey(chain, right[m], right[n])}
           new  == Ascending(N)
           more == [n \in DOMAIN new |-> right[new[n]]]
           rows == left \o more
<1>1. OrRows(chain, left, right) = rows
  BY DEF OrRows
<1>2. /\ Len(left) \in Nat /\ DOMAIN left = 1..Len(left)
      /\ Len(right) \in Nat /\ DOMAIN right = 1..Len(right)
      /\ \A n \in DOMAIN right : right[n] \in DOMAIN chain /\ chain[right[n]].visible
      /\ \A n \in DOMAIN left : left[n] \in DOMAIN chain /\ chain[left[n]].visible
  BY ShownFacts
<1>3. N \in SUBSET (1..Len(right))
  BY <1>2
<1>9. \A n \in N : /\ n \in DOMAIN right /\ n \in Nat
                   /\ \A l \in DOMAIN left : ~SameKey(chain, left[l], right[n])
                   /\ \A m \in N : m < n => ~SameKey(chain, right[m], right[n])
  <2>1. \A n \in N : /\ n \in DOMAIN right /\ n \in Nat
                     /\ \A l \in DOMAIN left : ~SameKey(chain, left[l], right[n])
    BY <1>2 DEF Range
  <2>2. \A n \in N : \A m \in 1..(n - 1) : ~SameKey(chain, right[m], right[n])
    OBVIOUS
  <2>3. \A n, m \in N : m < n => m \in 1..(n - 1)
    BY <1>3
  <2> QED BY <2>1, <2>2, <2>3
<1>10. \A n \in DOMAIN right :
         \/ \E l \in Range(left) : SameKey(chain, l, right[n])
         \/ \E m \in N : SameKey(chain, right[m], right[n])
  <2>1. SUFFICES ASSUME NEW n \in DOMAIN right,
                        \A l \in Range(left) : ~SameKey(chain, l, right[n])
                 PROVE  \E m \in N : SameKey(chain, right[m], right[n])
    OBVIOUS
  <2> DEFINE X == {m \in DOMAIN right : SameKey(chain, right[m], right[n])}
  <2>2. X \in SUBSET Nat /\ X # {}
    BY <1>2 DEF SameKey
  <2>3. PICK m \in X : \A k \in X : m <= k
    BY <2>2, Least
  <2>4. \A k \in 1..(m - 1) : k \in DOMAIN right /\ k \notin X
    BY <1>2, <2>3
  <2>5. m \in N
    BY <2>1, <2>3, <2>4 DEF SameKey
  <2> QED BY <2>3, <2>5
<1> HIDE DEF N
<1>4. new \in Seq(N) /\ Range(new) = N
  BY <1>2, <1>3, AscendingFacts
<1>5. Len(new) \in Nat /\ DOMAIN new = 1..Len(new)
  BY <1>4
<1>6. \A n \in DOMAIN new : new[n] \in N
  BY <1>4, <1>5, ElementOfSeq
<1>7. \A m, n \in DOMAIN new : new[m] = new[n] => m = n
  BY <1>2, <1>3, IncreasingOnce
<1>8. \A m \in N : \E n \in DOMAIN new : new[n] = m
  BY <1>4 DEF Range
<1> HIDE DEF new
<1>11. more \in Seq(DOMAIN chain) /\ Len(more) = Len(new)
  BY <1>2, <1>5, <1>6, <1>9
<1>12. \A n \in DOMAIN new : more[n] = right[new[n]]
  OBVIOUS
<1> HIDE DEF more
<1>13. left \in Seq(DOMAIN chain)
  BY DEF Shown
<1>14. /\ rows \in Seq(DOMAIN chain) /\ Len(rows) = Len(left) + Len(new)
       /\ \A i \in 1..Len(left) : rows[i] = left[i]
       /\ \A i \in 1..Len(new) : rows[Len(left) + i] = more[i]
  <2> DEFINE p == Len(left)
             q == Len(more)
  <2>1. p \in Nat /\ q \in Nat /\ q = Len(new)
    BY <1>2, <1>5, <1>11
  <2>2. rows \in Seq(DOMAIN chain) /\ Len(rows) = p + q
    BY <1>11, <1>13, ConcatProperties
  <2>3. \A i \in 1..(p + q) : rows[i] = IF i <= p THEN left[i] ELSE more[i - p]
    BY <1>11, <1>13, ConcatProperties
  <2> HIDE DEF rows, p, q
  <2>4. \A i \in 1..p : i \in 1..(p + q) /\ i <= p
    BY <2>1
  <2>5. \A i \in 1..q : p + i \in 1..(p + q) /\ ~(p + i <= p) /\ (p + i) - p = i
    BY <2>1
  <2>6. /\ \A i \in 1..p : rows[i] = left[i]
        /\ \A i \in 1..q : rows[p + i] = more[i]
    BY <2>3, <2>4, <2>5
  <2> QED BY <2>1, <2>2, <2>6 DEF p
<1> HIDE DEF rows
<1>15. DOMAIN rows = 1..(Len(left) + Len(new))
  BY <1>14
<1>16. \A i \in DOMAIN rows :
         \/ i \in DOMAIN left /\ rows[i] = left[i]
         \/ \E n \in DOMAIN new : i = Len(left) + n /\ rows[i] = right[new[n]]
  <2>1. SUFFICES ASSUME NEW i \in DOMAIN rows, i \notin 1..Len(left)
                 PROVE  \E n \in DOMAIN new : i = Len(left) + n /\ rows[i] = right[new[n]]
    BY <1>2, <1>14
  <2> DEFINE n == i - Len(left)
  <2>2. n \in 1..Len(new) /\ i = Len(left) + n
    BY <1>2, <1>5, <1>15, <2>1
  <2> HIDE DEF n
  <2>3. rows[i] = more[n] /\ n \in DOMAIN new
    BY <1>5, <1>14, <2>2
  <2> QED BY <1>12, <2>2, <2>3
<1>17. \A n \in DOMAIN new : Len(left) + n \in DOMAIN rows /\ rows[Len(left) + n] = right[new[n]]
  BY <1>2, <1>5, <1>12, <1>14, <1>15
<1>18. \A n \in DOMAIN left : n \in DOMAIN rows /\ rows[n] = left[n]
  BY <1>2, <1>5, <1>14, <1>15
<1>19. Shown(rows)
  BY <1>2, <1>6, <1>9, <1>14, <1>16 DEF Shown
<1>20. ASSUME Once(left) PROVE Once(rows)
  <2>1. SUFFICES ASSUME NEW m \in DOMAIN rows, NEW n \in DOMAIN rows,
                        SameKey(chain, rows[m], rows[n])
                 PROVE  m = n
    BY DEF Once
  <2>2. CASE m \in DOMAIN left /\ rows[m] = left[m] /\ n \in DOMAIN left /\ rows[n] = left[n]
    BY <1>20, <2>1, <2>2 DEF Once
  <2>3. ASSUME NEW i \in DOMAIN left, NEW j \in DOMAIN new,
               SameKey(chain, left[i], right[new[j]]) \/ SameKey(chain, right[new[j]], left[i])
        PROVE  FALSE
    BY <1>6, <1>9, <2>3 DEF SameKey
  <2>4. ASSUME NEW i \in DOMAIN new, NEW j \in DOMAIN new,
               SameKey(chain, right[new[i]], right[new[j]])
        PROVE  i = j
    <3>1. new[i] \in N /\ new[j] \in N /\ new[i] \in Nat /\ new[j] \in Nat
      BY <1>6, <1>9
    <3>2. ~(new[i] < new[j]) /\ ~(new[j] < new[i])
      BY <1>9, <2>4, <3>1 DEF SameKey
    <3>3. new[i] = new[j]
      BY <3>1, <3>2
    <3> QED BY <1>7, <3>3
  <2> QED BY <1>16, <2>1, <2>2, <2>3, <2>4
<1>21. Range(left) \subseteq Range(rows) /\ Range(rows) \subseteq Range(left) \cup Range(right)
  BY <1>6, <1>9, <1>16, <1>18 DEF Range
<1>22. ASSUME NEW r \in Range(right) PROVE \E x \in Range(rows) : SameKey(chain, x, r)
  <2>1. PICK n \in DOMAIN right : r = right[n]
    BY DEF Range
  <2>2. CASE \E l \in Range(left) : SameKey(chain, l, right[n])
    BY <1>21, <2>1, <2>2
  <2>3. CASE \E m \in N : SameKey(chain, right[m], right[n])
    <3>1. PICK i \in DOMAIN new : SameKey(chain, right[new[i]], right[n])
      BY <1>8, <2>3
    <3>2. right[new[i]] \in Range(rows)
      BY <1>17 DEF Range
    <3> QED BY <2>1, <3>1, <3>2
  <2> QED BY <1>10, <2>2, <2>3
<1> QED BY <1>1, <1>19, <1>20, <1>21, <1>22 DEF United
-----------------------------------------------------------------------------
(* What the parser builds.  A recursive definition is any function that    *)
(* satisfies its equation; that there is one is shown from the last token  *)
(* to the first: every call of a parse function goes on behind the token   *)
(* it began with.                                                          *)

(* The provers do not know that a string in quotes is in STRING.           *)
Token == {t \in [type : STRING \cup TokenType, value : STRING \cup {"", "id"}, key : Nat] :
            t.type = "LITERAL" => t.key \in Nat \ {NoKey}}
Tokened == tokens \in Seq(Token)

End == Len(tokens) + 2

LEMMA TokenFacts ==
  ASSUME Tokened
  PROVE  /\ Len(tokens) \in Nat /\ DOMAIN tokens = 1..Len(tokens)
         /\ End \in Nat /\ End = Len(tokens) + 2 /\ Index = 1..End
         /\ \A i \in DOMAIN tokens :
              tokens[i].type = "LITERAL" => tokens[i].key \in Nat \ {NoKey}
<1>1. tokens \in Seq(Token)
  BY DEF Tokened
<1>2. Len(tokens) \in Nat /\ DOMAIN tokens = 1..Len(tokens)
  BY <1>1
<1>3. \A i \in DOMAIN tokens : tokens[i] \in Token
  BY <1>1, <1>2, ElementOfSeq
<1>4. \A t \in Token : t.type = "LITERAL" => t.key \in Nat \ {NoKey}
  BY DEF Token
<1> QED BY <1>2, <1>3, <1>4 DEF End, Index

(* Two functions agree on the tokens behind i.                             *)
Agree(f, g, i) == \A j \in Index : j > i => f[j] = g[j]
OnIndex(f) == f = [i \in Index |-> f[i]]

(* A node that is none, or ends behind the token it begins with.           *)
Ends(e, i) == e = Undefined \/ (e.kind # "UNDEFINED" /\ e.at \in (i + 1)..(Len(tokens) + 1))

LEMMA PrimaryFacts ==
  ASSUME Tokened, NEW i \in Index
  PROVE  \/ Primary(i) = Undefined /\ Primary(i).kind = "UNDEFINED"
         \/ /\ There(i) /\ i + 2 \in Index /\ Primary(i) # Undefined
            /\ Primary(i).kind = tokens[i].type /\ Primary(i).kind \in {"LITERAL", "IDENTIFIER"}
            /\ Primary(i).key = tokens[i].key /\ Primary(i).at = i + 1
            /\ Ends(Primary(i), i)
<1>1. CASE There(i) /\ tokens[i].type \in {"LITERAL", "IDENTIFIER"}
  <2> DEFINE e == Primary(i)
  <2>1. e.kind = tokens[i].type /\ e.key = tokens[i].key /\ e.at = i + 1
    BY <1>1 DEF Primary
  <2>2. e.kind # "UNDEFINED" /\ e # Undefined
    BY <1>1, <2>1 DEF Undefined
  <2>3. i \in 1..Len(tokens)
    BY <1>1, TokenFacts DEF There
  <2>4. i + 2 \in Index /\ i + 1 \in (i + 1)..(Len(tokens) + 1)
    BY <2>3, TokenFacts
  <2> HIDE DEF e
  <2>5. Ends(e, i)
    BY <2>1, <2>2, <2>4 DEF Ends
  <2> QED BY <1>1, <2>1, <2>2, <2>4, <2>5 DEF e
<1>2. CASE ~(There(i) /\ tokens[i].type \in {"LITERAL", "IDENTIFIER"})
  BY <1>2 DEF Primary, Undefined
<1> QED BY <1>1, <1>2

LEMMA NodeFacts ==
  ASSUME NEW kind, kind # "UNDEFINED", NEW op, NEW left, NEW right
  PROVE  \/ Undefined \in {left, right} /\ Node(kind, op, left, right) = Undefined
         \/ /\ Undefined \notin {left, right}
            /\ Node(kind, op, left, right).kind = kind /\ Node(kind, op, left, right).op = op
            /\ Node(kind, op, left, right).left = left
            /\ Node(kind, op, left, right).right = right
            /\ Node(kind, op, left, right).at = right.at
            /\ Node(kind, op, left, right) # Undefined
<1>1. CASE Undefined \in {left, right}
  BY <1>1 DEF Node
<1>2. CASE Undefined \notin {left, right}
  <2> DEFINE e == Node(kind, op, left, right)
  <2>1. /\ e.kind = kind /\ e.op = op /\ e.left = left /\ e.right = right /\ e.at = right.at
    BY <1>2 DEF Node
  <2>2. e # Undefined
    <3>1. Undefined.kind = "UNDEFINED"
      BY DEF Undefined
    <3> QED BY <2>1, <3>1
  <2> QED BY <1>2, <2>1, <2>2
<1> QED BY <1>1, <1>2

(* The three functions differ in the operand they begin with and in the    *)
(* tokens they go on at.                                                   *)
Operand(kind, i) ==
  CASE kind = "BINARY" -> Primary(i)
    [] kind = "OR"     -> comparison[i]
    [] kind = "AND"    -> OR[i]
Signs(kind) == IF kind = "BINARY" THEN Comparison ELSE {kind}
Step(kind, f, i) ==
  LET left == Operand(kind, i)
  IN  IF left # Undefined /\ TypeAt(left.at) \in Signs(kind)
      THEN Node(kind, TypeAt(left.at), left, f[left.at + 1])
      ELSE left
Solution(kind, f) == f = [i \in Index |-> Step(kind, f, i)]
Operands(kind) == \A i \in Index : Ends(Operand(kind, i), i)

LEMMA EndsFacts ==
  ASSUME Tokened, NEW i \in Index, NEW e, Ends(e, i), e # Undefined
  PROVE  e.at + 1 \in Index /\ e.at + 1 > i + 1 /\ e.kind # "UNDEFINED"
<1>1. e.at \in (i + 1)..(Len(tokens) + 1) /\ e.kind # "UNDEFINED"
  BY DEF Ends
<1> QED BY <1>1, TokenFacts

LEMMA StepAhead ==
  ASSUME Tokened, NEW kind, Operands(kind), NEW i \in Index, NEW f, NEW g, Agree(f, g, i)
  PROVE  Step(kind, f, i) = Step(kind, g, i)
<1> DEFINE left == Operand(kind, i)
<1>0. Ends(left, i)
  BY DEF Operands
<1> HIDE DEF left
<1>1. CASE left = Undefined
  BY <1>1 DEF Step, left
<1>2. CASE left # Undefined
  <2>1. left.at + 1 \in Index /\ left.at + 1 > i
    BY <1>0, <1>2, EndsFacts, TokenFacts
  <2>2. f[left.at + 1] = g[left.at + 1]
    BY <2>1 DEF Agree
  <2> QED BY <2>2 DEF Step, left
<1> QED BY <1>1, <1>2

LEMMA SolutionExists ==
  ASSUME Tokened, NEW kind, Operands(kind)
  PROVE  \E f : Solution(kind, f)
<1> DEFINE Solves(f, d) == OnIndex(f) /\ \A i \in Index : i > End - d => f[i] = Step(kind, f, i)
           Bad == {d \in Nat : d <= End /\ \A f : ~Solves(f, d)}
<1>0. End \in Nat /\ Index = 1..End
  BY TokenFacts
<1>1. ASSUME Bad # {} PROVE FALSE
  <2>1. PICK d \in Bad : \A k \in Bad : d <= k
    BY <1>1, Least
  <2>2. CASE d = 0
    <3> DEFINE f == [i \in Index |-> 0]
    <3>1. Solves(f, 0)
      BY <1>0 DEF OnIndex
    <3> QED BY <2>1, <2>2, <3>1
  <2>3. CASE d # 0
    <3>1. d - 1 \in Nat /\ d - 1 \notin Bad /\ d <= End /\ d - 1 <= End
      <4>1. d \in Nat /\ d <= End
        BY <2>1
      <4> HIDE DEF Bad
      <4> QED BY <1>0, <2>1, <2>3, <4>1
    <3>2. PICK f : Solves(f, d - 1)
      <4>1. \E f : Solves(f, d - 1)
        BY <3>1, Zenon
      <4> QED BY <4>1, Zenon
    <3> DEFINE m == End - d + 1
               g == [i \in Index |-> IF i = m THEN Step(kind, f, m) ELSE f[i]]
    <3>3. m \in Index
      BY <1>0, <2>1, <2>3, <3>1
    <3>4. OnIndex(g) /\ g[m] = Step(kind, f, m) /\ \A i \in Index : i # m => g[i] = f[i]
      BY <3>3 DEF OnIndex
    <3>5. \A i \in Index : i > m => i > End - (d - 1)
      BY <1>0, <2>1
    <3>6. \A i \in Index : i > End - d => i = m \/ i > m
      BY <1>0, <2>1
    <3>7. \A i \in Index : i >= m => Agree(g, f, i)
      BY <1>0, <3>3, <3>4 DEF Agree
    <3> HIDE DEF g, m
    <3>8. \A i \in Index : i > End - d => g[i] = Step(kind, g, i)
      <4>1. SUFFICES ASSUME NEW i \in Index, i = m \/ i > m PROVE g[i] = Step(kind, g, i)
        BY <3>6
      <4>2. Agree(g, f, i)
        BY <1>0, <3>3, <3>7, <4>1
      <4>3. Step(kind, g, i) = Step(kind, f, i)
        BY <4>2, StepAhead
      <4>4. CASE i = m
        BY <3>4, <4>3, <4>4
      <4>5. CASE i > m
        BY <1>0, <3>2, <3>3, <3>4, <3>5, <4>3, <4>5
      <4> QED BY <4>1, <4>4, <4>5
    <3>9. Solves(g, d)
      BY <3>4, <3>8
    <3> QED BY <2>1, <3>9
  <2> QED BY <2>2, <2>3
<1>2. PICK f : Solves(f, End)
  BY <1>0, <1>1
<1>3. \A i \in Index : i > End - End
  BY <1>0
<1>4. f = [i \in Index |-> Step(kind, f, i)]
  <2>1. \A i \in Index : f[i] = Step(kind, f, i)
    BY <1>2, <1>3
  <2> QED BY <1>2, <2>1 DEF OnIndex
<1> QED BY <1>4 DEF Solution

(* What is at i: the operand, no node, or a node of the operand and what   *)
(* comes behind the sign.                                                  *)
Single(kind, f, i) ==
  LET left == Operand(kind, i)
  IN  f[i] = left /\ (left # Undefined => TypeAt(left.at) \notin Signs(kind))
Broken(kind, f, i) ==
  LET left == Operand(kind, i)
  IN  /\ f[i] = Undefined /\ left # Undefined /\ TypeAt(left.at) \in Signs(kind)
      /\ left.at + 1 \in Index /\ f[left.at + 1] = Undefined
Twofold(kind, f, i) ==
  LET left  == Operand(kind, i)
      right == f[left.at + 1]
  IN  /\ left # Undefined /\ TypeAt(left.at) \in Signs(kind)
      /\ left.at + 1 \in Index /\ left.at + 1 > i + 1 /\ right # Undefined
      /\ f[i].kind = kind /\ f[i].op = TypeAt(left.at)
      /\ f[i].left = left /\ f[i].right = right /\ f[i].at = right.at /\ f[i] # Undefined

LEMMA Shapes ==
  ASSUME Tokened, NEW kind, kind # "UNDEFINED", Operands(kind), NEW f, Solution(kind, f),
         NEW i \in Index
  PROVE  Single(kind, f, i) \/ Broken(kind, f, i) \/ Twofold(kind, f, i)
<1> DEFINE left == Operand(kind, i)
<1>0. Ends(left, i)
  BY DEF Operands
<1>1. f[i] = Step(kind, f, i)
  <2>1. f = [j \in Index |-> Step(kind, f, j)]
    BY DEF Solution
  <2> QED BY <2>1, Zenon
<1> HIDE DEF left
<1>2. CASE ~(left # Undefined /\ TypeAt(left.at) \in Signs(kind))
  BY <1>1, <1>2 DEF Step, Single, left
<1>3. CASE left # Undefined /\ TypeAt(left.at) \in Signs(kind)
  <2> DEFINE right == f[left.at + 1]
             op    == TypeAt(left.at)
  <2>1. f[i] = Node(kind, op, left, right)
    BY <1>1, <1>3 DEF Step, left
  <2>2. left.at + 1 \in Index /\ left.at + 1 > i + 1
    BY <1>0, <1>3, EndsFacts
  <2>3. CASE right = Undefined
    <3>1. f[i] = Undefined
      BY <2>1, <2>3 DEF Node
    <3> QED BY <1>3, <2>2, <2>3, <3>1 DEF Broken, left
  <2>4. CASE right # Undefined
    <3> HIDE DEF right, op
    <3>1. /\ f[i].kind = kind /\ f[i].op = op
          /\ f[i].left = left /\ f[i].right = right /\ f[i].at = right.at /\ f[i] # Undefined
      BY <1>3, <2>1, <2>4, NodeFacts
    <3> QED BY <1>3, <2>2, <2>4, <3>1 DEF Twofold, left, right, op
  <2> QED BY <2>3, <2>4
<1> QED BY <1>2, <1>3

LEMMA SolutionEnds ==
  ASSUME Tokened, NEW kind, kind # "UNDEFINED", Operands(kind), NEW f, Solution(kind, f)
  PROVE  \A i \in Index : Ends(f[i], i)
<1> DEFINE Bad == {i \in Index : ~Ends(f[i], i)}
<1>0. End \in Nat /\ Index = 1..End
  BY TokenFacts
<1>1. ASSUME Bad # {} PROVE FALSE
  <2>1. PICK i \in Bad : \A j \in Bad : j <= i
    BY <1>0, <1>1, Greatest
  <2>2. Ends(Operand(kind, i), i) /\ Ends(Undefined, i)
    BY <2>1 DEF Operands, Ends
  <2>3. CASE Single(kind, f, i) \/ Broken(kind, f, i)
    BY <2>1, <2>2, <2>3 DEF Single, Broken
  <2>4. CASE Twofold(kind, f, i)
    <3> DEFINE j == Operand(kind, i).at + 1
    <3>1. /\ j \in Index /\ j > i + 1 /\ f[j] # Undefined
          /\ f[i].kind = kind /\ f[i].at = f[j].at /\ f[i] # Undefined
      BY <2>4 DEF Twofold
    <3> HIDE DEF j
    <3>2. Ends(f[j], j)
      BY <1>0, <2>1, <3>1
    <3>3. f[j].at \in (j + 1)..(Len(tokens) + 1)
      BY <3>1, <3>2 DEF Ends
    <3>4. f[i].at \in (i + 1)..(Len(tokens) + 1)
      BY <1>0, <2>1, <3>1, <3>3
    <3>5. Ends(f[i], i)
      BY <3>1, <3>4 DEF Ends
    <3> QED BY <2>1, <3>5
  <2> QED BY <2>1, <2>3, <2>4, Shapes
<1> QED BY <1>1

(* The three functions are solutions.                                      *)
LEMMA ParseSolves ==
  ASSUME Tokened
  PROVE  /\ Operands("BINARY") /\ Solution("BINARY", comparison)
         /\ Operands("OR") /\ Solution("OR", OR)
         /\ Operands("AND") /\ Solution("AND", AND)
<1>1. Operands("BINARY") /\ Solution("BINARY", comparison)
  <2>1. \A i : Operand("BINARY", i) = Primary(i)
    BY DEF Operand
  <2>2. \A i \in Index : Ends(Primary(i), i)
    BY PrimaryFacts DEF Ends
  <2>3. Operands("BINARY")
    BY <2>1, <2>2 DEF Operands
  <2> DEFINE Body(f, i) ==
          LET left == Primary(i)
          IN  IF left # Undefined /\ TypeAt(left.at) \in Comparison
              THEN Node("BINARY", TypeAt(left.at), left, f[left.at + 1])
              ELSE left
  <2>4. \A f, i : Step("BINARY", f, i) = Body(f, i)
    BY <2>1 DEF Step, Signs
  <2>5. \E f : Solution("BINARY", f)
    BY <2>3, SolutionExists
  <2>6. comparison = CHOOSE h : h = [i \in Index |-> Body(h, i)]
    BY Zenon DEF comparison
  <2> HIDE DEF Body
  <2>7. \E h : h = [i \in Index |-> Body(h, i)]
    BY <2>4, <2>5 DEF Solution
  <2>8. comparison = [i \in Index |-> Body(comparison, i)]
    BY <2>6, <2>7, Zenon
  <2>9. comparison = [i \in Index |-> Step("BINARY", comparison, i)]
    BY <2>4, <2>8
  <2> QED BY <2>3, <2>9, Zenon DEF Solution
<1>2. Operands("OR") /\ Solution("OR", OR)
  <2>1. \A i : Operand("OR", i) = comparison[i]
    BY DEF Operand
  <2>2. \A i \in Index : Ends(comparison[i], i)
    BY <1>1, SolutionEnds
  <2>3. Operands("OR")
    BY <2>1, <2>2 DEF Operands
  <2> DEFINE Body(f, i) ==
          LET left == comparison[i]
          IN  IF left # Undefined /\ TypeAt(left.at) = "OR"
              THEN Node("OR", "OR", left, f[left.at + 1])
              ELSE left
  <2>4. \A f, i : Step("OR", f, i) = Body(f, i)
    BY <2>1 DEF Step, Signs
  <2>5. \E f : Solution("OR", f)
    BY <2>3, SolutionExists
  <2>6. OR = CHOOSE h : h = [i \in Index |-> Body(h, i)]
    BY Zenon DEF OR
  <2> HIDE DEF Body
  <2>7. \E h : h = [i \in Index |-> Body(h, i)]
    BY <2>4, <2>5 DEF Solution
  <2>8. OR = [i \in Index |-> Body(OR, i)]
    BY <2>6, <2>7, Zenon
  <2>9. OR = [i \in Index |-> Step("OR", OR, i)]
    BY <2>4, <2>8
  <2> QED BY <2>3, <2>9, Zenon DEF Solution
<1>3. Operands("AND") /\ Solution("AND", AND)
  <2>1. \A i : Operand("AND", i) = OR[i]
    BY DEF Operand
  <2>2. \A i \in Index : Ends(OR[i], i)
    BY <1>2, SolutionEnds
  <2>3. Operands("AND")
    BY <2>1, <2>2 DEF Operands
  <2> DEFINE Body(f, i) ==
          LET left == OR[i]
          IN  IF left # Undefined /\ TypeAt(left.at) = "AND"
              THEN Node("AND", "AND", left, f[left.at + 1])
              ELSE left
  <2>4. \A f, i : Step("AND", f, i) = Body(f, i)
    BY <2>1 DEF Step, Signs
  <2>5. \E f : Solution("AND", f)
    BY <2>3, SolutionExists
  <2>6. AND = CHOOSE h : h = [i \in Index |-> Body(h, i)]
    BY Zenon DEF AND
  <2> HIDE DEF Body
  <2>7. \E h : h = [i \in Index |-> Body(h, i)]
    BY <2>4, <2>5 DEF Solution
  <2>8. AND = [i \in Index |-> Body(AND, i)]
    BY <2>6, <2>7, Zenon
  <2>9. AND = [i \in Index |-> Step("AND", AND, i)]
    BY <2>4, <2>8
  <2> QED BY <2>3, <2>9, Zenon DEF Solution
<1> QED BY <1>1, <1>2, <1>3
-----------------------------------------------------------------------------
(* Execution.  That there is a function that satisfies the equation of     *)
(* execute is shown node by node, the operands of a node before the node.  *)

Exec(h, e) ==
  IF e.kind \in {"AND", "OR"}
  THEN Joining(e.kind, h[e.left], h[e.right])
  ELSE Comparing(e)
Executes(h, D) == h = [e \in D |-> Exec(h, e)]
Within(e, D) == e.kind \in {"AND", "OR"} => e.left \in D /\ e.right \in D
Executable(D) == (\A e \in D : Within(e, D)) /\ \E h : Executes(h, D)

LEMMA ExecFacts ==
  ASSUME NEW g, NEW h, NEW e,
         e.kind \in {"AND", "OR"} => g[e.left] = h[e.left] /\ g[e.right] = h[e.right]
  PROVE  Exec(g, e) = Exec(h, e)
<1>1. CASE e.kind \in {"AND", "OR"}
  <2>1. g[e.left] = h[e.left] /\ g[e.right] = h[e.right] /\ e.kind # "BINARY"
    BY <1>1
  <2> QED BY <1>1, <2>1 DEF Exec
<1>2. CASE e.kind \notin {"AND", "OR"}
  BY <1>2 DEF Exec
<1> QED BY <1>1, <1>2

LEMMA OneNodeMore ==
  ASSUME NEW D, Executable(D), NEW e, Within(e, D)
  PROVE  Executable(D \cup {e})
<1>1. CASE e \in D
  <2>1. D \cup {e} = D
    BY <1>1
  <2> QED BY <2>1
<1>2. CASE e \notin D
  <2>1. PICK h : Executes(h, D)
    BY DEF Executable
  <2> DEFINE B == D \cup {e}
             g == [x \in B |-> Exec(h, x)]
  <2>2. \A x \in B : Within(x, D)
    BY DEF Executable
  <2>3. \A x \in B : Within(x, B)
    BY <2>2 DEF Within
  <2>4. \A x \in D : g[x] = h[x]
    <3>1. \A x \in D : h[x] = Exec(h, x)
      BY <2>1 DEF Executes
    <3> QED BY <3>1
  <2>5. \A x \in B : Exec(g, x) = Exec(h, x)
    <3> HIDE DEF g
    <3>1. SUFFICES ASSUME NEW x \in B PROVE Exec(g, x) = Exec(h, x)
      OBVIOUS
    <3>2. x.kind \in {"AND", "OR"} => g[x.left] = h[x.left] /\ g[x.right] = h[x.right]
      BY <2>2, <2>4 DEF Within
    <3> QED BY <3>2, ExecFacts
  <2>6. g = [x \in B |-> Exec(h, x)]
    OBVIOUS
  <2> HIDE DEF g, B
  <2>7. Executes(g, B)
    BY <2>5, <2>6 DEF Executes
  <2> QED BY <2>3, <2>7 DEF Executable, B
<1> QED BY <1>1, <1>2

LEMMA LevelExecutes ==
  ASSUME Tokened, NEW kind, kind \in {"AND", "OR"}, Operands(kind), NEW f, Solution(kind, f),
         NEW D, Executable(D), \A i \in Index : Operand(kind, i) \in D
  PROVE  Executable(D \cup Range(f))
<1> DEFINE From(d) == D \cup {f[i] : i \in {j \in Index : j > End - d}}
           Bad == {d \in Nat : d <= End /\ ~Executable(From(d))}
<1>0. End \in Nat /\ Index = 1..End
  BY TokenFacts
<1>1. ASSUME Bad # {} PROVE FALSE
  <2>1. PICK d \in Bad : \A k \in Bad : d <= k
    BY <1>1, Least
  <2>2. d \in Nat /\ d <= End /\ ~Executable(From(d))
    BY <2>1
  <2>3. CASE d = 0
    <3>1. From(0) = D
      BY <1>0
    <3> QED BY <2>2, <2>3, <3>1
  <2>4. CASE d # 0
    <3> DEFINE m == End - d + 1
    <3>1. d - 1 \in Nat /\ d - 1 <= End /\ ~(d <= d - 1) /\ m \in Index
      BY <1>0, <2>2, <2>4
    <3>2. Executable(From(d - 1))
      <4> HIDE DEF From
      <4> QED BY <2>1, <3>1
    <3>3. \A j \in Index : j > End - d <=> j = m \/ j > End - (d - 1)
      BY <1>0, <2>2
    <3>4. From(d) = From(d - 1) \cup {f[m]}
      BY <3>1, <3>3
    <3>5. \A j \in Index : j > m => f[j] \in From(d - 1)
      BY <1>0, <2>2
    <3>6. Within(f[m], From(d - 1))
      <4>0. D \subseteq From(d - 1)
        OBVIOUS
      <4> HIDE DEF From, m
      <4>1. Operand(kind, m) \in D /\ \A e \in D : Within(e, From(d - 1))
        BY <3>1, <4>0 DEF Executable, Within
      <4>2. CASE Single(kind, f, m)
        BY <4>1, <4>2 DEF Single
      <4>3. CASE Broken(kind, f, m)
        BY <4>3 DEF Broken, Within, Undefined
      <4>4. CASE Twofold(kind, f, m)
        <5> DEFINE j == Operand(kind, m).at + 1
        <5>1. /\ f[m].left = Operand(kind, m) /\ f[m].right = f[j]
              /\ j \in Index /\ j > m + 1
          BY <4>4 DEF Twofold
        <5> HIDE DEF j
        <5>2. f[j] \in From(d - 1)
          BY <1>0, <3>1, <3>5, <5>1
        <5> QED BY <4>0, <4>1, <5>1, <5>2 DEF Within
      <4> QED BY <3>1, <4>2, <4>3, <4>4, Shapes
    <3>7. Executable(From(d - 1) \cup {f[m]})
      <4> HIDE DEF From, m
      <4> QED BY <3>2, <3>6, OneNodeMore
    <3> QED BY <2>2, <3>4, <3>7
  <2> QED BY <2>3, <2>4
<1>2. Executable(From(End))
  <2> HIDE DEF From
  <2> QED BY <1>0, <1>1
<1>3. From(End) = D \cup Range(f)
  <2>1. DOMAIN f = Index
    BY DEF Solution
  <2>2. {j \in Index : j > End - End} = Index
    BY <1>0
  <2>3. Range(f) = {f[i] : i \in Index}
    BY <2>1 DEF Range
  <2> QED BY <2>2, <2>3
<1> QED BY <1>2, <1>3

(* The nodes of a comparison.                                              *)
LEMMA ComparisonShapes ==
  ASSUME Tokened, NEW i \in Index
  PROVE  /\ comparison[i].kind \in {"UNDEFINED", "LITERAL", "IDENTIFIER", "BINARY"}
         /\ comparison[i].kind = "LITERAL" => comparison[i].key \in Nat \ {NoKey}
         /\ Primary(i).kind = "LITERAL" => Primary(i).key \in Nat \ {NoKey}
         /\ comparison[i].kind = "BINARY" =>
              /\ comparison[i].op \in Comparison
              /\ comparison[i].left = Primary(i)
              /\ \E j \in Index : comparison[i].right = comparison[j]
<1> DEFINE e == comparison[i]
           left == Primary(i)
<1>1. Single("BINARY", comparison, i) \/ Broken("BINARY", comparison, i)
      \/ Twofold("BINARY", comparison, i)
  BY ParseSolves, Shapes
<1>2. Operand("BINARY", i) = left /\ Signs("BINARY") = Comparison
  BY DEF Operand, Signs
<1>3. /\ left.kind \in {"UNDEFINED", "LITERAL", "IDENTIFIER"}
      /\ left.kind = "LITERAL" => left.key \in Nat \ {NoKey}
  BY PrimaryFacts, TokenFacts DEF There
<1> HIDE DEF left
<1>4. CASE Single("BINARY", comparison, i)
  <2>1. e = left
    BY <1>2, <1>4 DEF Single
  <2> QED BY <1>3, <2>1 DEF left
<1>5. CASE Broken("BINARY", comparison, i)
  <2>1. e.kind = "UNDEFINED"
    BY <1>5 DEF Broken, Undefined
  <2> QED BY <1>3, <2>1 DEF left
<1>6. CASE Twofold("BINARY", comparison, i)
  <2> DEFINE j == left.at + 1
  <2>1. /\ e.kind = "BINARY" /\ e.op \in Comparison /\ e.left = left
        /\ j \in Index /\ e.right = comparison[j]
    BY <1>2, <1>6 DEF Twofold
  <2> HIDE DEF j
  <2> QED BY <1>3, <2>1 DEF left
<1> QED BY <1>1, <1>4, <1>5, <1>6

LEMMA ExecuteSolves ==
  ASSUME Tokened
  PROVE  Executes(execute, Nodes)
<1> DEFINE D == Range(comparison)
<1>1. /\ DOMAIN comparison = Index /\ DOMAIN OR = Index /\ DOMAIN AND = Index
  BY ParseSolves DEF Solution
<1>2. \A e \in D : e.kind \notin {"AND", "OR"}
  <2>1. \A i \in Index : comparison[i].kind \notin {"AND", "OR"}
    BY ComparisonShapes
  <2> QED BY <1>1, <2>1 DEF Range
<1>3. Executable(D)
  <2> DEFINE h == [e \in D |-> Exec(<<>>, e)]
  <2>1. h = [e \in D |-> Exec(<<>>, e)]
    OBVIOUS
  <2> HIDE DEF h
  <2>2. \A e \in D : Exec(h, e) = Exec(<<>>, e)
    BY <1>2, ExecFacts
  <2> HIDE DEF D
  <2>3. Executes(h, D)
    BY <2>1, <2>2 DEF Executes
  <2> QED BY <1>2, <2>3 DEF Executable, Within
<1>4. \A i \in Index : Operand("OR", i) \in D /\ Operand("AND", i) \in Range(OR)
  BY <1>1 DEF Operand, Range
<1> HIDE DEF D
<1>5. Executable(D \cup Range(OR))
  BY <1>3, <1>4, ParseSolves, LevelExecutes
<1>6. Executable((D \cup Range(OR)) \cup Range(AND))
  BY <1>4, <1>5, ParseSolves, LevelExecutes
<1>7. Nodes = (D \cup Range(OR)) \cup Range(AND)
  BY DEF Nodes, D
<1>8. \E h : h = [e \in Nodes |-> Exec(h, e)]
  BY <1>6, <1>7 DEF Executable, Executes
<1>9. execute = CHOOSE h : h = [e \in Nodes |-> Exec(h, e)]
  BY Zenon DEF execute, Exec
<1>10. execute = [e \in Nodes |-> Exec(execute, e)]
  BY <1>8, <1>9, Zenon
<1> QED BY <1>10, Zenon DEF Executes
-----------------------------------------------------------------------------
(* The result of every node.                                               *)

Good(result) ==
  result.defined => Shown(result.rows) /\ (OneVisible => Once(result.rows))

LEMMA ResultFacts ==
  /\ NoResult.defined = FALSE
  /\ \A rows : Result(rows).defined = TRUE /\ Result(rows).rows = rows
<1> QED BY DEF NoResult, Result

LEMMA NodeResults ==
  ASSUME Tokened
  PROVE  /\ \A i \in Index : execute[comparison[i]] = Comparing(comparison[i])
         /\ \A i \in Index : OR[i] \in Nodes /\ AND[i] \in Nodes /\ comparison[i] \in Nodes
         /\ \A e \in Nodes : e.kind \in {"AND", "OR"} =>
              execute[e] = Joining(e.kind, execute[e.left], execute[e.right])
         /\ \A e \in Nodes : e.kind \notin {"AND", "OR", "BINARY"} => execute[e] = NoResult
<1>1. /\ DOMAIN comparison = Index /\ DOMAIN OR = Index /\ DOMAIN AND = Index
  BY ParseSolves DEF Solution
<1>2. \A i \in Index : OR[i] \in Nodes /\ AND[i] \in Nodes /\ comparison[i] \in Nodes
  BY <1>1 DEF Nodes, Range
<1>3. \A e \in Nodes : execute[e] = Exec(execute, e)
  <2>1. execute = [e \in Nodes |-> Exec(execute, e)]
    BY ExecuteSolves, Zenon DEF Executes
  <2> QED BY <2>1, Zenon
<1>4. \A i \in Index : execute[comparison[i]] = Comparing(comparison[i])
  BY <1>2, <1>3, ComparisonShapes DEF Exec
<1>5. \A e : Exec(execute, e) = IF e.kind \in {"AND", "OR"}
                                THEN Joining(e.kind, execute[e.left], execute[e.right])
                                ELSE Comparing(e)
  BY DEF Exec
<1>6. \A e : e.kind # "BINARY" => Comparing(e) = NoResult
  BY DEF Comparing
<1> QED BY <1>2, <1>3, <1>4, <1>5, <1>6

LEMMA ComparingFacts ==
  ASSUME Chained, Tokened, NEW i \in Index
  PROVE  Good(Comparing(comparison[i]))
<1> DEFINE e == comparison[i]
           key == LiteralOf(e).key
           rows == Compare(chain, lost, e.op, key)
<1>1. CASE e.kind = "BINARY" /\ LiteralOf(e).kind = "LITERAL"
  <2>1. Comparing(e) = Result(rows)
    BY <1>1 DEF Comparing
  <2>2. LiteralOf(e) \in {e.left, e.right}
    BY DEF LiteralOf
  <2>3. PICK j \in Index : LiteralOf(e) \in {Primary(i), comparison[j]}
    BY <1>1, <2>2, ComparisonShapes
  <2>4. key \in Nat \ {NoKey} /\ e.op \in Comparison
    BY <1>1, <2>3, ComparisonShapes
  <2> HIDE DEF key, e
  <2>5. Shown(rows) /\ (OneVisible => Once(rows))
    BY <2>4, CompareFacts
  <2> HIDE DEF rows
  <2> QED BY <2>1, <2>5, ResultFacts DEF Good, e
<1>2. CASE ~(e.kind = "BINARY" /\ LiteralOf(e).kind = "LITERAL")
  <2>1. Comparing(e) = NoResult
    BY <1>2 DEF Comparing
  <2> QED BY <2>1, ResultFacts DEF Good
<1> QED BY <1>1, <1>2

LEMMA JoiningFacts ==
  ASSUME Chained, NEW kind \in {"AND", "OR"}, NEW l, NEW r, Good(l), Good(r)
  PROVE  Good(Joining(kind, l, r))
<1>1. CASE l.defined /\ r.defined
  <2>1. /\ Shown(l.rows) /\ (OneVisible => Once(l.rows))
        /\ Shown(r.rows)
    BY <1>1 DEF Good
  <2>2. CASE kind = "AND"
    <3> DEFINE rows == AndRows(chain, l.rows, r.rows)
    <3>1. Joining(kind, l, r) = Result(rows)
      BY <1>1, <2>2 DEF Joining
    <3>2. Joined(rows, l.rows, r.rows)
      BY <2>1, AndFacts
    <3> HIDE DEF rows
    <3> QED BY <2>1, <3>1, <3>2, ResultFacts DEF Good, Joined
  <2>3. CASE kind = "OR"
    <3> DEFINE rows == OrRows(chain, l.rows, r.rows)
    <3>1. Joining(kind, l, r) = Result(rows)
      BY <1>1, <2>3 DEF Joining
    <3>2. United(rows, l.rows, r.rows)
      BY <2>1, OrFacts
    <3> HIDE DEF rows
    <3> QED BY <2>1, <3>1, <3>2, ResultFacts DEF Good, United
  <2> QED BY <2>2, <2>3
<1>2. CASE ~(l.defined /\ r.defined)
  <2>1. Joining(kind, l, r) = NoResult
    BY <1>2 DEF Joining
  <2> QED BY <2>1, ResultFacts DEF Good
<1> QED BY <1>1, <1>2

LEMMA LevelGood ==
  ASSUME Chained, Tokened, NEW kind \in {"AND", "OR"}, Operands(kind),
         NEW f, Solution(kind, f), \A i \in Index : f[i] \in Nodes,
         \A i \in Index : Good(execute[Operand(kind, i)])
  PROVE  \A i \in Index : Good(execute[f[i]])
<1> DEFINE Bad == {i \in Index : ~Good(execute[f[i]])}
<1>0. End \in Nat /\ Index = 1..End
  BY TokenFacts
<1>1. ASSUME Bad # {} PROVE FALSE
  <2>1. PICK i \in Bad : \A j \in Bad : j <= i
    BY <1>0, <1>1, Greatest
  <2>2. i \in Index /\ ~Good(execute[f[i]])
    BY <2>1
  <2>3. CASE Single(kind, f, i)
    BY <2>2, <2>3 DEF Single
  <2>4. CASE Broken(kind, f, i)
    <3>1. f[i].kind = "UNDEFINED"
      BY <2>4 DEF Broken, Undefined
    <3>2. execute[f[i]] = NoResult
      BY <2>2, <3>1, NodeResults
    <3> QED BY <2>2, <3>2, ResultFacts DEF Good
  <2>5. CASE Twofold(kind, f, i)
    <3> DEFINE j == Operand(kind, i).at + 1
               l == execute[Operand(kind, i)]
               r == execute[f[j]]
    <3>1. /\ j \in Index /\ j > i + 1
          /\ f[i].kind = kind /\ f[i].left = Operand(kind, i) /\ f[i].right = f[j]
      BY <2>5 DEF Twofold
    <3>2. execute[f[i]] = Joining(kind, l, r)
      BY <2>2, <3>1, NodeResults
    <3>3. j \notin Bad
      <4> HIDE DEF j, Bad
      <4> QED BY <1>0, <2>1, <2>2, <3>1
    <3>4. Good(l) /\ Good(r)
      BY <2>2, <3>1, <3>3
    <3> HIDE DEF l, r
    <3>5. Good(Joining(kind, l, r))
      BY <3>4, JoiningFacts
    <3> QED BY <2>2, <3>2, <3>5
  <2> QED BY <2>2, <2>3, <2>4, <2>5, Shapes
<1> QED BY <1>1

LEMMA AllGood ==
  ASSUME Chained, Tokened
  PROVE  \A i \in Index : /\ Good(execute[comparison[i]]) /\ Good(execute[OR[i]])
                          /\ Good(execute[AND[i]])
<1>1. \A i \in Index : Good(execute[comparison[i]])
  BY ComparingFacts, NodeResults
<1>2. \A i \in Index : Good(execute[OR[i]])
  <2>1. \A i \in Index : Good(execute[Operand("OR", i)])
    BY <1>1 DEF Operand
  <2> QED BY <2>1, LevelGood, ParseSolves, NodeResults
<1>3. \A i \in Index : Good(execute[AND[i]])
  <2>1. \A i \in Index : Good(execute[Operand("AND", i)])
    BY <1>2 DEF Operand
  <2> QED BY <2>1, LevelGood, ParseSolves, NodeResults
<1> QED BY <1>1, <1>2, <1>3

LEMMA SelectedGood ==
  ASSUME Chained, Tokened
  PROVE  Good(Selected)
<1>1. CASE tokens = <<>>
  <2> DEFINE rows == RangeQuery(chain, lost, NoKey, NoKey, TRUE, TRUE)
  <2>1. Selected = Result(rows)
    BY <1>1 DEF Selected
  <2>2. Returns(rows, Found(NoKey, NoKey, TRUE, TRUE))
    BY RangeRows, Zenon
  <2> HIDE DEF rows
  <2> QED BY <2>1, <2>2, ResultFacts DEF Good, Returns
<1>2. CASE tokens # <<>>
  <2>1. Selected = execute[AND[1]]
    BY <1>2 DEF Selected, Expression
  <2>2. 1 \in Index
    BY TokenFacts
  <2> QED BY <2>1, <2>2, AllGood
<1> QED BY <1>1, <1>2

(* No row twice; and the rows marked are those selected.                   *)
LEMMA SelectedOnceFollows ==
  ASSUME Chained, Tokened
  PROVE  SelectedOnce
<1> DEFINE rows == Selected.rows
<1>1. SUFFICES ASSUME OneVisible, Selected.defined PROVE IsInjective(rows)
  BY DEF SelectedOnce
<1>2. Once(rows)
  BY <1>1, SelectedGood DEF Good
<1> HIDE DEF rows
<1>3. \A m, n \in DOMAIN rows : rows[m] = rows[n] => m = n
  BY <1>2 DEF Once, SameKey
<1> QED BY <1>3 DEF IsInjective

LEMMA DeletesSelectedFollows ==
  ASSUME Chained, Tokened
  PROVE  DeletesSelected
<1> DEFINE rows == Selected.rows
           Again(r) == RangeQuery(chain, lost, chain[r].key, chain[r].key, TRUE, TRUE)
<1>1. SUFFICES ASSUME OneVisible, Selected.defined
               PROVE  Marked(rows) = {r \in Range(rows) : chain[r].key \notin lost}
  BY DEF DeletesSelected
<1>2. Shown(rows)
  BY <1>1, SelectedGood DEF Good
<1> HIDE DEF rows
<1>3. \A r \in Range(rows) : r \in DOMAIN chain /\ chain[r].visible
  BY <1>2, ShownFacts DEF Range
<1>4. ASSUME NEW r \in Range(rows)
      PROVE  Range(Again(r)) = IF chain[r].key \in lost THEN {} ELSE {r}
  <2> DEFINE k == chain[r].key
             first == FirstBlock(chain, lost, k)
  <2>1. k \in Nat \ {NoKey} /\ r \in DOMAIN chain /\ chain[r].visible
    BY <1>3, ChainFacts
  <2>2. Returns(Again(r), Found(k, k, TRUE, TRUE))
    BY RangeRows, Zenon
  <2>3. Range(Again(r)) = {i \in DOMAIN chain : /\ first # 0 /\ first <= i /\ chain[i].key <= k
                                                /\ chain[i].key = k /\ chain[i].visible}
    BY <2>1, <2>2 DEF Returns, Found, Walk, Taken
  <2>4. \A i \in DOMAIN chain : chain[i].key = k /\ chain[i].visible => i = r
    BY <1>1, <2>1 DEF OneVisible
  <2>5. IF k \in lost THEN first = 0 ELSE first # 0 /\ first <= r
    <3>1. k \in lost => first = 0
      BY <2>1 DEF FirstBlock
    <3>2. \/ first = 0 /\ (k \in lost \/ \A i \in DOMAIN chain : chain[i].key # k)
          \/ first \in DOMAIN chain /\ \A i \in DOMAIN chain : chain[i].key = k => first <= i
      BY <2>1, FirstBlockFacts
    <3>3. r \in DOMAIN chain /\ chain[r].key = k /\ 0 \notin DOMAIN chain
      BY <2>1, ChainFacts
    <3> HIDE DEF first, k
    <3> QED BY <3>1, <3>2, <3>3
  <2>6. k <= k /\ chain[r].key = k
    BY <2>1
  <2> HIDE DEF first, k
  <2> QED BY <2>1, <2>3, <2>4, <2>5, <2>6
<1>5. Marked(rows) = UNION {Range(Again(r)) : r \in Range(rows)}
  BY DEF Marked
<1> HIDE DEF Again
<1> QED BY <1>4, <1>5
-----------------------------------------------------------------------------
(* What a well-formed condition selects. *)

(* The keys a result stands for: none outside K, and, if the bounds are    *)
(* found, every visible one in K.                                          *)
Selects(result, K) ==
  /\ result.defined => \A r \in Range(result.rows) : chain[r].key \in K
  /\ BoundsFound =>
       /\ result.defined
       /\ \A i \in DOMAIN chain :
            chain[i].visible /\ chain[i].key \in K =>
              \E r \in Range(result.rows) : chain[r].key = chain[i].key

LEMMA JoinSelects ==
  ASSUME Chained, NEW l, NEW r, Good(l), Good(r), NEW K, NEW L, Selects(l, K), Selects(r, L)
  PROVE  /\ Selects(Joining("OR", l, r), K \cup L)
         /\ Selects(Joining("AND", l, r), K \cap L)
<1>1. CASE ~(l.defined /\ r.defined)
  <2>1. Joining("OR", l, r) = NoResult /\ Joining("AND", l, r) = NoResult
    BY <1>1 DEF Joining
  <2>2. ~BoundsFound
    BY <1>1 DEF Selects
  <2> QED BY <2>1, <2>2, ResultFacts DEF Selects
<1>2. CASE l.defined /\ r.defined
  <2> DEFINE either == OrRows(chain, l.rows, r.rows)
             both   == AndRows(chain, l.rows, r.rows)
  <2>1. Joining("OR", l, r) = Result(either) /\ Joining("AND", l, r) = Result(both)
    BY <1>2 DEF Joining
  <2>2. Shown(l.rows) /\ Shown(r.rows)
    BY <1>2 DEF Good
  <2>3. United(either, l.rows, r.rows) /\ Joined(both, l.rows, r.rows)
    BY <2>2, OrFacts, AndFacts
  <2> HIDE DEF either, both
  <2>4. /\ \A x \in Range(l.rows) : chain[x].key \in K
        /\ \A x \in Range(r.rows) : chain[x].key \in L
    BY <1>2 DEF Selects
  <2>5. \A x \in Range(either) : chain[x].key \in K \cup L
    BY <2>3, <2>4 DEF United
  <2>6. \A x \in Range(both) : chain[x].key \in K \cap L
    BY <2>3, <2>4 DEF Joined, SameKey
  <2>7. ASSUME BoundsFound
        PROVE  /\ \A i \in DOMAIN chain :
                    chain[i].visible /\ chain[i].key \in K \cup L =>
                      \E x \in Range(either) : chain[x].key = chain[i].key
               /\ \A i \in DOMAIN chain :
                    chain[i].visible /\ chain[i].key \in K \cap L =>
                      \E x \in Range(both) : chain[x].key = chain[i].key
    <3>1. /\ \A i \in DOMAIN chain : chain[i].visible /\ chain[i].key \in K =>
               \E x \in Range(l.rows) : chain[x].key = chain[i].key
          /\ \A i \in DOMAIN chain : chain[i].visible /\ chain[i].key \in L =>
               \E x \in Range(r.rows) : chain[x].key = chain[i].key
      BY <2>7 DEF Selects
    <3>2. ASSUME NEW i \in DOMAIN chain, chain[i].visible, chain[i].key \in K \cup L
          PROVE  \E x \in Range(either) : chain[x].key = chain[i].key
      <4>1. CASE chain[i].key \in K
        BY <2>3, <3>1, <3>2, <4>1 DEF United
      <4>2. CASE chain[i].key \in L
        BY <2>3, <3>1, <3>2, <4>2 DEF United, SameKey
      <4> QED BY <3>2, <4>1, <4>2
    <3>3. ASSUME NEW i \in DOMAIN chain, chain[i].visible, chain[i].key \in K \cap L
          PROVE  \E x \in Range(both) : chain[x].key = chain[i].key
      <4>1. PICK x \in Range(l.rows), y \in Range(r.rows) :
              chain[x].key = chain[i].key /\ chain[y].key = chain[i].key
        BY <3>1, <3>3
      <4>2. SameKey(chain, x, y)
        BY <4>1 DEF SameKey
      <4>3. PICK z \in Range(both) : SameKey(chain, z, x)
        BY <2>3, <4>2 DEF Joined
      <4> QED BY <4>1, <4>3 DEF SameKey
    <3> QED BY <3>2, <3>3
  <2> QED BY <2>1, <2>5, <2>6, <2>7, ResultFacts DEF Selects
<1> QED BY <1>1, <1>2

(* Where the comparisons of a condition are.                               *)
LEMMA WellFormedFacts ==
  ASSUME Tokened, WellFormed
  PROVE  /\ Count \in Nat \ {0} /\ Len(tokens) = 4 * Count - 1
         /\ \A n \in 1..Count :
              /\ At(n) \in Nat /\ At(n) = 4 * n - 3
              /\ At(n) \in Index /\ At(n) + 1 \in Index /\ At(n) + 2 \in Index
              /\ There(At(n)) /\ There(At(n) + 1) /\ There(At(n) + 2)
              /\ tokens[At(n)].type = "IDENTIFIER"
              /\ TypeAt(At(n) + 1) = tokens[At(n) + 1].type
              /\ tokens[At(n) + 1].type \in Comparison
              /\ tokens[At(n) + 2].type = "LITERAL"
              /\ tokens[At(n) + 2].key \in Nat \ {NoKey}
              /\ n = Count => TypeAt(At(n) + 3) \notin Comparison \cup {"AND", "OR"}
              /\ n < Count => /\ TypeAt(At(n) + 3) = tokens[At(n) + 3].type
                              /\ tokens[At(n) + 3].type \in {"AND", "OR"}
                              /\ n + 1 \in 1..Count /\ At(n + 1) = At(n) + 4
<1>1. Len(tokens) \in Nat /\ DOMAIN tokens = 1..Len(tokens) /\ Index = 1..(Len(tokens) + 2)
  BY TokenFacts
<1>2. Count \in Nat \ {0} /\ Len(tokens) = 4 * Count - 1
  <2>1. Len(tokens) % 4 = 3
    BY DEF WellFormed
  <2>2. Count = (Len(tokens) + 1) \div 4
    BY DEF Count
  <2> QED BY <1>1, <2>1, <2>2
<1>3. ASSUME NEW n \in 1..Count
      PROVE  /\ At(n) \in Nat /\ At(n) = 4 * n - 3
             /\ At(n) \in Index /\ At(n) + 1 \in Index /\ At(n) + 2 \in Index
             /\ There(At(n)) /\ There(At(n) + 1) /\ There(At(n) + 2)
             /\ n = Count => ~There(At(n) + 3)
             /\ n < Count => There(At(n) + 3) /\ n + 1 \in 1..Count /\ At(n + 1) = At(n) + 4
  <2>1. n \in Nat /\ 1 <= n /\ n <= Count /\ At(n) = 4 * n - 3 /\ At(n + 1) = 4 * (n + 1) - 3
    BY <1>2 DEF At
  <2> QED BY <1>1, <1>2, <2>1 DEF There
<1>4. ASSUME NEW n \in 1..Count
      PROVE  /\ tokens[At(n)].type = "IDENTIFIER"
             /\ tokens[At(n) + 1].type \in Comparison
             /\ tokens[At(n) + 2].type = "LITERAL"
             /\ n < Count => tokens[At(n) + 3].type \in {"AND", "OR"}
             /\ beyond \notin Comparison \cup {"AND", "OR"}
  BY DEF WellFormed
<1>5. ASSUME NEW n \in 1..Count PROVE tokens[At(n) + 2].key \in Nat \ {NoKey}
  BY <1>3, <1>4, TokenFacts DEF There
<1> QED BY <1>2, <1>3, <1>4, <1>5 DEF TypeAt

(* A comparison of a well-formed condition.                                *)
Keys == {chain[i].key : i \in DOMAIN chain}
Held(n) == {k \in Keys : Holds(n, k)}

LEMMA HoldsMeets ==
  ASSUME Tokened, WellFormed, NEW n \in 1..Count, NEW k
  PROVE  Holds(n, k) <=> Meets(tokens[At(n) + 1].type, tokens[At(n) + 2].key, k)
<1> DEFINE op == tokens[At(n) + 1].type
           bound == tokens[At(n) + 2].key
<1>1. op \in Comparison
  BY WellFormedFacts
<1>2. Holds(n, k) = CASE op \in {"LESS", "LESS_EQUAL"}       -> k <= bound
                      [] op \in {"GREATER", "GREATER_EQUAL"} -> k >= bound
                      [] op = "EQUAL"                        -> k = bound
  BY DEF Holds
<1> HIDE DEF op, bound
<1>3. CASE op \in {"LESS", "LESS_EQUAL"}
  BY <1>2, <1>3 DEF Meets, op, bound
<1>4. CASE op \in {"GREATER", "GREATER_EQUAL"}
  BY <1>2, <1>4 DEF Meets, op, bound
<1>5. CASE op = "EQUAL"
  BY <1>2, <1>5 DEF Meets, op, bound
<1> QED BY <1>1, <1>3, <1>4, <1>5 DEF Comparison

LEMMA OneComparison ==
  ASSUME Chained, Tokened, WellFormed, NEW n \in 1..Count
  PROVE  /\ comparison[At(n)] # Undefined /\ comparison[At(n)].at = At(n) + 3
         /\ Selects(execute[comparison[At(n)]], Held(n))
<1> DEFINE a == At(n)
           left == Primary(a)
           right == Primary(a + 2)
           op == tokens[a + 1].type
           bound == tokens[a + 2].key
           e == comparison[a]
           rows == Compare(chain, lost, op, bound)
<1>1. /\ a \in Nat /\ a \in Index /\ a + 2 \in Index /\ There(a) /\ There(a + 2)
      /\ tokens[a].type = "IDENTIFIER" /\ tokens[a + 2].type = "LITERAL"
      /\ TypeAt(a + 1) = op /\ op \in Comparison /\ bound \in Nat \ {NoKey}
      /\ TypeAt(a + 3) \notin Comparison
  <2> HIDE DEF a
  <2>1. n = Count \/ n < Count
    BY WellFormedFacts
  <2>2. "AND" \notin Comparison /\ "OR" \notin Comparison
    BY DEF Comparison
  <2> QED BY <2>1, <2>2, WellFormedFacts DEF a
<1> HIDE DEF a, op, bound
<1>2. /\ left.kind = "IDENTIFIER" /\ left.at = a + 1 /\ left # Undefined
      /\ right.kind = "LITERAL" /\ right.key = bound /\ right.at = a + 3 /\ right # Undefined
  <2>1. /\ left.kind = "IDENTIFIER" /\ left.at = a + 1
        /\ right.kind = "LITERAL" /\ right.key = bound /\ right.at = (a + 2) + 1
    BY <1>1 DEF Primary, bound
  <2>2. (a + 2) + 1 = a + 3
    BY <1>1
  <2>3. Undefined.kind = "UNDEFINED"
    BY DEF Undefined
  <2> HIDE DEF left, right
  <2> QED BY <2>1, <2>2, <2>3
<1> HIDE DEF left, right, e
<1>3. \A i : Operand("BINARY", i) = Primary(i)
  BY DEF Operand
<1>4. Signs("BINARY") = Comparison
  BY DEF Signs
<1>5. comparison[a + 2] = right
  <2>1. Single("BINARY", comparison, a + 2)
    <3>1. ~Broken("BINARY", comparison, a + 2) /\ ~Twofold("BINARY", comparison, a + 2)
      BY <1>1, <1>2, <1>3, <1>4 DEF Broken, Twofold, right
    <3> QED BY <1>1, <3>1, ParseSolves, Shapes
  <2> QED BY <1>3, <2>1 DEF Single, right
<1>6. left.at + 1 = a + 2
  BY <1>1, <1>2
<1>7. Twofold("BINARY", comparison, a)
  <2>1. ~Single("BINARY", comparison, a)
    BY <1>1, <1>2, <1>3, <1>4 DEF Single, left
  <2>2. ~Broken("BINARY", comparison, a)
    BY <1>2, <1>3, <1>5, <1>6 DEF Broken, left
  <2> QED BY <1>1, <2>1, <2>2, ParseSolves, Shapes
<1>8. /\ e.kind = "BINARY" /\ e.op = op /\ e.left = left /\ e.right = right
      /\ e.at = a + 3 /\ e # Undefined
  <2>1. /\ e.kind = "BINARY" /\ e.op = TypeAt(left.at) /\ e.left = left
        /\ e.right = comparison[left.at + 1] /\ e.at = comparison[left.at + 1].at /\ e # Undefined
    BY <1>3, <1>7 DEF Twofold, e, left
  <2> QED BY <1>1, <1>2, <1>5, <1>6, <2>1
<1>9. execute[e] = Result(rows)
  <2>1. LiteralOf(e) = right
    BY <1>2, <1>8 DEF LiteralOf
  <2>2. Comparing(e) = Result(rows)
    BY <1>2, <1>8, <2>1 DEF Comparing
  <2> QED BY <1>1, <2>2, NodeResults DEF e
<1>10. \A k : Holds(n, k) <=> Meets(op, bound, k)
  BY HoldsMeets DEF op, bound, a
<1>11. BoundsFound => Bounded(op, bound)
  <2>1. BoundsFound =>
          /\ tokens[At(n) + 1].type \in {"GREATER", "GREATER_EQUAL"} =>
               FirstBlock(chain, lost, tokens[At(n) + 2].key) # 0
          /\ tokens[At(n) + 1].type = "EQUAL" => tokens[At(n) + 2].key \notin lost
    BY DEF BoundsFound
  <2> QED BY <2>1 DEF Bounded, op, bound, a
<1>12. /\ Shown(rows)
       /\ \A r \in Range(rows) : Meets(op, bound, chain[r].key)
       /\ Bounded(op, bound) =>
            \A i \in DOMAIN chain :
              chain[i].visible /\ Meets(op, bound, chain[i].key) => i \in Range(rows)
  BY <1>1, CompareFacts
<1> HIDE DEF rows
<1>13. \A r \in Range(rows) : r \in DOMAIN chain
  BY <1>12, ShownFacts DEF Range
<1>14. Selects(execute[e], Held(n))
  BY <1>9, <1>10, <1>11, <1>12, <1>13, ResultFacts DEF Selects, Held, Keys
<1> QED BY <1>8, <1>14 DEF e, a
(* Comparisons joined by OR, and by AND.                                   *)
Join(n) == tokens[At(n) + 3].type
Linked(m, n) == \A j \in m..(n - 1) : Join(j) = "OR"
Stretch(n, z) == z \in n..Count /\ Linked(n, z) /\ (z < Count => Join(z) = "AND")
Ored(n) == {k \in Keys : \E m \in n..Count : Linked(n, m) /\ Holds(m, k)}
Anded(n) ==
  {k \in Keys : \A p \in n..Count : p = n \/ Join(p - 1) = "AND" => k \in Ored(p)}

LEMMA JoinFacts ==
  ASSUME Tokened, WellFormed, NEW n \in 1..Count
  PROVE  /\ n = Count => TypeAt(At(n) + 3) \notin {"AND", "OR"}
         /\ n < Count => /\ TypeAt(At(n) + 3) = Join(n) /\ Join(n) \in {"AND", "OR"}
                         /\ n + 1 \in 1..Count /\ (At(n) + 3) + 1 = At(n + 1)
<1>1. n = Count => TypeAt(At(n) + 3) \notin {"AND", "OR"}
  BY WellFormedFacts
<1>2. ASSUME n < Count
      PROVE  /\ TypeAt(At(n) + 3) = Join(n) /\ Join(n) \in {"AND", "OR"}
             /\ n + 1 \in 1..Count /\ (At(n) + 3) + 1 = At(n + 1)
  <2>1. /\ TypeAt(At(n) + 3) = Join(n) /\ Join(n) \in {"AND", "OR"}
        /\ n + 1 \in 1..Count /\ At(n + 1) = At(n) + 4 /\ At(n) \in Nat
    BY <1>2, WellFormedFacts DEF Join
  <2> QED BY <2>1
<1> QED BY <1>1, <1>2

LEMMA OredFacts ==
  ASSUME Tokened, WellFormed, NEW n \in 1..Count
  PROVE  /\ n < Count /\ Join(n) = "OR" => Ored(n) = Held(n) \cup Ored(n + 1)
         /\ ~(n < Count /\ Join(n) = "OR") => Ored(n) = Held(n)
<1>0. Count \in Nat /\ n \in Nat
  BY WellFormedFacts
<1>1. Linked(n, n) /\ n \in n..Count
  BY <1>0 DEF Linked
<1>2. ASSUME n < Count, Join(n) = "OR" PROVE Ored(n) = Held(n) \cup Ored(n + 1)
  <2>1. ASSUME NEW m \in (n + 1)..Count PROVE Linked(n, m) <=> Linked(n + 1, m)
    <3>1. \A j \in n..(m - 1) : j = n \/ j \in (n + 1)..(m - 1)
      BY <1>0, <2>1
    <3>2. \A j \in (n + 1)..(m - 1) : j \in n..(m - 1)
      BY <1>0, <2>1
    <3> QED BY <1>2, <3>1, <3>2 DEF Linked
  <2>2. \A m \in n..Count : m = n \/ m \in (n + 1)..Count
    BY <1>0
  <2>3. \A m \in (n + 1)..Count : m \in n..Count
    BY <1>0
  <2> QED BY <1>1, <2>1, <2>2, <2>3 DEF Ored, Held
<1>3. ASSUME ~(n < Count /\ Join(n) = "OR") PROVE Ored(n) = Held(n)
  <2>1. \A m \in n..Count : Linked(n, m) => m = n
    <3>1. SUFFICES ASSUME NEW m \in n..Count, Linked(n, m), m # n PROVE FALSE
      OBVIOUS
    <3>2. n < Count /\ n \in n..(m - 1)
      BY <1>0, <3>1
    <3> QED BY <1>3, <3>1, <3>2 DEF Linked
  <2> QED BY <1>1, <2>1 DEF Ored, Held
<1> QED BY <1>2, <1>3

LEMMA OrLevel ==
  ASSUME Chained, Tokened, WellFormed
  PROVE  \A n \in 1..Count :
           /\ OR[At(n)] # Undefined /\ Selects(execute[OR[At(n)]], Ored(n))
           /\ \E z \in n..Count : Stretch(n, z) /\ OR[At(n)].at = At(z) + 3
<1> DEFINE Fine(n) == /\ OR[At(n)] # Undefined /\ Selects(execute[OR[At(n)]], Ored(n))
                      /\ \E z \in n..Count : Stretch(n, z) /\ OR[At(n)].at = At(z) + 3
           Bad == {n \in 1..Count : ~Fine(n)}
<1>0. Count \in Nat
  BY WellFormedFacts
<1>1. ASSUME Bad # {} PROVE FALSE
  <2>1. PICK n \in Bad : \A m \in Bad : m <= n
    BY <1>0, <1>1, Greatest
  <2>2. n \in 1..Count /\ ~Fine(n) /\ n \in Nat
    BY <2>1
  <2> DEFINE a == At(n)
             left == comparison[a]
  <2>3. left # Undefined /\ left.at = a + 3 /\ Selects(execute[left], Held(n))
    BY <2>2, OneComparison
  <2>4. a \in Index
    BY <2>2, WellFormedFacts
  <2>5. Operand("OR", a) = left /\ Signs("OR") = {"OR"}
    BY DEF Operand, Signs
  <2> HIDE DEF left
  <2>6. Single("OR", OR, a) \/ Broken("OR", OR, a) \/ Twofold("OR", OR, a)
    BY <2>4, ParseSolves, Shapes
  <2>7. CASE n < Count /\ Join(n) = "OR"
    <3>1. Fine(n + 1) /\ n + 1 \in 1..Count
      <4>1. n + 1 \in 1..Count
        BY <2>2, <2>7, JoinFacts
      <4>2. n + 1 \notin Bad
        <5> HIDE DEF Bad
        <5> QED BY <2>1, <2>2
      <4> HIDE DEF Fine
      <4> QED BY <4>1, <4>2
    <3>2. TypeAt(left.at) = "OR" /\ left.at + 1 = At(n + 1)
      BY <2>2, <2>3, <2>7, JoinFacts
    <3>3. Twofold("OR", OR, a)
      <4>1. ~Single("OR", OR, a)
        BY <2>3, <2>5, <3>2 DEF Single
      <4>2. ~Broken("OR", OR, a)
        BY <2>5, <3>1, <3>2 DEF Broken
      <4> QED BY <2>6, <4>1, <4>2
    <3> DEFINE right == OR[At(n + 1)]
    <3>4. /\ OR[a].kind = "OR" /\ OR[a].left = left /\ OR[a].right = right
          /\ OR[a].at = right.at /\ OR[a] # Undefined
      BY <2>5, <3>2, <3>3 DEF Twofold
    <3>5. execute[OR[a]] = Joining("OR", execute[left], execute[right])
      BY <2>4, <3>4, NodeResults
    <3>6. Good(execute[left]) /\ Good(execute[right])
      <4>1. At(n + 1) \in Index
        BY <3>1, WellFormedFacts
      <4> QED BY <2>4, <4>1, AllGood DEF left
    <3>7. Selects(execute[OR[a]], Held(n) \cup Ored(n + 1))
      <4>1. Selects(execute[right], Ored(n + 1))
        BY <3>1
      <4> DEFINE x == execute[left]
                 y == execute[right]
      <4> HIDE DEF x, y
      <4>2. Good(x) /\ Good(y) /\ Selects(x, Held(n)) /\ Selects(y, Ored(n + 1))
        BY <2>3, <3>6, <4>1 DEF x, y
      <4>3. Selects(Joining("OR", x, y), Held(n) \cup Ored(n + 1))
        BY <4>2, JoinSelects, Zenon
      <4> QED BY <3>5, <4>3 DEF x, y
    <3>8. Selects(execute[OR[a]], Ored(n))
      BY <2>2, <2>7, <3>7, OredFacts
    <3>9. PICK z \in (n + 1)..Count : Stretch(n + 1, z) /\ right.at = At(z) + 3
      BY <3>1
    <3>10. z \in n..Count /\ Stretch(n, z)
      <4>1. z \in n..Count
        BY <1>0, <2>2, <3>9
      <4>2. \A j \in n..(z - 1) : j = n \/ j \in (n + 1)..(z - 1)
        BY <1>0, <2>2, <3>9
      <4> QED BY <2>7, <3>9, <4>1, <4>2 DEF Stretch, Linked
    <3> HIDE DEF right, a
    <3>11. OR[a] # Undefined /\ OR[a].at = At(z) + 3
      BY <3>4, <3>9
    <3> QED BY <2>2, <3>8, <3>10, <3>11 DEF a
  <2>8. CASE ~(n < Count /\ Join(n) = "OR")
    <3>1. TypeAt(left.at) # "OR"
      <4>1. n = Count \/ n < Count
        BY <1>0, <2>2
      <4> QED BY <2>2, <2>3, <2>8, <4>1, JoinFacts
    <3>2. OR[a] = left
      <4>1. Single("OR", OR, a)
        BY <2>5, <2>6, <3>1 DEF Broken, Twofold
      <4> QED BY <2>5, <4>1 DEF Single
    <3>3. Selects(execute[OR[a]], Ored(n))
      BY <2>2, <2>3, <2>8, <3>2, OredFacts
    <3>4. n \in n..Count /\ Stretch(n, n)
      <4>1. n \in n..Count /\ n..(n - 1) = {}
        BY <1>0, <2>2
      <4> QED BY <2>2, <2>8, <4>1, JoinFacts DEF Stretch, Linked
    <3> HIDE DEF a
    <3>5. OR[a] # Undefined /\ OR[a].at = a + 3
      BY <2>3, <3>2
    <3> QED BY <2>2, <3>3, <3>4, <3>5 DEF a
  <2> QED BY <2>7, <2>8
<1> QED BY <1>1

LEMMA AndedFacts ==
  ASSUME Tokened, WellFormed, NEW n \in 1..Count, NEW z \in n..Count, Stretch(n, z)
  PROVE  /\ z < Count => Anded(n) = Ored(n) \cap Anded(z + 1)
         /\ z = Count => Anded(n) = Ored(n)
<1>0. Count \in Nat /\ n \in Nat /\ z \in Nat /\ n <= z /\ z <= Count
  BY WellFormedFacts
<1>1. \A p \in (n + 1)..z : Join(p - 1) = "OR"
  <2>1. \A p \in (n + 1)..z : p - 1 \in n..(z - 1)
    BY <1>0
  <2> QED BY <2>1 DEF Stretch, Linked
<1>2. n \in n..Count
  BY <1>0
<1>3. ASSUME z < Count PROVE Anded(n) = Ored(n) \cap Anded(z + 1)
  <2>1. Join((z + 1) - 1) = "AND"
    <3>1. (z + 1) - 1 = z
      BY <1>0
    <3> QED BY <1>3, <3>1 DEF Stretch
  <2>2. \A p \in n..Count : p = n \/ p \in (n + 1)..z \/ p \in (z + 1)..Count
    BY <1>0
  <2>3. \A p \in (z + 1)..Count : p \in n..Count
    BY <1>0
  <2>4. z + 1 \in (z + 1)..Count
    BY <1>0, <1>3
  <2>5. \A k \in Anded(n) : k \in Ored(n) /\ k \in Anded(z + 1)
    BY <1>2, <2>1, <2>3 DEF Anded
  <2>6. \A k \in Ored(n) \cap Anded(z + 1) : k \in Anded(n)
    BY <1>1, <2>1, <2>2 DEF Anded
  <2> QED BY <2>5, <2>6
<1>4. ASSUME z = Count PROVE Anded(n) = Ored(n)
  <2>1. \A p \in n..Count : p = n \/ p \in (n + 1)..z
    BY <1>0, <1>4
  <2>2. \A k \in Ored(n) : k \in Keys
    BY DEF Ored
  <2> QED BY <1>1, <1>2, <2>1, <2>2 DEF Anded
<1> QED BY <1>3, <1>4

LEMMA AndLevel ==
  ASSUME Chained, Tokened, WellFormed
  PROVE  \A n \in 1..Count :
           AND[At(n)] # Undefined /\ Selects(execute[AND[At(n)]], Anded(n))
<1> DEFINE Fine(n) == AND[At(n)] # Undefined /\ Selects(execute[AND[At(n)]], Anded(n))
           Bad == {n \in 1..Count : ~Fine(n)}
<1>0. Count \in Nat
  BY WellFormedFacts
<1>1. ASSUME Bad # {} PROVE FALSE
  <2>1. PICK n \in Bad : \A m \in Bad : m <= n
    BY <1>0, <1>1, Greatest
  <2>2. n \in 1..Count /\ ~Fine(n) /\ n \in Nat
    BY <2>1
  <2> DEFINE a == At(n)
             left == OR[a]
  <2>3. PICK z \in n..Count : Stretch(n, z) /\ left.at = At(z) + 3
    BY <2>2, OrLevel
  <2>4. left # Undefined /\ Selects(execute[left], Ored(n))
    BY <2>2, OrLevel
  <2>5. a \in Index /\ z \in 1..Count
    BY <1>0, <2>2, <2>3, WellFormedFacts
  <2>6. Operand("AND", a) = left /\ Signs("AND") = {"AND"}
    BY DEF Operand, Signs
  <2> HIDE DEF left
  <2>7. Single("AND", AND, a) \/ Broken("AND", AND, a) \/ Twofold("AND", AND, a)
    BY <2>5, ParseSolves, Shapes
  <2>8. CASE z < Count
    <3>1. Fine(z + 1) /\ z + 1 \in 1..Count
      <4>1. z + 1 \in 1..Count
        BY <2>5, <2>8, JoinFacts
      <4>2. z + 1 \notin Bad
        <5>1. n <= z /\ z \in Nat
          BY <1>0, <2>2, <2>3
        <5> HIDE DEF Bad
        <5> QED BY <2>1, <2>2, <5>1
      <4> HIDE DEF Fine
      <4> QED BY <4>1, <4>2
    <3>2. TypeAt(left.at) = "AND" /\ left.at + 1 = At(z + 1)
      BY <2>3, <2>5, <2>8, JoinFacts DEF Stretch
    <3>3. Twofold("AND", AND, a)
      <4>1. ~Single("AND", AND, a)
        BY <2>4, <2>6, <3>2 DEF Single
      <4>2. ~Broken("AND", AND, a)
        BY <2>6, <3>1, <3>2 DEF Broken
      <4> QED BY <2>7, <4>1, <4>2
    <3> DEFINE right == AND[At(z + 1)]
    <3>4. /\ AND[a].kind = "AND" /\ AND[a].left = left /\ AND[a].right = right
          /\ AND[a] # Undefined
      BY <2>6, <3>2, <3>3 DEF Twofold
    <3>5. execute[AND[a]] = Joining("AND", execute[left], execute[right])
      BY <2>5, <3>4, NodeResults
    <3>6. Good(execute[left]) /\ Good(execute[right])
      <4>1. At(z + 1) \in Index
        BY <3>1, WellFormedFacts
      <4> QED BY <2>5, <4>1, AllGood DEF left
    <3>7. Selects(execute[AND[a]], Ored(n) \cap Anded(z + 1))
      <4>1. Selects(execute[right], Anded(z + 1))
        BY <3>1
      <4> DEFINE x == execute[left]
                 y == execute[right]
      <4> HIDE DEF x, y
      <4>2. Good(x) /\ Good(y) /\ Selects(x, Ored(n)) /\ Selects(y, Anded(z + 1))
        BY <2>4, <3>6, <4>1 DEF x, y
      <4>3. Selects(Joining("AND", x, y), Ored(n) \cap Anded(z + 1))
        BY <4>2, JoinSelects, Zenon
      <4> QED BY <3>5, <4>3 DEF x, y
    <3>8. Selects(execute[AND[a]], Anded(n))
      BY <2>2, <2>3, <2>8, <3>7, AndedFacts
    <3> QED BY <2>2, <3>4, <3>8
  <2>9. CASE z = Count
    <3>1. TypeAt(left.at) # "AND"
      BY <2>3, <2>5, <2>9, JoinFacts
    <3>2. AND[a] = left
      <4>1. Single("AND", AND, a)
        BY <2>6, <2>7, <3>1 DEF Broken, Twofold
      <4> QED BY <2>6, <4>1 DEF Single
    <3>3. Selects(execute[AND[a]], Anded(n))
      BY <2>2, <2>3, <2>4, <2>9, <3>2, AndedFacts
    <3> QED BY <2>2, <2>4, <3>2, <3>3
  <2>10. z < Count \/ z = Count
    BY <1>0, <2>5
  <2> QED BY <2>8, <2>9, <2>10
<1> QED BY <1>1

(* Read without parsing, the condition says the same.                      *)
LEMMA SatisfiesAnded ==
  ASSUME Tokened, WellFormed, NEW k \in Keys
  PROVE  Satisfies(k) <=> k \in Anded(1)
<1>0. Count \in Nat \ {0} /\ \A j \in 1..(Count - 1) : Join(j) \in {"AND", "OR"}
  <2>1. Count \in Nat \ {0}
    BY WellFormedFacts
  <2>2. \A j \in 1..(Count - 1) : j \in 1..Count /\ j < Count
    BY <2>1
  <2> QED BY <2>1, <2>2, JoinFacts
<1>1. ASSUME NEW m \in 1..Count, NEW n \in 1..Count, m <= n
      PROVE  (Together(m, n) <=> Linked(m, n)) /\ (Together(n, m) <=> Linked(m, n))
  <2>1. \A j \in 1..(Count - 1) : (m <= j /\ j < n) \/ (n <= j /\ j < m) <=> j \in m..(n - 1)
    BY <1>0, <1>1
  <2>2. \A j \in m..(n - 1) : j \in 1..(Count - 1)
    BY <1>0, <1>1
  <2> QED BY <2>1, <2>2 DEF Together, Linked, Join
<1>2. ASSUME Satisfies(k) PROVE k \in Anded(1)
  <2>1. SUFFICES ASSUME NEW p \in 1..Count, p = 1 \/ Join(p - 1) = "AND"
                 PROVE  k \in Ored(p)
    BY DEF Anded
  <2>2. PICK m \in 1..Count : Together(m, p) /\ Holds(m, k)
    BY <1>2 DEF Satisfies
  <2>3. p <= m
    <3>1. SUFFICES ASSUME m < p PROVE FALSE
      BY <1>0
    <3>2. p - 1 \in m..(p - 1) /\ p # 1 /\ m <= p
      BY <1>0, <3>1
    <3>3. Linked(m, p)
      BY <1>1, <2>2, <3>2
    <3> QED BY <2>1, <3>2, <3>3 DEF Linked
  <2>4. m \in p..Count /\ Linked(p, m)
    BY <1>0, <1>1, <2>2, <2>3
  <2> QED BY <2>2, <2>4 DEF Ored
<1>3. ASSUME k \in Anded(1) PROVE Satisfies(k)
  <2>1. SUFFICES ASSUME NEW n \in 1..Count
                 PROVE  \E m \in 1..Count : Together(m, n) /\ Holds(m, k)
    BY DEF Satisfies
  <2> DEFINE B == {p \in 1..n : p = 1 \/ Join(p - 1) = "AND"}
  <2>2. B # {} /\ B \in SUBSET (1..n) /\ n \in Nat
    <3>1. 1 \in 1..n /\ n \in Nat
      BY <1>0
    <3> QED BY <3>1
  <2>3. PICK p \in B : \A q \in B : q <= p
    BY <2>2, Greatest
  <2>4. p \in 1..n /\ p \in 1..Count /\ p <= n /\ (p = 1 \/ Join(p - 1) = "AND")
    BY <1>0, <2>3
  <2>5. Linked(p, n)
    <3>1. SUFFICES ASSUME NEW j \in p..(n - 1), Join(j) # "OR" PROVE FALSE
      BY DEF Linked
    <3>2. j \in 1..(Count - 1) /\ j + 1 \in 1..n /\ (j + 1) - 1 = j /\ ~(j + 1 <= p)
      BY <1>0, <2>4
    <3>3. j + 1 \in B
      BY <1>0, <3>1, <3>2
    <3> HIDE DEF B
    <3> QED BY <2>3, <3>2, <3>3
  <2>6. k \in Ored(p)
    BY <1>3, <2>4 DEF Anded
  <2>7. PICK m \in p..Count : Linked(p, m) /\ Holds(m, k)
    BY <2>6 DEF Ored
  <2>8. m \in 1..Count
    BY <1>0, <2>4
  <2>9. CASE m <= n
    <3>1. \A j \in m..(n - 1) : j \in p..(n - 1)
      BY <1>0, <2>4, <2>7
    <3>2. Linked(m, n)
      BY <2>5, <3>1 DEF Linked
    <3> QED BY <1>1, <2>7, <2>8, <2>9, <3>2
  <2>10. CASE n <= m
    <3>1. \A j \in n..(m - 1) : j \in p..(m - 1)
      BY <1>0, <2>4, <2>7
    <3>2. Linked(n, m)
      BY <2>7, <3>1 DEF Linked
    <3> QED BY <1>1, <2>7, <2>8, <2>10, <3>2
  <2>11. m <= n \/ n <= m
    BY <1>0, <2>8
  <2> QED BY <2>9, <2>10, <2>11
<1> QED BY <1>2, <1>3

LEMMA SelectionFollows ==
  ASSUME Chained, Tokened
  PROVE  SelectionSound /\ SelectionComplete
<1> DEFINE result == Selected
<1>1. SUFFICES ASSUME WellFormed
               PROVE  /\ result.defined =>
                           \A r \in Range(result.rows) :
                             chain[r].visible /\ Satisfies(chain[r].key)
                      /\ BoundsFound =>
                           /\ result.defined
                           /\ \A i \in DOMAIN chain :
                                chain[i].visible /\ Satisfies(chain[i].key) =>
                                  \E r \in Range(result.rows) : chain[r].key = chain[i].key
  BY DEF SelectionSound, SelectionComplete
<1>2. Count \in Nat \ {0} /\ 1 \in 1..Count /\ At(1) = 1
  BY <1>1, WellFormedFacts
<1>3. result = execute[AND[1]]
  BY <1>1 DEF Selected, Expression, WellFormed
<1>4. Selects(result, Anded(1))
  BY <1>1, <1>2, <1>3, AndLevel
<1>5. Good(result)
  BY SelectedGood
<1> HIDE DEF result
<1>6. \A i \in DOMAIN chain : Satisfies(chain[i].key) <=> chain[i].key \in Anded(1)
  <2>1. \A i \in DOMAIN chain : chain[i].key \in Keys
    BY DEF Keys
  <2> QED BY <1>1, <2>1, SatisfiesAnded
<1>7. result.defined => \A r \in Range(result.rows) : r \in DOMAIN chain /\ chain[r].visible
  BY <1>5, ShownFacts DEF Good, Range
<1> QED BY <1>4, <1>6, <1>7 DEF Selects
-----------------------------------------------------------------------------
(* The invariant: the chain is in the order of its keys, whatever is       *)
(* stored, and what is typed consists of tokens.                           *)

QueryInv == Chained /\ Tokened

LEMMA InsertedParts ==
  ASSUME NEW T, NEW s \in Seq(T), NEW i \in 1..(Len(s) + 1), NEW e \in T,
         NEW t, t = InsertAt(s, i, e)
  PROVE  /\ t \in Seq(T) /\ Len(t) = Len(s) + 1 /\ DOMAIN t = 1..(Len(s) + 1)
         /\ t[i] = e
         /\ \A k \in 1..(i - 1) : t[k] = s[k]
         /\ \A k \in i..Len(s) : t[k + 1] = s[k]
<1> DEFINE left == SubSeq(s, 1, i - 1)
           right == SubSeq(s, i, Len(s))
           a == left \o <<e>>
<1>1. /\ left \in Seq(T) /\ Len(left) = i - 1
      /\ \A k \in 1..(i - 1) : left[k] = s[k]
  OBVIOUS
<1>2. /\ right \in Seq(T) /\ Len(right) = Len(s) + 1 - i
      /\ \A k \in 1..(Len(s) + 1 - i) : right[k] = s[i + k - 1]
  OBVIOUS
<1>3. t = a \o right
  BY DEF InsertAt
<1> HIDE DEF left, right
<1>4. /\ a \in Seq(T) /\ Len(a) = i /\ a[i] = e
      /\ \A k \in 1..(i - 1) : a[k] = left[k]
  BY <1>1
<1> HIDE DEF a
<1>5. Len(s) \in Nat /\ i \in Nat
  OBVIOUS
<1>6. /\ a \o right \in Seq(T) /\ Len(a \o right) = Len(a) + Len(right)
      /\ \A k \in 1..(Len(a) + Len(right)) :
           (a \o right)[k] = IF k <= Len(a) THEN a[k] ELSE right[k - Len(a)]
  BY <1>2, <1>4, ConcatProperties
<1>7. Len(a) = i /\ Len(a) + Len(right) = Len(s) + 1
  BY <1>2, <1>4, <1>5
<1>8. t \in Seq(T) /\ Len(t) = Len(s) + 1 /\ DOMAIN t = 1..(Len(s) + 1)
  BY <1>3, <1>6, <1>7
<1>9. /\ \A k \in 1..i : t[k] = a[k]
      /\ \A k \in (i + 1)..(Len(s) + 1) : t[k] = right[k - i]
  <2>1. \A k \in 1..(Len(s) + 1) : t[k] = IF k <= i THEN a[k] ELSE right[k - i]
    BY <1>3, <1>6, <1>7
  <2>2. \A k \in 1..i : k \in 1..(Len(s) + 1) /\ k <= i
    BY <1>5
  <2>3. \A k \in (i + 1)..(Len(s) + 1) : k \in 1..(Len(s) + 1) /\ ~(k <= i)
    BY <1>5
  <2> QED BY <2>1, <2>2, <2>3
<1>10. t[i] = e /\ \A k \in 1..(i - 1) : t[k] = s[k]
  <2>1. i \in 1..i /\ \A k \in 1..(i - 1) : k \in 1..i
    BY <1>5
  <2> QED BY <1>1, <1>4, <1>9, <2>1
<1>11. ASSUME NEW k \in i..Len(s) PROVE t[k + 1] = s[k]
  <2>1. /\ k + 1 \in (i + 1)..(Len(s) + 1) /\ k + 1 - i \in 1..(Len(s) + 1 - i)
        /\ i + (k + 1 - i) - 1 = k
    BY <1>5
  <2> QED BY <1>2, <1>9, <2>1
<1> QED BY <1>8, <1>10, <1>11

LEMMA StoreKeeps ==
  ASSUME Chained, NEW k \in Key, Store(k)
  PROVE  Chained'
<1> DEFINE Row == [key : Nat \ {NoKey}, visible : BOOLEAN]
           N == Len(chain)
<1>1. PICK i \in 1..(Len(chain) + 1), visible \in BOOLEAN :
        /\ \A j \in DOMAIN chain : j < i <=> chain[j].key <= k
        /\ chain' = InsertAt(chain, i, [key |-> k, visible |-> visible])
  BY DEF Store
<1> DEFINE row == [key |-> k, visible |-> visible]
<1>2. row \in Row /\ chain \in Seq(Row) /\ k \in Nat /\ row.key = k
  BY QueryAssumption DEF Chained
<1> HIDE DEF Row
<1>10. chain' = InsertAt(chain, i, row)
  BY <1>1
<1> HIDE DEF row
<1>3. /\ chain' \in Seq(Row) /\ Len(chain') = N + 1 /\ DOMAIN chain' = 1..(N + 1)
      /\ chain'[i] = row
      /\ \A m \in 1..(i - 1) : chain'[m] = chain[m]
      /\ \A m \in i..N : chain'[m + 1] = chain[m]
  BY <1>2, <1>10, InsertedParts
<1>4. /\ N \in Nat /\ DOMAIN chain = 1..N /\ i \in Nat
      /\ \A m \in DOMAIN chain : chain[m].key \in Nat
  BY ChainFacts
<1>5. \A m, n \in 1..N : m < n => chain[m].key <= chain[n].key
  BY <1>4 DEF Chained
<1> HIDE DEF N
<1>6. ASSUME NEW m \in 1..(N + 1)
      PROVE  \/ m < i /\ m \in 1..N /\ chain'[m] = chain[m]
             \/ m = i /\ chain'[m] = row
             \/ m > i /\ m - 1 >= i /\ m - 1 \in 1..N /\ chain'[m] = chain[m - 1]
  <2>1. CASE m < i
    <3>1. m \in 1..(i - 1) /\ m \in 1..N
      BY <1>1, <1>4, <2>1 DEF N
    <3> QED BY <1>3, <2>1, <3>1
  <2>2. CASE m = i
    BY <1>3, <2>2
  <2>3. CASE m > i
    <3>1. m - 1 \in i..N /\ m - 1 \in 1..N /\ m - 1 >= i /\ (m - 1) + 1 = m
      BY <1>1, <1>4, <2>3
    <3>2. chain'[(m - 1) + 1] = chain[m - 1]
      BY <1>3, <3>1
    <3> QED BY <2>3, <3>1, <3>2
  <2> QED BY <1>4, <2>1, <2>2, <2>3
<1>7. \A m \in 1..N : m < i <=> chain[m].key <= k
  BY <1>1, <1>4
<1>8. ASSUME NEW m \in 1..(N + 1), NEW n \in 1..(N + 1), m < n
      PROVE  chain'[m].key <= chain'[n].key
  <2>1. CASE m < i /\ m \in 1..N /\ chain'[m] = chain[m]
    <3>1. CASE n < i /\ n \in 1..N /\ chain'[n] = chain[n]
      BY <1>5, <1>8, <2>1, <3>1
    <3>2. CASE n = i /\ chain'[n] = row
      BY <1>2, <1>7, <2>1, <3>2
    <3>3. CASE n > i /\ n - 1 >= i /\ n - 1 \in 1..N /\ chain'[n] = chain[n - 1]
      <4>1. m < n - 1
        BY <1>4, <2>1, <3>3
      <4> QED BY <1>5, <2>1, <3>3, <4>1
    <3> QED BY <1>6, <3>1, <3>2, <3>3
  <2>2. CASE m = i /\ chain'[m] = row
    <3>1. n > i /\ n - 1 >= i /\ n - 1 \in 1..N /\ chain'[n] = chain[n - 1]
      BY <1>4, <1>6, <1>8, <2>2
    <3>2. ~(n - 1 < i) /\ chain[n - 1].key \in Nat
      BY <1>4, <3>1
    <3>3. ~(chain[n - 1].key <= k)
      BY <1>7, <3>1, <3>2
    <3> QED BY <1>2, <2>2, <3>1, <3>2, <3>3
  <2>3. CASE m > i /\ m - 1 >= i /\ m - 1 \in 1..N /\ chain'[m] = chain[m - 1]
    <3>1. n > i /\ n - 1 \in 1..N /\ chain'[n] = chain[n - 1] /\ m - 1 < n - 1
      BY <1>4, <1>6, <1>8, <2>3
    <3> QED BY <1>5, <2>3, <3>1
  <2> QED BY <1>6, <2>1, <2>2, <2>3
<1> QED BY <1>3, <1>8 DEF Chained, Row

LEMMA TokenIs ==
  ASSUME NEW y \in TokenType, NEW v \in {"", "id"}, NEW k \in Nat, y = "LITERAL" => k # NoKey
  PROVE  [type |-> y, value |-> v, key |-> k] \in Token
<1> DEFINE t == [type |-> y, value |-> v, key |-> k]
<1>1. /\ t \in [type : STRING \cup TokenType, value : STRING \cup {"", "id"}, key : Nat]
      /\ t.type = y /\ t.key = k
  OBVIOUS
<1> HIDE DEF t
<1>2. t \in Token
  BY <1>1 DEF Token
<1> QED BY <1>2 DEF t

LEMMA TypedKeeps ==
  ASSUME Tokened,
         \/ \E op \in Comparison, k \in Literal : TypeTerm(op, k)
         \/ \E t \in Stray : TypeStray(t)
  PROVE  Tokened'
<1>1. ASSUME NEW op \in Comparison, NEW k \in Literal, TypeTerm(op, k) PROVE Tokened'
  <2>1. \A type \in Comparison \cup {"AND", "OR"} : Sign(type) \in Token
    <3>1. \A type \in Comparison \cup {"AND", "OR"} : type \in TokenType /\ type # "LITERAL"
      BY DEF Comparison, TokenType
    <3> QED BY <3>1, TokenIs DEF Sign
  <2>2. Name("id") \in Token
    BY TokenIs DEF Name, TokenType
  <2>3. Lit(k) \in Token
    <3>1. k \in Nat /\ k # NoKey
      BY QueryAssumption
    <3> QED BY <3>1, TokenIs DEF Lit, TokenType
  <2> HIDE DEF Token
  <2>4. Term(op, k) \in Seq(Token)
    BY <2>1, <2>2, <2>3 DEF Term
  <2>5. \A join \in {"AND", "OR"} : tokens \o <<Sign(join)>> \o Term(op, k) \in Seq(Token)
    <3>1. SUFFICES ASSUME NEW join \in {"AND", "OR"}
                   PROVE  tokens \o <<Sign(join)>> \o Term(op, k) \in Seq(Token)
      OBVIOUS
    <3>2. <<Sign(join)>> \in Seq(Token)
      BY <2>1
    <3>3. tokens \o <<Sign(join)>> \in Seq(Token)
      BY <3>2, ConcatProperties DEF Tokened
    <3> QED BY <2>4, <3>3, ConcatProperties
  <2>6. \/ tokens' = Term(op, k)
        \/ \E join \in {"AND", "OR"} : tokens' = tokens \o <<Sign(join)>> \o Term(op, k)
    BY <1>1 DEF TypeTerm
  <2>7. tokens' \in Seq(Token)
    BY <2>4, <2>5, <2>6
  <2> QED BY <2>7 DEF Tokened, Token
<1>2. ASSUME NEW t \in Stray, TypeStray(t) PROVE Tokened'
  <2>1. t \in Seq([type : STRING, value : STRING, key : Nat])
    BY QueryAssumption
  <2>2. \A i \in DOMAIN t : t[i].type = "LITERAL" => t[i].key \in Nat \ {NoKey}
    BY QueryAssumption
  <2>3. DOMAIN t = 1..Len(t) /\ Len(t) \in Nat
    BY <2>1
  <2>4. \A i \in 1..Len(t) : t[i] \in Token
    <3>1. SUFFICES ASSUME NEW i \in 1..Len(t) PROVE t[i] \in Token
      OBVIOUS
    <3>2. t[i] \in [type : STRING, value : STRING, key : Nat]
      BY <2>1, <2>3, ElementOfSeq
    <3> DEFINE x == t[i]
    <3>3. x \in [type : STRING \cup TokenType, value : STRING \cup {"", "id"}, key : Nat]
      <4> HIDE DEF x
      <4>1. \A y \in [type : STRING, value : STRING, key : Nat] :
              y \in [type : STRING \cup TokenType, value : STRING \cup {"", "id"}, key : Nat]
        OBVIOUS
      <4> QED BY <3>2, <4>1 DEF x
    <3>4. x.type = "LITERAL" => x.key \in Nat \ {NoKey}
      BY <2>2, <2>3
    <3> HIDE DEF x
    <3>5. x \in Token
      BY <3>3, <3>4 DEF Token
    <3> QED BY <3>5 DEF x
  <2>5. t \in Seq(Token)
    BY <2>1, <2>3, <2>4
  <2>6. tokens' = t
    BY <1>2 DEF TypeStray
  <2> QED BY <2>5, <2>6 DEF Tokened, Token
<1> QED BY <1>1, <1>2

(* In every state the chain is in order and the condition consists of      *)
(* tokens, whatever is stored and typed.                                   *)
THEOREM QueryInvariant == QuerySpec => []QueryInv
<1>1. QueryInit => QueryInv
  BY DEF QueryInit, QueryInv, Chained, Tokened
<1>2. QueryInv /\ [QueryNext]_queryVars => QueryInv'
  <2>1. SUFFICES ASSUME QueryInv, [QueryNext]_queryVars PROVE QueryInv'
    OBVIOUS
  <2>2. Chained /\ Tokened
    BY <2>1 DEF QueryInv
  <2>3. CASE \E k \in Key : Store(k)
    <3>1. Chained'
      BY <2>2, <2>3, StoreKeeps
    <3>2. tokens' = tokens
      BY <2>3 DEF Store
    <3> QED BY <2>2, <3>1, <3>2 DEF QueryInv, Tokened, Token
  <2>4. CASE \/ \E op \in Comparison, k \in Literal : TypeTerm(op, k)
             \/ \E t \in Stray : TypeStray(t)
    <3>1. Tokened'
      BY <2>2, <2>4, TypedKeeps
    <3>2. chain' = chain
      BY <2>4 DEF TypeTerm, TypeStray
    <3> QED BY <2>2, <3>1, <3>2 DEF QueryInv, Chained
  <2>5. CASE UNCHANGED queryVars
    BY <2>2, <2>5 DEF QueryInv, Chained, Tokened, Token, queryVars
  <2> QED BY <2>1, <2>3, <2>4, <2>5 DEF QueryNext
<1> QED BY <1>1, <1>2, PTL DEF QuerySpec

(* Whatever is stored, whatever keys search misses and however long the    *)
(* condition, execute of expr.cpp selects no row that a well-formed        *)
(* condition does not cover or the transaction does not see.               *)
THEOREM SelectsOnlyCovered == QuerySpec => []SelectionSound
<1>1. QueryInv => SelectionSound
  BY SelectionFollows DEF QueryInv
<1> QED BY <1>1, QueryInvariant, PTL

(* It selects every visible row that the condition covers, if RangeQuery   *)
(* finds the lower bounds of the comparisons as keys.                      *)
THEOREM SelectsAllCovered == QuerySpec => []SelectionComplete
<1>1. QueryInv => SelectionComplete
  BY SelectionFollows DEF QueryInv
<1> QED BY <1>1, QueryInvariant, PTL

(* Whatever tokens the condition consists of, no row is selected twice if  *)
(* the transaction sees one version of every row, so that an UPDATE does   *)
(* not replace a version twice.                                            *)
THEOREM SelectsOnce == QuerySpec => []SelectedOnce
<1>1. QueryInv => SelectedOnce
  BY SelectedOnceFollows DEF QueryInv
<1> QED BY <1>1, QueryInvariant, PTL

(* DeleteStatement::execute marks the rows it selected whose keys search   *)
(* finds, and no others.                                                   *)
THEOREM DeletesWhatItSelects == QuerySpec => []DeletesSelected
<1>1. QueryInv => DeletesSelected
  BY DeletesSelectedFollows DEF QueryInv
<1> QED BY <1>1, QueryInvariant, PTL

(* On any tokens, an expression that the parser builds ends behind the     *)
(* token it begins with, so that the recursive descent goes on, and not    *)
(* behind the last one, although comparison, OR and AND look at a next     *)
(* token that may not be there.                                            *)
ExpressionsEnd ==
  \A i \in Index : \/ Expression(i) = Undefined
                  \/ Expression(i).at \in (i + 1)..(Len(tokens) + 1)

THEOREM ExpressionsAlwaysEnd == QuerySpec => []ExpressionsEnd
<1>1. QueryInv => ExpressionsEnd
  <2>1. ASSUME Tokened PROVE \A i \in Index : Ends(AND[i], i)
    BY <2>1, ParseSolves, SolutionEnds
  <2> QED BY <2>1 DEF QueryInv, ExpressionsEnd, Expression, Ends
<1> QED BY <1>1, QueryInvariant, PTL

=============================================================================
