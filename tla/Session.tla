------------------------------ MODULE Session ------------------------------
(***************************************************************************)
(* A connection from end to end: the command line client (cli/main.cpp),   *)
(* the thread that daemon/main.cpp starts for it, the command loop of      *)
(* daemon/repl.cpp and, once a database is chosen, the loop of             *)
(* daemon/parser/interpreter.cpp, with the parser of module Parser.        *)
(*                                                                         *)
(* There is no framing.  A client writes what was typed, without a line    *)
(* break, and reads once, whatever has arrived by then; the daemon reads   *)
(* whatever has arrived and takes it for one text, and writes one reply    *)
(* per statement.  Nothing handles SIGPIPE: a write to a connection whose  *)
(* other end is closed kills the process that writes.                      *)
(*                                                                         *)
(* A text is its tokens, a reply the pieces of it, of which one read of    *)
(* the client takes up to Capacity; each piece carries the number of the   *)
(* line it answers, 0 for the welcome.  What a statement does to the       *)
(* database, and what it waits for, is in module Mvcc.                     *)
(***************************************************************************)
EXTENDS Naturals, Sequences, FiniteSets, SequencesExt

CONSTANTS
  Client,         \* the command line clients
  Command,        \* lines to type before a database is chosen
  Statement,      \* lines that hold one statement each
  Refused,        \* lines the parser has to refuse
  Odd,            \* other lines
  Known,          \* the tables of the database
  Beyond,         \* types of the token memory holds behind a text
  MaxLines,       \* bound: lines each client types
  Capacity,       \* pieces a read of the client takes
  Long            \* pieces of a long reply

ASSUME SessionAssumption ==
  /\ MaxLines \in [Client -> 0..4] /\ Capacity \in Nat \ {0} /\ Long \in Nat \ {0}
  /\ Beyond # {}

Line == Command \cup Statement \cup Refused \cup Odd

ASSUME LineAssumption == Line \subseteq Seq([type : STRING, value : STRING, key : Nat])

(* The text two lines make that arrive together: a word at the end of the  *)
(* one and a word at the start of the other become one word.               *)
Word == {"KEYWORD", "IDENTIFIER", "AND", "OR", "NOT"}
Glue(a, b) ==
  IF a # <<>> /\ b # <<>> /\ {Last(a).type, Head(b).type} \subseteq Word
  THEN Front(a) \o <<[type |-> "IDENTIFIER", value |-> "?", key |-> 0]>> \o Tail(b)
  ELSE a \o b

(* The texts the daemon may read at once; no more than two lines, while a  *)
(* client types at most four.                                              *)
Text == Line \cup {Glue(a, b) : a \in Line, b \in Line}

P(t, beyond) == INSTANCE Parser WITH tokens <- t, tables <- Known

Parsed == [t \in Text, beyond \in Beyond |-> P(t, beyond)!Parse]

VARIABLES
  alive,          \* the daemon runs
  (* the client *)
  at,             \* what the client is doing
  sent,           \* how many lines it has sent
  (* the connection *)
  up, down,       \* on the way to the daemon and to the client
  peer,           \* what the daemon's reads find out about the client
  (* the thread of the client *)
  pc,             \* which loop it is in
  text,           \* the interpreter's buffer
  stmts,          \* statements it has yet to execute
  serving,        \* the number of the line they come from
  (* history *)
  orderly         \* the client has kept to the rules so far

client == <<at, sent>>
thread == <<pc, text, stmts, serving>>
vars == <<alive, client, up, down, peer, thread, orderly>>

-----------------------------------------------------------------------------
(* The client. *)

Closed(c) == ~alive \/ pc[c] = "ended"      \* the daemon's end is closed

(* connect() and accept(): a thread of its own for every client.           *)
Dial(c) ==
  /\ alive /\ at[c] = "off"
  /\ at' = [at EXCEPT ![c] = "greeting"]
  /\ pc' = [pc EXCEPT ![c] = "welcome"]
  /\ UNCHANGED <<alive, sent, up, down, peer, text, stmts, serving, orderly>>

(* One read: what has arrived, up to the size of the buffer; nothing, if   *)
(* the daemon's end is closed.                                             *)
Receive(c) ==
  /\ at[c] \in {"greeting", "reading"}
  /\ down[c] # <<>> \/ Closed(c)
  /\ at' = [at EXCEPT ![c] = "prompt"]
  /\ down' = [down EXCEPT ![c] = SubSeq(@, Capacity + 1, Len(@))]
  /\ UNCHANGED <<alive, sent, up, peer, thread, orderly>>

(* The rules: before a database is chosen, commands; then lines that the   *)
(* daemon answers once.                                                    *)
Fitting(c) == IF pc[c] \in {"query", "execute"} THEN Statement \cup Refused ELSE Command

(* send_command: an empty line sends nothing.                              *)
Send(c, line) ==
  /\ at[c] = "prompt" /\ sent[c] < MaxLines[c] /\ ~Closed(c)
  /\ at' = [at EXCEPT ![c] = "reading"]
  /\ sent' = [sent EXCEPT ![c] = @ + 1]
  /\ up' = [up EXCEPT ![c] = Glue(@, line)]
  /\ orderly' = [orderly EXCEPT ![c] = @ /\ line \in Fitting(c)]
  /\ UNCHANGED <<alive, down, peer, thread>>

(* The client's end is closed.  Closing it with unread replies resets the  *)
(* connection.                                                             *)
Close(c) ==
  /\ at' = [at EXCEPT ![c] = "gone"]
  /\ peer' = [peer EXCEPT ![c] = IF down[c] = <<>> THEN "closed" ELSE "reset"]
  /\ UNCHANGED <<alive, sent, up, down, thread>>

(* The user types exit; or any other line, to a daemon that has closed its *)
(* end, which kills the client.                                            *)
Quit(c) == at[c] = "prompt" /\ Close(c) /\ UNCHANGED orderly

(* The user interrupts a client that waits.                                *)
Interrupt(c) ==
  /\ at[c] \in {"greeting", "reading"}
  /\ Close(c)
  /\ orderly' = [orderly EXCEPT ![c] = FALSE]

-----------------------------------------------------------------------------
(* The thread. *)

Go(c, where) == pc' = [pc EXCEPT ![c] = where]

(* write(): n pieces in answer to a line.                                  *)
Reply(c, n, line) ==
  IF peer[c] = "open"
  THEN /\ down' = [down EXCEPT ![c] = @ \o [k \in 1..n |-> line]]
       /\ UNCHANGED alive
  ELSE alive' = FALSE /\ UNCHANGED down

Silence == UNCHANGED <<alive, down>>
Death == alive' = FALSE /\ UNCHANGED down

Welcome(c) ==
  /\ pc[c] = "welcome" /\ Go(c, "command")
  /\ Reply(c, 1, 0)
  /\ UNCHANGED <<client, up, peer, text, stmts, serving, orderly>>

(* repl: CONNECT with a name hands the connection to the interpreter,      *)
(* CONNECT without is answered, EXIT ends the thread, anything else is     *)
(* passed over.                                                            *)
ReadCommand(c) ==
  /\ pc[c] = "command" /\ up[c] # <<>>
  /\ up' = [up EXCEPT ![c] = <<>>]
  /\ LET word == Head(up[c]).value
     IN  CASE word = "EXIT"    -> Go(c, "ended") /\ Silence
           [] word = "CONNECT" -> /\ IF Len(up[c]) > 1 THEN Go(c, "query") ELSE UNCHANGED pc
                                  /\ Reply(c, 1, sent[c])
           [] OTHER            -> UNCHANGED pc /\ Silence
  /\ UNCHANGED <<client, peer, text, stmts, serving, orderly>>

(* The client's end is closed: read returns 0 or an error.                 *)
CommandsEnd(c) ==
  /\ pc[c] = "command" /\ up[c] = <<>> /\ peer[c] # "open"
  /\ Go(c, "ended")
  /\ UNCHANGED <<alive, client, up, down, peer, text, stmts, serving, orderly>>

(* Mutant: an exception of the parser is not reported.                     *)
InterpretQuietly(c, t, line) ==
  /\ \E beyond \in Beyond :
       LET parsed == Parsed[t, beyond]
       IN  /\ stmts' = [stmts EXCEPT ![c] = parsed.list]
           /\ Silence \/ (parsed.kind = "undefined" /\ Death)
  /\ text' = [text EXCEPT ![c] = t]
  /\ serving' = [serving EXCEPT ![c] = line]
  /\ Go(c, IF stmts'[c] = <<>> THEN "query" ELSE "execute")

(* Tokenizer, Parser and the handler of their exceptions, on a text: one   *)
(* reply for an exception; none for a text without a statement.            *)
Interpret(c, t, line) ==
  /\ \E beyond \in Beyond :
       LET parsed == Parsed[t, beyond]
       IN  /\ stmts' = [stmts EXCEPT ![c] = parsed.list]
           /\ \/ parsed.kind = "error" /\ Reply(c, 1, line)
              \/ parsed.kind = "undefined" /\ (Silence \/ Death)
              \/ parsed.kind \notin {"error", "undefined"} /\ Silence
  /\ text' = [text EXCEPT ![c] = t]
  /\ serving' = [serving EXCEPT ![c] = line]
  /\ Go(c, IF stmts'[c] = <<>> THEN "query" ELSE "execute")

ReadText(c) ==
  /\ pc[c] = "query" /\ up[c] # <<>>
  /\ up' = [up EXCEPT ![c] = <<>>]
  /\ Interpret(c, up[c], sent[c])
  /\ UNCHANGED <<client, peer, orderly>>

(* Mutant: the end of the connection is taken for an error.                *)
ReadFailsAlways(c) ==
  /\ pc[c] = "query" /\ up[c] = <<>> /\ peer[c] # "open"
  /\ peer' = [peer EXCEPT ![c] = "closed"]
  /\ Interpret(c, text[c], serving[c])
  /\ UNCHANGED <<client, up, orderly>>

(* The client's end is closed.  read() reports a reset once, and then the  *)
(* buffer is interpreted as it is; at the end of the connection the loop   *)
(* just tries again, for ever.                                             *)
ReadFails(c) ==
  /\ pc[c] = "query" /\ up[c] = <<>> /\ peer[c] # "open"
  /\ IF peer[c] = "closed" THEN UNCHANGED vars
     ELSE /\ peer' = [peer EXCEPT ![c] = "closed"]
          /\ Interpret(c, text[c], serving[c])
          /\ UNCHANGED <<client, up, orderly>>

(* One statement less to execute.                                          *)
Executed(c) == /\ stmts' = [stmts EXCEPT ![c] = Tail(@)]
               /\ Go(c, IF stmts'[c] = <<>> THEN "query" ELSE "execute")

(* A statement is executed and its reply, or the message of its exception, *)
(* is written.  A table of rows may be long.  The execute functions of     *)
(* BEGIN, COMMIT and ROLLBACK end without returning the reply they         *)
(* promise.                                                                *)
Execute(c) ==
  /\ pc[c] = "execute"
  /\ LET kind == Head(stmts[c])
     IN  IF kind \in {"BEGIN", "COMMIT", "ROLLBACK"}
         THEN /\ Reply(c, 0, serving[c]) \/ Reply(c, 1, serving[c]) \/ Death
              /\ orderly' = [orderly EXCEPT ![c] = FALSE]
         ELSE \E n \in {1} \cup IF kind \in {"SELECT", "DELETE", "UPDATE"} THEN {Long} ELSE {} :
                /\ Reply(c, n, serving[c])
                /\ orderly' = [orderly EXCEPT ![c] = @ /\ n <= Capacity]
  /\ Executed(c)
  /\ UNCHANGED <<client, up, peer, text, serving>>

Thread(c) ==
  /\ alive
  /\ \/ Welcome(c) \/ ReadCommand(c) \/ CommandsEnd(c)
     \/ ReadText(c) \/ ReadFails(c) \/ Execute(c)

-----------------------------------------------------------------------------
Init ==
  /\ alive = TRUE
  /\ at = [c \in Client |-> "off"] /\ sent = [c \in Client |-> 0]
  /\ up = [c \in Client |-> <<>>] /\ down = [c \in Client |-> <<>>]
  /\ peer = [c \in Client |-> "open"]
  /\ pc = [c \in Client |-> "none"] /\ text = [c \in Client |-> <<>>]
  /\ stmts = [c \in Client |-> <<>>] /\ serving = [c \in Client |-> 0]
  /\ orderly = [c \in Client |-> TRUE]

Next ==
  \E c \in Client :
    \/ Dial(c) \/ Receive(c) \/ Quit(c) \/ Interrupt(c)
    \/ \E line \in Line : Send(c, line)
    \/ Thread(c)

(* Threads run, and a client that waits is woken.                          *)
Fairness == \A c \in Client : WF_vars(Thread(c)) /\ WF_vars(Receive(c))

Spec == Init /\ [][Next]_vars /\ Fairness

-----------------------------------------------------------------------------
(* What a client that keeps to the rules prints after a line is the reply  *)
(* to that line, the whole of it and nothing else: without framing, only   *)
(* the order of reads and writes keeps replies apart.                      *)
RepliesMatch ==
  [][\A c \in Client :
       orderly[c] /\ at[c] = "reading" /\ at'[c] = "prompt" /\ down[c] # <<>> =>
         (\A k \in DOMAIN down[c] : down[c][k] = sent[c]) /\ down'[c] = <<>>]_vars

(* Clients that keep to the rules do not bring the daemon down, neither    *)
(* while they work nor when they leave.                                    *)
OrderlyKeepsDaemon ==
  ~alive => \E c \in Client : ~orderly[c]

(* A client that keeps to the rules does not wait for ever, whatever the   *)
(* other clients do to the daemon.                                         *)
Answered ==
  \A c \in Client : orderly[c] /\ at[c] = "reading" ~> at[c] # "reading"
=============================================================================
