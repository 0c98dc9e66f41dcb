------------------------- MODULE ControlConnections -------------------------
(***************************************************************************)
(* The connections to a simulator's control socket, down to the lines they *)
(* carry (start_runtime_control_server and handle_client in                *)
(* simulator/src/runtime_control.rs): one thread accepts a connection and  *)
(* answers its lines until it ends, then accepts the next.  What a command *)
(* does is the subject of module RuntimeControl; here each is answered.    *)
(***************************************************************************)
EXTENDS Naturals, Sequences

CONSTANTS
  Clients,     \* each opens one connection
  Courteous,   \* those that hang up once they have their answers
  MaxLines,    \* bound on the lines of a connection
  None

ASSUME ClientsAssumption == Courteous \subseteq Clients /\ None \notin Clients
ASSUME MaxLinesAssumption == MaxLines \in Nat \ {0}

VARIABLES
  conn,      \* each client's side of its connection
  lines,     \* the lines it has sent
  consumed,  \* how many of them the server has read
  answers,   \* the responses written to it
  backlog,   \* connections that wait to be accepted
  server,    \* where the server thread stands
  serving    \* the connection it is serving

connVars == <<conn, lines, consumed, answers, backlog, server, serving>>

LineKinds == {"command", "garbage"}

ConnTypeOK ==
  /\ conn \in [Clients -> {"none", "open", "closed"}]
  /\ lines \in [Clients -> Seq(LineKinds)] /\ \A c \in Clients : Len(lines[c]) <= MaxLines
  /\ consumed \in [Clients -> 0..MaxLines]
  /\ answers \in [Clients -> Seq({"ok", "error"})]
  /\ \A c \in Clients : Len(answers[c]) <= consumed[c] /\ consumed[c] <= Len(lines[c])
  /\ backlog \in Seq(Clients)
  /\ server \in {"accept", "read", "respond"}
  /\ serving \in Clients \cup {None} /\ (serving = None <=> server = "accept")

ConnInit ==
  /\ conn = [c \in Clients |-> "none"]
  /\ lines = [c \in Clients |-> <<>>]
  /\ consumed = [c \in Clients |-> 0]
  /\ answers = [c \in Clients |-> <<>>]
  /\ backlog = <<>> /\ server = "accept" /\ serving = None

----------------------------------------------------------------------------
(* Clients (external).                                                     *)

Connect(c) ==
  /\ conn[c] = "none"
  /\ conn' = [conn EXCEPT ![c] = "open"]
  /\ backlog' = Append(backlog, c)
  /\ UNCHANGED <<lines, consumed, answers, server, serving>>

\* A line may follow another whose answer has not come yet.
SendLine(c) ==
  /\ conn[c] = "open" /\ Len(lines[c]) < MaxLines
  /\ \E kind \in LineKinds : lines' = [lines EXCEPT ![c] = Append(@, kind)]
  /\ UNCHANGED <<conn, consumed, answers, backlog, server, serving>>

HangUp(c) ==
  /\ conn[c] = "open"
  /\ conn' = [conn EXCEPT ![c] = "closed"]
  /\ UNCHANGED <<lines, consumed, answers, backlog, server, serving>>

AllAnswered(c) == Len(answers[c]) = Len(lines[c])

----------------------------------------------------------------------------
(* The server thread.                                                      *)

Accept ==
  /\ server = "accept" /\ backlog # <<>>
  /\ server' = "read" /\ serving' = Head(backlog) /\ backlog' = Tail(backlog)
  /\ UNCHANGED <<conn, lines, consumed, answers>>

\* reader.lines(), blocking; what a client sent before it hung up is still read.
ReadLine ==
  /\ server = "read" /\ consumed[serving] < Len(lines[serving])
  /\ server' = "respond"
  /\ consumed' = [consumed EXCEPT ![serving] = @ + 1]
  /\ UNCHANGED <<conn, lines, answers, backlog, serving>>

\* Faulty variant: end of file is read again.
EndOfLinesAgain ==
  /\ server = "read" /\ consumed[serving] = Len(lines[serving]) /\ conn[serving] = "closed"
  /\ UNCHANGED connVars

EndOfLines ==
  /\ server = "read" /\ consumed[serving] = Len(lines[serving]) /\ conn[serving] = "closed"
  /\ server' = "accept" /\ serving' = None
  /\ UNCHANGED <<conn, lines, consumed, answers, backlog>>

\* handle_line: a line that cannot be parsed gets an error response.
Response(kind) == IF kind = "garbage" THEN "error" ELSE "ok"

\* Faulty variant: a line that cannot be parsed is only logged.
RespondToCommands ==
  /\ server = "respond" /\ server' = "read"
  /\ answers' = [answers EXCEPT ![serving] =
       IF lines[serving][consumed[serving]] = "garbage" THEN @ ELSE Append(@, "ok")]
  /\ UNCHANGED <<conn, lines, consumed, backlog, serving>>

Respond ==
  /\ server = "respond" /\ conn[serving] = "open" /\ server' = "read"
  /\ answers' = [answers EXCEPT ![serving] = Append(@, Response(lines[serving][consumed[serving]]))]
  /\ UNCHANGED <<conn, lines, consumed, backlog, serving>>

\* The response cannot be written: handle_client returns, and the lines that
\* have not been read are never served.
WriteFails ==
  /\ server = "respond" /\ conn[serving] = "closed"
  /\ server' = "accept" /\ serving' = None
  /\ UNCHANGED <<conn, lines, consumed, answers, backlog>>

----------------------------------------------------------------------------
ServerStep == Accept \/ ReadLine \/ EndOfLines \/ Respond \/ WriteFails

ConnNext == ServerStep \/ \E c \in Clients : Connect(c) \/ SendLine(c) \/ HangUp(c)

ConnSpec == ConnInit /\ [][ConnNext]_connVars

\* The server thread runs; a courteous client does not stay on for ever.
ConnFairSpec ==
  /\ ConnSpec /\ WF_connVars(ServerStep)
  /\ \A c \in Courteous : WF_connVars(AllAnswered(c) /\ HangUp(c))

----------------------------------------------------------------------------
\* The n-th response on a connection answers its n-th line, however many lines
\* were sent ahead and whichever of them could not be parsed (handle_client has
\* no other way to tell the client which command it answers).
AnswersPaired ==
  \A c \in Clients : \A i \in DOMAIN answers[c] : answers[c][i] = Response(lines[c][i])

\* "Each command receives a newline-delimited JSON response": every line on a
\* connection that stays open is answered.
EachAnswered ==
  \A c \in Clients :
    conn[c] = "open" /\ ~AllAnswered(c) ~> AllAnswered(c) \/ conn[c] = "closed"
=============================================================================
