--------------------------------- MODULE Lifecycle ---------------------------------
(***************************************************************************)
(* What TCPServer promises the scripts about its connections.  Clients are *)
(* let in until the server stops listening.  Each becomes a connection,    *)
(* which enters the server's list, is announced once, and is deleted once, *)
(* from when it is listed: also before it is announced.  No connection is  *)
(* accepted before the one before it was announced.                        *)
(***************************************************************************)
EXTENDS Naturals

CONSTANTS Conns

VARIABLES
  phase,   \* of each connection: "unborn", "accepted", "listed", "gone"
  told,    \* connections that were announced
  news,    \* announcements the scripts did not handle yet
  open,    \* the server lets clients in
  due      \* clients let in that are no connection yet

vars == <<phase, told, news, open, due>>

Init ==
  /\ phase = [c \in Conns |-> "unborn"]
  /\ told = {} /\ news = {} /\ open = TRUE /\ due = 0

Step(c, from, to) == phase[c] = from /\ phase' = [phase EXCEPT ![c] = to]

Arrive == open /\ due' = due + 1 /\ UNCHANGED <<phase, told, news, open>>
Close  == open /\ open' = FALSE /\ UNCHANGED <<phase, told, news, due>>

Accept(c) ==
  /\ due > 0 /\ due' = due - 1
  /\ Step(c, "unborn", "accepted")
  /\ \A d \in Conns : phase[d] # "unborn" => d \in told
  /\ UNCHANGED <<told, news, open>>

List(c) == Step(c, "accepted", "listed") /\ UNCHANGED <<told, news, open, due>>

Announce(c) ==
  /\ phase[c] \in {"listed", "gone"} /\ c \notin told
  /\ told' = told \cup {c} /\ news' = news \cup {c}
  /\ UNCHANGED <<phase, open, due>>

Handle(c) == c \in news /\ news' = news \ {c} /\ UNCHANGED <<phase, told, open, due>>
Delete(c) == Step(c, "listed", "gone") /\ UNCHANGED <<told, news, open, due>>

Next ==
  \/ Arrive \/ Close
  \/ \E c \in Conns : Accept(c) \/ List(c) \/ Announce(c) \/ Handle(c) \/ Delete(c)

Spec == Init /\ [][Next]_vars
=============================================================================
