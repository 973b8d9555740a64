--------------------------------- MODULE TcpServer ---------------------------------
(***************************************************************************)
(* A TCP server and the connections it accepts (tcpServer.cpp).            *)
(*                                                                         *)
(* Three kinds of thread: the game thread, which runs the commands of the  *)
(* scripts; the io thread, which runs the handlers of asynchronous accepts *)
(* one at a time; and a read thread for each connection.  Accepts and      *)
(* sockets are external: an accept completes when a client connects, fails *)
(* or is aborted, and its handler is queued.  Closing a socket makes its   *)
(* reads fail.  Other TCP instances keep the io thread running (IOContext  *)
(* is about when they do not).  Using a deleted object ends the behaviour  *)
(* with a fault.                                                           *)
(***************************************************************************)
EXTENDS Integers, Sequences, SequencesExt, FiniteSets

CONSTANTS
  MaxConns,     \* bound: connections accepted
  ArmaCap,      \* entries of Arma's callback buffer
  MaxListens,   \* bound: listen commands
  MaxData,      \* bound: chunks each client sends
  WaitForAnnouncement    \* scripts act on a connection only once it was announced

ASSUME ServerAssumption ==
  /\ MaxConns \in Nat \ {0} /\ ArmaCap \in Nat \ {0} /\ MaxListens \in Nat /\ MaxData \in Nat
  /\ WaitForAnnouncement \in BOOLEAN

\* Connections, numbered in the order they are accepted.
Conns == 1..MaxConns

VARIABLES
  gpc, target, todo,   \* the game thread: position, connection at hand, rest of disconnectAll
  iopc, cur,           \* the accept handler: position and its connection
  fault,               \* "none", or a deleted object was used: the "server" or a
                       \* "connection" by a handler, either by a "command"
  alive,               \* the server is not deleted
  hasty,               \* history: it was deleted while an accept was due or in its handler
  acceptorOpen, shouldListen,
  accepts, ready, failed,   \* accepts waiting; handlers due with a socket, with an error
  reported,            \* history: failed accepts reported to the scripts
  listens,             \* listen commands so far
  connections,         \* the server's list
  registry,            \* connections in commMethods
  users,               \* needIOContext minus doneWithIOContext of these instances
  state,               \* of each connection object: "unborn", "live", "deleted"
  socketOpen, connected,
  reader, sent,        \* read thread of each connection and the chunks it read
  inbox,               \* Arma's buffer
  known                \* connections the scripts act on

gameVars   == <<gpc, target, todo>>
ioVars     == <<iopc, cur>>
serverVars == <<alive, hasty, acceptorOpen, shouldListen, listens>>
acceptVars == <<accepts, ready, failed, reported>>
listVars   == <<connections, registry, users, state>>
sockVars   == <<socketOpen, connected>>
readVars   == <<reader, sent>>
armaVars   == <<inbox, known>>
vars == <<gameVars, ioVars, fault, serverVars, acceptVars, listVars, sockVars, readVars, armaVars>>

Entry == ({"new_tcp_connection", "data_read"} \X Conns) \cup {<<"FAILURE">>}

TypeOK ==
  /\ gpc \in {"idle", "join", "all", "remove"} /\ todo \in Seq(Conns)
  /\ target \in Conns /\ cur \in Conns
  /\ iopc \in {"idle", "construct", "push", "name", "announce", "relisten", "accept", "report"}
  /\ fault \in {"none", "server", "connection", "command"}
  /\ alive \in BOOLEAN /\ hasty \in BOOLEAN
  /\ acceptorOpen \in BOOLEAN /\ shouldListen \in BOOLEAN
  /\ listens \in 0..MaxListens
  /\ accepts \in Nat /\ ready \in Nat /\ failed \in Nat /\ reported \in Nat
  /\ connections \in Seq(Conns) /\ registry \subseteq Conns /\ users \in Int
  /\ state \in [Conns -> {"unborn", "live", "deleted"}]
  /\ socketOpen \in [Conns -> BOOLEAN] /\ connected \in [Conns -> BOOLEAN]
  /\ reader \in [Conns -> {"none", "reading", "sending", "ended"}]
  /\ sent \in [Conns -> 0..MaxData]
  /\ inbox \in Seq(Entry) /\ Len(inbox) <= ArmaCap /\ known \subseteq Conns

\* The constructor opens the acceptor, bound and listening.
Init ==
  /\ gpc = "idle" /\ todo = <<>> /\ iopc = "idle" /\ fault = "none"
  /\ target = 1 /\ cur = 1
  /\ alive = TRUE /\ hasty = FALSE /\ acceptorOpen = TRUE /\ shouldListen = FALSE /\ listens = 0
  /\ accepts = 0 /\ ready = 0 /\ failed = 0 /\ reported = 0
  /\ connections = <<>> /\ registry = {} /\ users = 1
  /\ state = [c \in Conns |-> "unborn"]
  /\ socketOpen = [c \in Conns |-> FALSE] /\ connected = socketOpen
  /\ reader = [c \in Conns |-> "none"] /\ sent = [c \in Conns |-> 0]
  /\ inbox = <<>> /\ known = {}

Running == fault = "none"
Idle    == Running /\ gpc = "idle"

\* MUTANT of Room: the result of callback is ignored.
AlwaysRoom == TRUE

\* callback does not return -1.
Room == Len(inbox) < ArmaCap

Born   == {c \in Conns : state[c] # "unborn"}
Live   == {c \in Conns : state[c] = "live"}
Reading == {c \in Conns : reader[c] \in {"reading", "sending"}}

-----------------------------------------------------------------------------
(* The server's commands *)

Listen ==
  /\ Idle /\ alive /\ acceptorOpen /\ listens < MaxListens
  /\ listens' = listens + 1
  /\ shouldListen' = TRUE
  /\ accepts' = accepts + 1
  /\ UNCHANGED <<gameVars, ioVars, fault, alive, hasty, acceptorOpen, ready, failed, reported,
                 listVars, sockVars, readVars, armaVars>>

\* Waiting accepts are aborted; an accept that completed is not taken back.
StopListening ==
  /\ Idle /\ alive /\ acceptorOpen
  /\ shouldListen' = FALSE /\ acceptorOpen' = FALSE
  /\ accepts' = 0 /\ failed' = failed + accepts
  /\ UNCHANGED <<gameVars, ioVars, fault, alive, hasty, listens, ready, reported, listVars,
                 sockVars, readVars, armaVars>>

\* Works on a copy of the list.
DisconnectAll ==
  /\ Idle /\ alive
  /\ gpc' = "all" /\ todo' = connections
  /\ UNCHANGED <<target, ioVars, fault, serverVars, acceptVars, listVars, sockVars, readVars,
                 armaVars>>

\* MUTANT of MayDestroy: the list of connections is not looked at.
MayDestroyAlways == ~acceptorOpen

MayDestroy == ~acceptorOpen /\ connections = <<>>

\* Nothing is left of the chains of accepts.  destroy does not look at this, and scripts
\* cannot: the handler of an aborted accept reports nothing.
Quiet == accepts = 0 /\ ready = 0 /\ failed = 0 /\ iopc = "idle"

DestroyServer ==
  /\ Idle /\ alive /\ MayDestroy
  /\ alive' = FALSE /\ users' = users - 1
  /\ hasty' = ~Quiet
  /\ UNCHANGED <<gameVars, ioVars, fault, acceptorOpen, shouldListen, listens, acceptVars,
                 connections, registry, state, sockVars, readVars, armaVars>>

-----------------------------------------------------------------------------
(* Disconnecting and destroying connections, on the game thread *)

\* TcpServerConnection::disconnect up to the join of the read thread: the socket is
\* closed and its object destroyed while that thread may be reading from it, whose
\* reads then fail.  A connection whose flag is not set is left alone.
CloseThenJoin(c, otherwise) ==
  /\ target' = c
  /\ IF connected[c]
     THEN socketOpen' = [socketOpen EXCEPT ![c] = FALSE] /\ gpc' = "join"
     ELSE gpc' = otherwise /\ UNCHANGED socketOpen
  /\ UNCHANGED connected

DisconnectConnection(c) ==
  /\ Idle /\ c \in known \cap registry
  /\ CloseThenJoin(c, "idle")
  /\ UNCHANGED <<todo, ioVars, fault, serverVars, acceptVars, listVars, readVars, armaVars>>

\* disconnectAll comes to the next connection of its copy.
NextOfAll ==
  /\ Running /\ gpc = "all" /\ todo # <<>>
  /\ IF state[Head(todo)] = "deleted"
     THEN fault' = "command" /\ UNCHANGED <<gpc, target, sockVars>>
     ELSE CloseThenJoin(Head(todo), "remove") /\ UNCHANGED fault
  /\ UNCHANGED <<todo, ioVars, serverVars, acceptVars, listVars, readVars, armaVars>>

EndOfAll ==
  /\ Running /\ gpc = "all" /\ todo = <<>> /\ gpc' = "idle"
  /\ UNCHANGED <<target, todo, ioVars, fault, serverVars, acceptVars, listVars, sockVars,
                 readVars, armaVars>>

\* MUTANT of ReaderJoined: the read thread is not waited for.
ReaderDetached == TRUE

ReaderJoined == target \notin Reading

JoinReader ==
  /\ Running /\ gpc = "join" /\ ReaderJoined
  /\ connected' = [connected EXCEPT ![target] = FALSE]
  /\ gpc' = IF todo = <<>> THEN "idle" ELSE "remove"
  /\ UNCHANGED <<target, todo, ioVars, fault, serverVars, acceptVars, listVars, socketOpen,
                 readVars, armaVars>>

\* MUTANT of Without: the last element is dropped without taking c's place.
WithoutLast(list, c) == IF c \in ToSet(list) THEN Front(list) ELSE list

\* removeConnection: the last element takes the place of c.
Without(list, c) ==
  IF c \in ToSet(list)
  THEN [k \in 1..Len(list) - 1 |-> IF list[k] = c THEN Last(list) ELSE list[k]]
  ELSE list

\* MUTANT of Delete: doneWithIOContext is not called.
DeleteKeepsUser(c) ==
  /\ registry' = registry \ {c} /\ state' = [state EXCEPT ![c] = "deleted"]
  /\ connections' = Without(connections, c) /\ UNCHANGED users

\* TcpServerConnection::destroy, then the entry in commMethods and the object go.
\* A connection whose socket is open is deleted by disconnectAll all the same, but
\* stays listed and counted.
Delete(c) ==
  /\ registry' = registry \ {c}
  /\ state' = [state EXCEPT ![c] = "deleted"]
  /\ IF socketOpen[c]
     THEN UNCHANGED <<connections, users>>
     ELSE connections' = Without(connections, c) /\ users' = users - 1

RemoveOfAll ==
  /\ Running /\ gpc = "remove"
  /\ Delete(target)
  /\ gpc' = "all" /\ todo' = Tail(todo)
  /\ UNCHANGED <<target, ioVars, fault, serverVars, acceptVars, sockVars, readVars, armaVars>>

\* The destroy command; it reaches the server through the connection.
DestroyConnection(c) ==
  /\ Idle /\ c \in known \cap registry /\ ~socketOpen[c]
  /\ IF alive THEN Delete(c) /\ UNCHANGED fault ELSE fault' = "command" /\ UNCHANGED listVars
  /\ UNCHANGED <<gameVars, ioVars, serverVars, acceptVars, sockVars, readVars, armaVars>>

-----------------------------------------------------------------------------
(* The accept chain, on the io thread *)

\* A client connects, or an accept fails by itself.
Arrive ==
  /\ Running /\ accepts > 0
  /\ accepts' = accepts - 1
  /\ \/ ready' = ready + 1 /\ Cardinality(Born) + ready < MaxConns /\ UNCHANGED failed
     \/ failed' = failed + 1 /\ UNCHANGED ready
  /\ UNCHANGED <<gameVars, ioVars, fault, serverVars, reported, listVars, sockVars, readVars,
                 armaVars>>

\* What a step does that uses the server: if it was deleted the program is at fault.
UsesServer(step) == IF alive THEN step /\ UNCHANGED fault
                    ELSE fault' = "server" /\ UNCHANGED <<ioVars, acceptVars, listVars>>

\* The failure is reported unless the scripts stopped listening.
FailedAccept ==
  /\ Running /\ iopc = "idle" /\ failed > 0
  /\ UsesServer(/\ failed' = failed - 1
                /\ iopc' = IF shouldListen THEN "report" ELSE "idle"
                /\ UNCHANGED <<cur, accepts, ready, reported, listVars>>)
  /\ UNCHANGED <<gameVars, serverVars, sockVars, readVars, armaVars>>

Report ==
  /\ Running /\ iopc = "report" /\ Room
  /\ inbox' = Append(inbox, <<"FAILURE">>) /\ iopc' = "idle"
  /\ reported' = reported + 1
  /\ UNCHANGED <<gameVars, cur, fault, serverVars, accepts, ready, failed, listVars, sockVars,
                 readVars, known>>

\* The constructor of a connection, up to the start of its read thread.  Its flag
\* connected has no value before the constructor ends.
Construct(c) ==
  /\ Running /\ iopc = "idle" /\ ready > 0 /\ c = Cardinality(Born) + 1
  /\ ready' = ready - 1
  /\ cur' = c /\ iopc' = "construct"
  /\ state' = [state EXCEPT ![c] = "live"]
  /\ registry' = registry \cup {c} /\ users' = users + 1
  /\ socketOpen' = [socketOpen EXCEPT ![c] = TRUE]
  /\ \E b \in BOOLEAN : connected' = [connected EXCEPT ![c] = b]
  /\ reader' = [reader EXCEPT ![c] = "reading"]
  /\ UNCHANGED <<gameVars, fault, serverVars, accepts, failed, reported, connections, sent,
                 armaVars>>

\* The same for a step that uses the connection at hand.
UsesConnection(step) == IF state[cur] = "live" THEN step /\ UNCHANGED fault
                        ELSE fault' = "connection" /\ UNCHANGED <<iopc, connected>>

SetConnected ==
  /\ Running /\ iopc = "construct"
  /\ UsesConnection(connected' = [connected EXCEPT ![cur] = TRUE] /\ iopc' = "push")
  /\ UNCHANGED <<gameVars, cur, serverVars, acceptVars, listVars, socketOpen, readVars, armaVars>>

\* MUTANT of Push: a new connection is listed without a callback.
PushSilently ==
  /\ Running /\ iopc = "push"
  /\ UsesServer(/\ connections' = Append(connections, cur)
                /\ iopc' = "relisten"
                /\ UNCHANGED <<cur, acceptVars, registry, users, state>>)
  /\ UNCHANGED <<gameVars, serverVars, sockVars, readVars, armaVars>>

Push ==
  /\ Running /\ iopc = "push"
  /\ UsesServer(/\ connections' = Append(connections, cur)
                /\ iopc' = "name"
                /\ UNCHANGED <<cur, acceptVars, registry, users, state>>)
  /\ UNCHANGED <<gameVars, serverVars, sockVars, readVars, armaVars>>

\* The ids of the server and of the connection are put together.
Name ==
  /\ Running /\ iopc = "name"
  /\ IF alive THEN UsesConnection(iopc' = "announce" /\ UNCHANGED connected)
     ELSE fault' = "server" /\ UNCHANGED <<iopc, connected>>
  /\ UNCHANGED <<gameVars, cur, serverVars, acceptVars, listVars, socketOpen, readVars, armaVars>>

Announce ==
  /\ Running /\ iopc = "announce" /\ Room
  /\ inbox' = Append(inbox, <<"new_tcp_connection", cur>>) /\ iopc' = "relisten"
  /\ UNCHANGED <<gameVars, cur, fault, serverVars, acceptVars, listVars, sockVars, readVars, known>>

\* MUTANT of Chain: the handler does not listen again.
ChainEnds == FALSE

\* listen() returns without an accept once shouldListen is cleared.
Chain == shouldListen

Relisten ==
  /\ Running /\ iopc = "relisten"
  /\ UsesServer(/\ iopc' = IF Chain THEN "accept" ELSE "idle"
                /\ UNCHANGED <<cur, acceptVars, listVars>>)
  /\ UNCHANGED <<gameVars, serverVars, sockVars, readVars, armaVars>>

\* Scripts may have stopped listening since: an accept on a closed acceptor fails.
AsyncAccept ==
  /\ Running /\ iopc = "accept"
  /\ UsesServer(/\ IF acceptorOpen THEN accepts' = accepts + 1 /\ UNCHANGED failed
                                   ELSE failed' = failed + 1 /\ UNCHANGED accepts
                /\ iopc' = "idle"
                /\ UNCHANGED <<cur, ready, reported, listVars>>)
  /\ UNCHANGED <<gameVars, serverVars, sockVars, readVars, armaVars>>

-----------------------------------------------------------------------------
(* Read threads and Arma *)

\* Reads from a closed socket fail, and the thread goes round its loop.
ReadData(c) ==
  /\ Running /\ reader[c] = "reading" /\ socketOpen[c] /\ sent[c] < MaxData
  /\ sent' = [sent EXCEPT ![c] = @ + 1]
  /\ reader' = [reader EXCEPT ![c] = "sending"]
  /\ UNCHANGED <<gameVars, ioVars, fault, serverVars, acceptVars, listVars, sockVars, armaVars>>

SendData(c) ==
  /\ Running /\ reader[c] = "sending" /\ Room
  /\ inbox' = Append(inbox, <<"data_read", c>>)
  /\ reader' = [reader EXCEPT ![c] = "reading"]
  /\ UNCHANGED <<gameVars, ioVars, fault, serverVars, acceptVars, listVars, sockVars, sent, known>>

\* MUTANT of StopRequested: the loop never looks at the flag.
NeverStops(c) == FALSE

\* stopThreads clears usingReadThread, which stays set otherwise.
StopRequested(c) == gpc = "join" /\ target = c

EndReader(c) ==
  /\ Running /\ reader[c] = "reading" /\ StopRequested(c)
  /\ reader' = [reader EXCEPT ![c] = "ended"]
  /\ UNCHANGED <<gameVars, ioVars, fault, serverVars, acceptVars, listVars, sockVars, sent,
                 armaVars>>

\* An entry tells the scripts the id of a connection.
HandleCallback ==
  /\ Idle /\ inbox # <<>>
  /\ inbox' = Tail(inbox)
  /\ known' = IF \/ Head(inbox) = <<"FAILURE">>
                 \/ WaitForAnnouncement /\ Head(inbox)[1] = "data_read"
              THEN known ELSE known \cup {Head(inbox)[2]}
  /\ UNCHANGED <<gameVars, ioVars, fault, serverVars, acceptVars, listVars, sockVars, readVars>>

-----------------------------------------------------------------------------
(* The specification *)

Continue == NextOfAll \/ EndOfAll \/ JoinReader \/ RemoveOfAll

Handler == FailedAccept \/ Report \/ SetConnected \/ Push \/ Name \/ Announce \/ Relisten
           \/ AsyncAccept \/ \E c \in Conns : Construct(c)

ReadThread(c) == ReadData(c) \/ SendData(c) \/ EndReader(c)

Next ==
  \/ Listen \/ StopListening \/ DisconnectAll \/ DestroyServer \/ HandleCallback
  \/ Continue \/ Handler \/ Arrive
  \/ \E c \in Conns : DisconnectConnection(c) \/ DestroyConnection(c) \/ ReadThread(c)

Spec == Init /\ [][Next]_vars

\* Threads are scheduled, a command that began goes on, and the game handles its
\* callback buffer between commands.  Nothing obliges clients or scripts to act.
FairSpec ==
  /\ Spec /\ WF_vars(Continue) /\ WF_vars(Handler) /\ WF_vars(HandleCallback)
  /\ \A c \in Conns : WF_vars(SendData(c)) /\ WF_vars(EndReader(c))

-----------------------------------------------------------------------------
(* Properties *)

\* Every pointer in the list is to a live connection, and to each at most one: what
\* disconnectAll walks over.
ListedAreLive == ToSet(connections) \subseteq Live /\ IsInjective(connections)

\* And between commands the list, the registry and the live objects are the same
\* connections, but for one the accept handler has not listed yet.
ListMatchesRegistry ==
  /\ ListedAreLive
  /\ gpc = "idle" =>
       /\ registry = Live
       /\ registry \ ToSet(connections) \subseteq
            (IF iopc \in {"construct", "push"} THEN {cur} ELSE {})

\* The instances' share in ioContextUsers is their number: the io thread is stopped
\* neither too early nor never.
UsersMatch == users = Cardinality(Live) + (IF alive THEN 1 ELSE 0)

\* Deletion is safe but for two windows: no command uses what was deleted, neither the
\* copy disconnectAll walks over nor the server a connection reaches; a handler meets a
\* deleted connection only between listing it and taking its name, where disconnectAll
\* can come in; and it meets a deleted server only if the server was destroyed with an
\* accept still due or in its handler.
OnlyHandlersMeetDeleted ==
  /\ fault # "command"
  /\ fault = "connection" => iopc = "name"
  /\ fault = "server" => hasty

\* A read thread never outlives its connection.
ReadersLive == Reading \subseteq Live

\* Each listen command keeps exactly one accept waiting, due or in its handler, until
\* that accept's failure is reported: no chain of accepts breaks off or forks, however
\* handlers and commands interleave.
ChainsKept ==
  shouldListen =>
    accepts + ready + failed + (IF iopc = "idle" THEN 0 ELSE 1) + reported = listens

\* The server implements the life of its connections as scripts see it, whatever the
\* order of handlers and commands: each is announced exactly once, one after the other,
\* and deleted once, by disconnectAll perhaps before it is announced; and after
\* stopListening only clients whose accept was complete still become connections.
BeingAccepted == IF iopc \in {"construct", "push", "name", "announce"} THEN {cur} ELSE {}
Phase == [c \in Conns |-> IF state[c] = "unborn" THEN "unborn"
                          ELSE IF state[c] = "deleted" THEN "gone"
                          ELSE IF iopc \in {"construct", "push"} /\ c = cur THEN "accepted"
                          ELSE "listed"]
News  == {c \in Conns : <<"new_tcp_connection", c>> \in ToSet(inbox)}
Life  == INSTANCE Lifecycle WITH
           phase <- Phase, told <- Born \ BeingAccepted, news <- News, open <- acceptorOpen,
           due <- ready
ImplementsLifecycle == Life!Spec

\* An accepted connection is announced or deleted, unless the game thread waits for a
\* read thread that waits for room in Arma's buffer.
Hung      == gpc = "join" /\ ~Room
Announced ==
  \A c \in Conns : state[c] = "live" ~> (c \in known \/ state[c] = "deleted" \/ ~Running \/ Hung)

-----------------------------------------------------------------------------
(* Statements of comments and documentation that the code does not keep *)

\* destroy refuses while "operations are pending": the handler of an accept never
\* runs on a deleted server.
HandlerFindsServer == fault # "server"

\* A use-after-free in disconnectAll "should only be possible in some kind of crazy
\* edge case": the accept handler never uses a connection that disconnectAll, called
\* while a client connects, deleted.  ListedAreLive is the other half of the comment.
HandlerFindsConnection == fault # "connection"

\* stopListening "stops listening for new connections": none appears afterwards.
NoneAfterStop ==
  [][listens > 0 /\ ~shouldListen =>
       \A c \in Conns : state[c] = "unborn" => state'[c] = "unborn"]_vars
=============================================================================
