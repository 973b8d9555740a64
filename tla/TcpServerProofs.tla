----------------------------- MODULE TcpServerProofs -----------------------------
(***************************************************************************)
(* A TCP server, for every number of connections, of listen commands and   *)
(* of entries in Arma's buffer.  IInv = Shape /\ Chains /\ Kept is inductive *)
(* for all scripts.  For scripts that act on a connection only once it was *)
(* announced so is IInv /\ Tidy, and with AnnouncedOnce every step is a    *)
(* step of Lifecycle.                                                      *)
(***************************************************************************)
EXTENDS TcpServer, FiniteSetTheorems, SequenceTheorems, TLAPS

USE ServerAssumption DEF ServerAssumption

-----------------------------------------------------------------------------
(* Sequences *)

LEMMA AppendEntry ==
  ASSUME NEW s \in Seq(Entry), Len(s) < ArmaCap, NEW e \in Entry
  PROVE  Append(s, e) \in Seq(Entry) /\ Len(Append(s, e)) <= ArmaCap
  OBVIOUS

LEMMA AppendSet ==
  ASSUME NEW S, NEW s \in Seq(S), NEW e \in S
  PROVE  /\ Append(s, e) \in Seq(S) /\ ToSet(Append(s, e)) = ToSet(s) \cup {e}
         /\ IsInjective(s) /\ e \notin ToSet(s) => IsInjective(Append(s, e))
<1>1. Append(s, e) \in Seq(S) /\ Len(Append(s, e)) = Len(s) + 1
      /\ \A i \in 1..Len(s) : Append(s, e)[i] = s[i]
      /\ Append(s, e)[Len(s) + 1] = e
  OBVIOUS
<1>2. DOMAIN Append(s, e) = 1..Len(s) + 1 /\ DOMAIN s = 1..Len(s) /\ Len(s) \in Nat
  BY <1>1
<1>3. ToSet(Append(s, e)) = ToSet(s) \cup {e}
  BY <1>1, <1>2 DEF ToSet
<1>4. IsInjective(s) /\ e \notin ToSet(s) => IsInjective(Append(s, e))
  BY <1>1, <1>2 DEF ToSet, IsInjective
<1> QED
  BY <1>1, <1>3, <1>4

LEMMA TailSet ==
  ASSUME NEW S, NEW s \in Seq(S), s # <<>>
  PROVE  /\ Tail(s) \in Seq(S) /\ Head(s) \in S
         /\ ToSet(Tail(s)) \subseteq ToSet(s) /\ Head(s) \in ToSet(s)
         /\ IsInjective(s) => IsInjective(Tail(s)) /\ Head(s) \notin ToSet(Tail(s))
<1>1. /\ Len(s) \in Nat \ {0} /\ DOMAIN s = 1..Len(s) /\ Head(s) = s[1]
      /\ Tail(s) \in Seq(S) /\ DOMAIN Tail(s) = 1..Len(s) - 1
      /\ \A i \in 1..Len(s) - 1 : Tail(s)[i] = s[i + 1]
  OBVIOUS
<1>2. ToSet(Tail(s)) \subseteq ToSet(s) /\ Head(s) \in ToSet(s)
  BY <1>1 DEF ToSet
<1>3. IsInjective(s) => IsInjective(Tail(s)) /\ Head(s) \notin ToSet(Tail(s))
  BY <1>1 DEF ToSet, IsInjective
<1> QED
  BY <1>1, <1>2, <1>3

\* removeConnection keeps all other connections, if none is listed twice.
LEMMA WithoutSet ==
  ASSUME NEW S, NEW s \in Seq(S), NEW c
  PROVE  /\ Without(s, c) \in Seq(S) /\ ToSet(Without(s, c)) \subseteq ToSet(s)
         /\ IsInjective(s) => ToSet(Without(s, c)) = ToSet(s) \ {c} /\ IsInjective(Without(s, c))
<1>1. Len(s) \in Nat /\ DOMAIN s = 1..Len(s) /\ \A i \in 1..Len(s) : s[i] \in S
  OBVIOUS
<1>2. CASE c \notin ToSet(s)
  BY <1>2 DEF Without
<1>3. CASE c \in ToSet(s)
  <2> DEFINE w == [k \in 1..Len(s) - 1 |-> IF s[k] = c THEN s[Len(s)] ELSE s[k]]
  <2>1. Without(s, c) = w
    BY <1>3 DEF Without, Last
  <2>2. Len(s) - 1 \in Nat
    BY <1>1, <1>3 DEF ToSet
  <2>3. w \in Seq(S) /\ DOMAIN w = 1..Len(s) - 1
    <3>1. w \in [1..Len(s) - 1 -> S]
      BY <1>1, <2>2
    <3> QED
      BY <2>2, <3>1, IsASeq
  <2>4. ToSet(w) \subseteq ToSet(s)
    BY <1>1, <2>2, <2>3 DEF ToSet
  <2>5. ASSUME IsInjective(s) PROVE ToSet(w) = ToSet(s) \ {c} /\ IsInjective(w)
    <3>1. PICK i \in 1..Len(s) : s[i] = c
      BY <1>1, <1>3 DEF ToSet
    <3>2. \A j \in 1..Len(s) : j # i => s[j] # c
      BY <1>1, <2>5, <3>1 DEF IsInjective
    <3>3. c \notin ToSet(w)
      BY <1>1, <2>2, <2>3, <3>1, <3>2 DEF ToSet
    <3>4. ASSUME NEW j \in 1..Len(s), j # i PROVE s[j] \in ToSet(w)
      <4>0. Len(s) \in Nat /\ i \in Nat /\ 1 <= i /\ i <= Len(s)
            /\ j \in Nat /\ 1 <= j /\ j <= Len(s)
        OBVIOUS
      <4>1. CASE j < Len(s)
        <5>1. j \in 1..Len(s) - 1 /\ w[j] = s[j]
          BY <1>1, <3>2, <3>4, <4>1
        <5> HIDE DEF w
        <5> QED
          BY <2>3, <5>1 DEF ToSet
      <4>2. CASE j = Len(s)
        <5>2. i \in 1..Len(s) - 1
          BY <3>4, <4>0, <4>2
        <5>1. i \in 1..Len(s) - 1 /\ w[i] = s[j]
          BY <3>1, <4>2, <5>2
        <5> HIDE DEF w
        <5> QED
          BY <2>3, <5>1 DEF ToSet
      <4>3. j < Len(s) \/ j = Len(s)
        BY <4>0
      <4> QED
        BY <4>1, <4>2, <4>3
    <3>5. ToSet(w) = ToSet(s) \ {c}
      BY <1>1, <2>4, <3>1, <3>3, <3>4 DEF ToSet
    <3>6. IsInjective(w)
      BY <1>1, <2>2, <2>3, <2>5, <3>1, <3>2 DEF IsInjective
    <3> QED
      BY <3>5, <3>6
  <2> QED
    BY <2>1, <2>3, <2>4, <2>5
<1> QED
  BY <1>2, <1>3

-----------------------------------------------------------------------------
(* Types, and the list disconnectAll works on *)

\* The connection that is waited for or deleted heads the rest of disconnectAll's copy.
TodoKept ==
  /\ gpc = "idle" => todo = <<>>
  /\ gpc = "remove" => todo # <<>> /\ target = Head(todo)
  /\ gpc = "join" /\ todo # <<>> => target = Head(todo)

Shape == TypeOK /\ TodoKept

LEMMA WithoutConns == ASSUME Shape, NEW c PROVE Without(connections, c) \in Seq(Conns)
  BY WithoutSet DEF Shape, TypeOK

LEMMA AppendConns == ASSUME Shape PROVE Append(connections, cur) \in Seq(Conns)
  BY AppendSet DEF Shape, TypeOK

LEMMA InitShape == Init => Shape
<1> SUFFICES ASSUME Init PROVE Shape
  OBVIOUS
<1> USE DEF Init
<1>1. 1 \in Conns /\ <<>> \in Seq(Conns) /\ <<>> \in Seq(Entry) /\ Len(<<>>) = 0
  BY DEF Conns
<1>2. /\ state \in [Conns -> {"unborn", "live", "deleted"}] /\ socketOpen \in [Conns -> BOOLEAN]
      /\ reader \in [Conns -> {"none", "reading", "sending", "ended"}]
  OBVIOUS
<1>3. sent \in [Conns -> 0..MaxData]
  OBVIOUS
<1>4. /\ gpc \in {"idle", "join", "all", "remove"}
      /\ fault \in {"none", "server", "connection", "command"}
      /\ iopc \in {"idle", "construct", "push", "name", "announce", "relisten", "accept", "report"}
      /\ target \in Conns /\ cur \in Conns /\ todo \in Seq(Conns)
  BY <1>1
<1>5. alive \in BOOLEAN /\ hasty \in BOOLEAN /\ acceptorOpen \in BOOLEAN /\ shouldListen \in BOOLEAN
  BY Zenon
<1>6. /\ listens \in 0..MaxListens /\ users \in Int
      /\ accepts \in Nat /\ ready \in Nat /\ failed \in Nat /\ reported \in Nat
  OBVIOUS
<1>7. /\ connections \in Seq(Conns) /\ registry \subseteq Conns
      /\ inbox \in Seq(Entry) /\ Len(inbox) <= ArmaCap /\ known \subseteq Conns
  BY <1>1
<1>8. connected \in [Conns -> BOOLEAN]
  BY <1>2
<1>9. TodoKept
  BY DEF TodoKept
<1> HIDE DEF Init
<1> QED
  BY <1>2, <1>3, <1>4, <1>5, <1>6, <1>7, <1>8, <1>9 DEF TypeOK, Shape

LEMMA ListenShape ==
  ASSUME Shape, Listen PROVE Shape'
  BY DEF Shape, TypeOK, TodoKept, Listen, Running, Idle, vars, gameVars, ioVars, serverVars,
     acceptVars, listVars, sockVars, readVars, armaVars

LEMMA StopListeningShape ==
  ASSUME Shape, StopListening PROVE Shape'
<1>1. UNCHANGED <<gameVars, ioVars, fault, alive, hasty, listens, ready, reported, listVars,
                sockVars, readVars, armaVars>>
  BY DEF StopListening, vars, gameVars, ioVars, serverVars, acceptVars, listVars, sockVars,
     readVars, armaVars
<1>2. shouldListen' \in BOOLEAN /\ acceptorOpen' \in BOOLEAN
  BY Zenon DEF StopListening
<1>3. accepts' \in Nat /\ failed' \in Nat
  BY DEF StopListening, Shape, TypeOK, Idle, Running
<1>4. TodoKept'
  BY DEF Shape, TypeOK, TodoKept, StopListening, Running, Idle, vars, gameVars, ioVars,
     serverVars, acceptVars, listVars, sockVars, readVars, armaVars
<1> QED
  BY <1>1, <1>2, <1>3, <1>4 DEF Shape, TypeOK, vars, gameVars, ioVars, serverVars, acceptVars,
     listVars, sockVars, readVars, armaVars

LEMMA DisconnectAllShape ==
  ASSUME Shape, DisconnectAll PROVE Shape'
  BY DEF Shape, TypeOK, TodoKept, DisconnectAll, Running, Idle, vars, gameVars, ioVars,
     serverVars, acceptVars, listVars, sockVars, readVars, armaVars

LEMMA DestroyServerShape ==
  ASSUME Shape, DestroyServer PROVE Shape'
<1>1. UNCHANGED <<gameVars, ioVars, fault, acceptorOpen, shouldListen, listens, acceptVars,
                connections, registry, state, sockVars, readVars, armaVars>>
  BY DEF DestroyServer, vars, gameVars, ioVars, serverVars, acceptVars, listVars, sockVars,
     readVars, armaVars
<1>2. alive' \in BOOLEAN /\ hasty' \in BOOLEAN
  BY Zenon DEF DestroyServer, Quiet
<1>3. users' \in Int
  BY DEF DestroyServer, Shape, TypeOK, Idle, Running
<1>4. TodoKept'
  BY DEF Shape, TypeOK, TodoKept, DestroyServer, Running, Idle, vars, gameVars, ioVars,
     serverVars, acceptVars, listVars, sockVars, readVars, armaVars
<1> QED
  BY <1>1, <1>2, <1>3, <1>4 DEF Shape, TypeOK, vars, gameVars, ioVars, serverVars, acceptVars,
     listVars, sockVars, readVars, armaVars

LEMMA HandleCallbackShape ==
  ASSUME Shape, HandleCallback PROVE Shape'
<1>1. UNCHANGED <<gameVars, ioVars, fault, serverVars, acceptVars, listVars, sockVars,
                readVars>>
  BY DEF HandleCallback, vars, gameVars, ioVars, serverVars, acceptVars, listVars, sockVars,
     readVars, armaVars
<1>2. /\ Head(inbox) \in Entry /\ inbox' \in Seq(Entry) /\ Len(inbox') <= ArmaCap
  BY DEF HandleCallback, Shape, TypeOK
<1>3. known' \subseteq Conns
  BY <1>2 DEF HandleCallback, Entry, Shape, TypeOK
<1>4. TodoKept'
  BY DEF Shape, TypeOK, TodoKept, HandleCallback, Running, Idle, vars, gameVars, ioVars,
     serverVars, acceptVars, listVars, sockVars, readVars, armaVars
<1> QED
  BY <1>1, <1>2, <1>3, <1>4 DEF Shape, TypeOK, vars, gameVars, ioVars, serverVars, acceptVars,
     listVars, sockVars, readVars, armaVars

LEMMA NextOfAllShape ==
  ASSUME Shape, NextOfAll PROVE Shape'
<1>1. UNCHANGED <<todo, ioVars, serverVars, acceptVars, listVars, connected, readVars,
                armaVars>>
  BY DEF NextOfAll, CloseThenJoin, vars, gameVars, ioVars, serverVars, acceptVars, listVars,
     sockVars, readVars, armaVars
<1>2. Head(todo) \in Conns
  BY TailSet DEF NextOfAll, Shape, TypeOK
<1>3. target' \in Conns /\ gpc' \in {"idle", "join", "all", "remove"}
  BY <1>2 DEF NextOfAll, CloseThenJoin, Shape, TypeOK
<1>4. socketOpen' \in [Conns -> BOOLEAN] /\ fault' \in {"none", "server", "connection", "command"}
  BY DEF NextOfAll, CloseThenJoin, sockVars, Shape, TypeOK
<1>5. TodoKept'
  BY DEF Shape, TypeOK, TodoKept, NextOfAll, CloseThenJoin, Running, Idle, vars, gameVars,
     ioVars, serverVars, acceptVars, listVars, sockVars, readVars, armaVars
<1> QED
  BY <1>1, <1>2, <1>3, <1>4, <1>5 DEF Shape, TypeOK, vars, gameVars, ioVars, serverVars,
     acceptVars, listVars, sockVars, readVars, armaVars

LEMMA EndOfAllShape ==
  ASSUME Shape, EndOfAll PROVE Shape'
  BY DEF Shape, TypeOK, TodoKept, EndOfAll, Running, Idle, vars, gameVars, ioVars, serverVars,
     acceptVars, listVars, sockVars, readVars, armaVars

LEMMA JoinReaderShape ==
  ASSUME Shape, JoinReader PROVE Shape'
  BY DEF Shape, TypeOK, TodoKept, JoinReader, Running, Idle, vars, gameVars, ioVars, serverVars,
     acceptVars, listVars, sockVars, readVars, armaVars

\* What deleting a connection does to the list of the server.
LEMMA DeleteTypes ==
  ASSUME Shape, NEW c \in Conns, Delete(c)
  PROVE  /\ state' \in [Conns -> {"unborn", "live", "deleted"}]
         /\ registry' \subseteq Conns /\ users' \in Int /\ connections' \in Seq(Conns)
<1>1. state' \in [Conns -> {"unborn", "live", "deleted"}] /\ registry' \subseteq Conns
      /\ users' \in Int
  BY DEF Delete, Shape, TypeOK
<1>2. connections' \in Seq(Conns)
  BY WithoutConns DEF Delete, Shape, TypeOK
<1> QED
  BY <1>1, <1>2

LEMMA RemoveOfAllShape ==
  ASSUME Shape, RemoveOfAll PROVE Shape'
<1>1. UNCHANGED <<target, ioVars, fault, serverVars, acceptVars, sockVars, readVars,
                armaVars>>
  BY DEF RemoveOfAll, Delete, vars, gameVars, ioVars, serverVars, acceptVars, listVars,
     sockVars, readVars, armaVars
<1>2. gpc' = "all" /\ todo' \in Seq(Conns)
  BY DEF RemoveOfAll, Shape, TypeOK, TodoKept
<1>3. target \in Conns /\ Delete(target)
  BY DEF RemoveOfAll, Shape, TypeOK
<1>4. /\ state' \in [Conns -> {"unborn", "live", "deleted"}]
      /\ registry' \subseteq Conns /\ users' \in Int /\ connections' \in Seq(Conns)
  BY <1>3, DeleteTypes
<1>5. TodoKept'
  BY DEF Shape, TypeOK, TodoKept, RemoveOfAll, Delete, Running, Idle, vars, gameVars, ioVars,
     serverVars, acceptVars, listVars, sockVars, readVars, armaVars
<1> QED
  BY <1>1, <1>2, <1>3, <1>4, <1>5 DEF Shape, TypeOK, vars, gameVars, ioVars, serverVars,
     acceptVars, listVars, sockVars, readVars, armaVars

LEMMA DisconnectConnectionShape ==
  ASSUME Shape, NEW c \in Conns, DisconnectConnection(c) PROVE Shape'
  BY DEF Shape, TypeOK, TodoKept, DisconnectConnection, CloseThenJoin, Running, Idle, vars,
     gameVars, ioVars, serverVars, acceptVars, listVars, sockVars, readVars, armaVars

LEMMA DestroyConnectionShape ==
  ASSUME Shape, NEW c \in Conns, DestroyConnection(c) PROVE Shape'
<1>1. UNCHANGED <<gameVars, ioVars, serverVars, acceptVars, sockVars, readVars, armaVars>>
  BY DEF DestroyConnection, Delete, vars, gameVars, ioVars, serverVars, acceptVars, listVars,
     sockVars, readVars, armaVars
<1>2. fault' \in {"none", "server", "connection", "command"}
  BY DEF DestroyConnection, Shape, TypeOK
<1>3. Delete(c) \/ UNCHANGED listVars
  BY DEF DestroyConnection
<1>4. /\ state' \in [Conns -> {"unborn", "live", "deleted"}]
      /\ registry' \subseteq Conns /\ users' \in Int /\ connections' \in Seq(Conns)
  BY <1>3, DeleteTypes DEF listVars, Shape, TypeOK
<1>5. TodoKept'
  BY DEF Shape, TypeOK, TodoKept, DestroyConnection, Delete, Running, Idle, vars, gameVars,
     ioVars, serverVars, acceptVars, listVars, sockVars, readVars, armaVars
<1> QED
  BY <1>1, <1>2, <1>3, <1>4, <1>5 DEF Shape, TypeOK, vars, gameVars, ioVars, serverVars,
     acceptVars, listVars, sockVars, readVars, armaVars

LEMMA ArriveShape ==
  ASSUME Shape, Arrive PROVE Shape'
<1>1. UNCHANGED <<gameVars, ioVars, fault, serverVars, reported, listVars, sockVars,
                readVars, armaVars>>
  BY DEF Arrive, vars, gameVars, ioVars, serverVars, acceptVars, listVars, sockVars, readVars,
     armaVars
<1>2. accepts' \in Nat /\ ready' \in Nat /\ failed' \in Nat
  <2>1. accepts \in Nat /\ ready \in Nat /\ failed \in Nat
    BY DEF Shape, TypeOK
  <2>2. /\ accepts > 0 /\ accepts' = accepts - 1
        /\ ready' = ready + 1 \/ ready' = ready
        /\ failed' = failed + 1 \/ failed' = failed
    BY DEF Arrive
  <2> QED
    BY <2>1, <2>2
<1>3. TodoKept'
  BY DEF Shape, TypeOK, TodoKept, Arrive, Running, Idle, vars, gameVars, ioVars, serverVars,
     acceptVars, listVars, sockVars, readVars, armaVars
<1> QED
  BY <1>1, <1>2, <1>3 DEF Shape, TypeOK, vars, gameVars, ioVars, serverVars, acceptVars,
     listVars, sockVars, readVars, armaVars

LEMMA FailedAcceptShape ==
  ASSUME Shape, FailedAccept PROVE Shape'
<1>1. UNCHANGED <<gameVars, cur, serverVars, accepts, ready, reported, listVars, sockVars,
                readVars, armaVars>>
  BY DEF FailedAccept, UsesServer, vars, gameVars, ioVars, serverVars, acceptVars, listVars,
     sockVars, readVars, armaVars
<1>2. /\ iopc' \in {"idle", "construct", "push", "name", "announce", "relisten", "accept", "report"}
      /\ fault' \in {"none", "server", "connection", "command"}
  BY DEF FailedAccept, UsesServer, ioVars, Shape, TypeOK, Idle, Running
<1>3. failed' \in Nat
  BY DEF FailedAccept, UsesServer, acceptVars, Shape, TypeOK, Idle, Running
<1>4. TodoKept'
  BY DEF Shape, TypeOK, TodoKept, FailedAccept, UsesServer, Running, Idle, vars, gameVars,
     ioVars, serverVars, acceptVars, listVars, sockVars, readVars, armaVars
<1> QED
  BY <1>1, <1>2, <1>3, <1>4 DEF Shape, TypeOK, vars, gameVars, ioVars, serverVars, acceptVars,
     listVars, sockVars, readVars, armaVars

LEMMA ReportShape ==
  ASSUME Shape, Report PROVE Shape'
<1>1. UNCHANGED <<gameVars, cur, fault, serverVars, accepts, ready, failed, listVars,
                sockVars, readVars, known>>
  BY DEF Report, vars, gameVars, ioVars, serverVars, acceptVars, listVars, sockVars, readVars,
     armaVars
<1>2. iopc' = "idle" /\ reported' \in Nat
  BY DEF Report, Shape, TypeOK, Idle, Running
<1>3. <<"FAILURE">> \in Entry
  BY DEF Entry
<1>4. inbox' \in Seq(Entry) /\ Len(inbox') <= ArmaCap
  BY <1>3, AppendEntry DEF Report, Room, Shape, TypeOK
<1>5. TodoKept'
  BY DEF Shape, TypeOK, TodoKept, Report, Running, Idle, vars, gameVars, ioVars, serverVars,
     acceptVars, listVars, sockVars, readVars, armaVars
<1> QED
  BY <1>1, <1>2, <1>3, <1>4, <1>5 DEF Shape, TypeOK, vars, gameVars, ioVars, serverVars,
     acceptVars, listVars, sockVars, readVars, armaVars

LEMMA ConstructShape ==
  ASSUME Shape, NEW c \in Conns, Construct(c) PROVE Shape'
<1>1. UNCHANGED <<gameVars, fault, serverVars, accepts, failed, reported, connections, sent,
                armaVars>>
  BY DEF Construct, vars, gameVars, ioVars, serverVars, acceptVars, listVars, sockVars,
     readVars, armaVars
<1>2. ready' \in Nat /\ users' \in Int
  BY DEF Construct, Shape, TypeOK, Idle, Running
<1>3. /\ state' \in [Conns -> {"unborn", "live", "deleted"}] /\ registry' \subseteq Conns
      /\ reader' \in [Conns -> {"none", "reading", "sending", "ended"}]
      /\ cur' \in Conns /\ iopc' = "construct"
  BY DEF Construct, Shape, TypeOK, Idle, Running
<1>4. socketOpen' \in [Conns -> BOOLEAN] /\ connected' \in [Conns -> BOOLEAN]
  BY DEF Construct, Shape, TypeOK, Idle, Running
<1>5. TodoKept'
  BY DEF Shape, TypeOK, TodoKept, Construct, Running, Idle, vars, gameVars, ioVars, serverVars,
     acceptVars, listVars, sockVars, readVars, armaVars
<1> QED
  BY <1>1, <1>2, <1>3, <1>4, <1>5 DEF Shape, TypeOK, vars, gameVars, ioVars, serverVars,
     acceptVars, listVars, sockVars, readVars, armaVars

LEMMA SetConnectedShape ==
  ASSUME Shape, SetConnected PROVE Shape'
  BY DEF Shape, TypeOK, TodoKept, SetConnected, UsesConnection, Running, Idle, vars, gameVars,
     ioVars, serverVars, acceptVars, listVars, sockVars, readVars, armaVars

LEMMA PushShape ==
  ASSUME Shape, Push PROVE Shape'
<1>1. UNCHANGED <<gameVars, cur, serverVars, acceptVars, registry, users, state, sockVars,
                readVars, armaVars>>
  BY DEF Push, UsesServer, vars, gameVars, ioVars, serverVars, acceptVars, listVars, sockVars,
     readVars, armaVars
<1>2. /\ iopc' \in {"idle", "construct", "push", "name", "announce", "relisten", "accept", "report"}
      /\ fault' \in {"none", "server", "connection", "command"}
  BY DEF Push, UsesServer, ioVars, Shape, TypeOK, Idle, Running
<1>3. connections' \in Seq(Conns)
  BY AppendConns DEF Push, UsesServer, listVars, Shape, TypeOK
<1>4. TodoKept'
  BY DEF Shape, TypeOK, TodoKept, Push, UsesServer, Running, Idle, vars, gameVars, ioVars,
     serverVars, acceptVars, listVars, sockVars, readVars, armaVars
<1> QED
  BY <1>1, <1>2, <1>3, <1>4 DEF Shape, TypeOK, vars, gameVars, ioVars, serverVars, acceptVars,
     listVars, sockVars, readVars, armaVars

LEMMA NameShape ==
  ASSUME Shape, Name PROVE Shape'
  BY DEF Shape, TypeOK, TodoKept, Name, UsesConnection, Running, Idle, vars, gameVars, ioVars,
     serverVars, acceptVars, listVars, sockVars, readVars, armaVars

LEMMA AnnounceShape ==
  ASSUME Shape, Announce PROVE Shape'
<1>1. UNCHANGED <<gameVars, cur, fault, serverVars, acceptVars, listVars, sockVars,
                readVars, known>>
  BY DEF Announce, vars, gameVars, ioVars, serverVars, acceptVars, listVars, sockVars, readVars,
     armaVars
<1>2. iopc' = "relisten"
  BY DEF Announce
<1>3. <<"new_tcp_connection", cur>> \in Entry
  BY DEF Entry, Shape, TypeOK
<1>4. inbox' \in Seq(Entry) /\ Len(inbox') <= ArmaCap
  BY <1>3, AppendEntry DEF Announce, Room, Shape, TypeOK
<1>5. TodoKept'
  BY DEF Shape, TypeOK, TodoKept, Announce, Running, Idle, vars, gameVars, ioVars, serverVars,
     acceptVars, listVars, sockVars, readVars, armaVars
<1> QED
  BY <1>1, <1>2, <1>3, <1>4, <1>5 DEF Shape, TypeOK, vars, gameVars, ioVars, serverVars,
     acceptVars, listVars, sockVars, readVars, armaVars

LEMMA RelistenShape ==
  ASSUME Shape, Relisten PROVE Shape'
<1>1. UNCHANGED <<gameVars, cur, serverVars, acceptVars, listVars, sockVars, readVars, armaVars>>
  BY DEF Relisten, UsesServer, vars, gameVars, ioVars, serverVars, acceptVars, listVars,
     sockVars, readVars, armaVars
<1>2. /\ iopc' \in {"idle", "relisten", "accept"}
      /\ fault' \in {"none", "server", "connection", "command"}
  BY DEF Relisten, UsesServer, ioVars, Shape, TypeOK, Idle, Running
<1>3. TodoKept'
  BY DEF Shape, TypeOK, TodoKept, Relisten, UsesServer, Running, Idle, vars, gameVars, ioVars,
     serverVars, acceptVars, listVars, sockVars, readVars, armaVars
<1> QED
  BY <1>1, <1>2, <1>3 DEF Shape, TypeOK, vars, gameVars, ioVars, serverVars, acceptVars,
     listVars, sockVars, readVars, armaVars

LEMMA AsyncAcceptShape ==
  ASSUME Shape, AsyncAccept PROVE Shape'
<1>1. UNCHANGED <<gameVars, cur, serverVars, ready, reported, listVars, sockVars, readVars,
                armaVars>>
  BY DEF AsyncAccept, UsesServer, vars, gameVars, ioVars, serverVars, acceptVars, listVars,
     sockVars, readVars, armaVars
<1>2. /\ iopc' \in {"idle", "accept"}
      /\ fault' \in {"none", "server", "connection", "command"}
  BY DEF AsyncAccept, UsesServer, ioVars, Shape, TypeOK, Idle, Running
<1>3. accepts' \in Nat /\ failed' \in Nat
  <2>1. accepts \in Nat /\ failed \in Nat
    BY DEF Shape, TypeOK
  <2>2. accepts' \in {accepts, accepts + 1} /\ failed' \in {failed, failed + 1}
    BY DEF AsyncAccept, UsesServer, acceptVars
  <2> QED
    BY <2>1, <2>2
<1>4. TodoKept'
  BY <1>1 DEF Shape, TodoKept, gameVars
<1> QED
  BY <1>1, <1>2, <1>3, <1>4 DEF Shape, TypeOK, vars, gameVars, ioVars, serverVars, acceptVars,
     listVars, sockVars, readVars, armaVars

LEMMA ReadDataShape ==
  ASSUME Shape, NEW c \in Conns, ReadData(c) PROVE Shape'
<1>1. UNCHANGED <<gameVars, ioVars, fault, serverVars, acceptVars, listVars, sockVars,
                armaVars>>
  BY DEF ReadData, vars, gameVars, ioVars, serverVars, acceptVars, listVars, sockVars, readVars,
     armaVars
<1>2. reader' \in [Conns -> {"none", "reading", "sending", "ended"}]
  BY DEF ReadData, Shape, TypeOK, Idle, Running
<1>3. sent' \in [Conns -> 0..MaxData]
  BY DEF ReadData, Shape, TypeOK, Idle, Running
<1>4. TodoKept'
  BY DEF Shape, TypeOK, TodoKept, ReadData, Running, Idle, vars, gameVars, ioVars, serverVars,
     acceptVars, listVars, sockVars, readVars, armaVars
<1> QED
  BY <1>1, <1>2, <1>3, <1>4 DEF Shape, TypeOK, vars, gameVars, ioVars, serverVars, acceptVars,
     listVars, sockVars, readVars, armaVars

LEMMA SendDataShape ==
  ASSUME Shape, NEW c \in Conns, SendData(c) PROVE Shape'
<1>1. UNCHANGED <<gameVars, ioVars, fault, serverVars, acceptVars, listVars, sockVars, sent,
                known>>
  BY DEF SendData, vars, gameVars, ioVars, serverVars, acceptVars, listVars, sockVars, readVars,
     armaVars
<1>2. reader' \in [Conns -> {"none", "reading", "sending", "ended"}]
  BY DEF SendData, Shape, TypeOK, Idle, Running
<1>3. <<"data_read", c>> \in Entry
  BY DEF Entry
<1>4. inbox' \in Seq(Entry) /\ Len(inbox') <= ArmaCap
  BY <1>3, AppendEntry DEF SendData, Room, Shape, TypeOK
<1>5. TodoKept'
  BY DEF Shape, TypeOK, TodoKept, SendData, Running, Idle, vars, gameVars, ioVars, serverVars,
     acceptVars, listVars, sockVars, readVars, armaVars
<1> QED
  BY <1>1, <1>2, <1>3, <1>4, <1>5 DEF Shape, TypeOK, vars, gameVars, ioVars, serverVars,
     acceptVars, listVars, sockVars, readVars, armaVars

LEMMA EndReaderShape ==
  ASSUME Shape, NEW c \in Conns, EndReader(c) PROVE Shape'
  BY DEF Shape, TypeOK, TodoKept, EndReader, Running, Idle, vars, gameVars, ioVars, serverVars,
     acceptVars, listVars, sockVars, readVars, armaVars

\* What the commands and threads do, one by one.
LEMMA NextShape == ASSUME Shape, [Next]_vars PROVE Shape'
<1>1. CASE UNCHANGED vars
  BY <1>1 DEF Shape, TypeOK, TodoKept, vars, gameVars, ioVars, serverVars, acceptVars, listVars,
     sockVars, readVars, armaVars
<1> QED
  BY <1>1, ListenShape, StopListeningShape, DisconnectAllShape, DestroyServerShape,
     HandleCallbackShape, NextOfAllShape, EndOfAllShape, JoinReaderShape, RemoveOfAllShape,
     DisconnectConnectionShape, DestroyConnectionShape, ArriveShape, FailedAcceptShape,
     ReportShape, ConstructShape, SetConnectedShape, PushShape, NameShape, AnnounceShape,
     RelistenShape, AsyncAcceptShape, ReadDataShape, SendDataShape, EndReaderShape
     DEF Next, Continue, Handler, ReadThread

-----------------------------------------------------------------------------
(* The chains of accepts *)

\* While the acceptor is open, every listen command has its accept; it is closed for good
\* when the scripts stop listening, and no accept waits on a closed one.
AtWork == accepts + ready + failed + (IF iopc = "idle" THEN 0 ELSE 1) + reported
Chains ==
  /\ shouldListen => acceptorOpen
  /\ acceptorOpen => AtWork = listens
  /\ acceptorOpen /\ ~shouldListen => listens = 0
  /\ accepts > 0 => acceptorOpen

LEMMA InitChains == Init => Chains
  BY DEF Init, Chains, AtWork

\* The numbers Chains counts.
LEMMA Counts ==
  ASSUME Shape
  PROVE  /\ accepts \in Nat /\ ready \in Nat /\ failed \in Nat /\ reported \in Nat
         /\ listens \in Nat
  BY DEF Shape, TypeOK

\* A step that only hands an accept on.
LEMMA ChainsHandedOn ==
  ASSUME Shape, Chains, UNCHANGED <<acceptorOpen, shouldListen, listens>>, AtWork' = AtWork,
         accepts' > 0 => accepts > 0 \/ acceptorOpen
  PROVE  Chains'
  BY DEF Chains

\* The commands.
LEMMA ChainsCommands ==
  ASSUME Shape, Chains,
         \/ Listen \/ StopListening \/ DisconnectAll \/ DestroyServer \/ HandleCallback \/ Continue
         \/ \E c \in Conns : DisconnectConnection(c) \/ DestroyConnection(c) \/ ReadThread(c)
  PROVE  Chains'
<1>1. CASE Listen
  BY <1>1, Counts DEF Chains, AtWork, Listen, ioVars
<1>2. CASE StopListening
  BY <1>2 DEF Chains, StopListening
<1>3. CASE DisconnectAll \/ DestroyServer \/ HandleCallback \/ Continue
  BY <1>3
     DEF Chains, AtWork, DisconnectAll, DestroyServer, HandleCallback, Continue, NextOfAll,
         EndOfAll, JoinReader, RemoveOfAll, ioVars, serverVars, acceptVars
<1>4. ASSUME NEW c \in Conns, DisconnectConnection(c) \/ DestroyConnection(c) \/ ReadThread(c)
      PROVE  Chains'
  BY <1>4
     DEF Chains, AtWork, DisconnectConnection, DestroyConnection, ReadThread, ReadData, SendData,
         EndReader, ioVars, serverVars, acceptVars
<1> QED
  BY <1>1, <1>2, <1>3, <1>4

\* A failed accept leaves its chain with a report, and only a failed accept does.
LEMMA ChainsAccepts ==
  ASSUME Shape, Chains, Handler \/ Arrive
  PROVE  Chains'
<1>1. CASE Arrive
  <2>1. /\ accepts' = accepts - 1
        /\ \/ ready' = ready + 1 /\ failed' = failed
           \/ failed' = failed + 1 /\ ready' = ready
    BY <1>1 DEF Arrive
  <2>2. UNCHANGED <<acceptorOpen, shouldListen, listens, iopc, reported>>
    BY <1>1 DEF Arrive, serverVars, ioVars
  <2>3. AtWork' = AtWork
    BY <2>1, <2>2, Counts DEF AtWork
  <2> QED
    BY <1>1, <2>2, <2>3, ChainsHandedOn DEF Arrive
<1>2. CASE FailedAccept
  <2>1. UNCHANGED <<acceptorOpen, shouldListen, listens>> /\ iopc = "idle" /\ failed > 0
    BY <1>2 DEF FailedAccept, serverVars
  <2>2. CASE ~alive
    BY <1>2, <2>1, <2>2 DEF FailedAccept, UsesServer, Chains, AtWork, ioVars, acceptVars
  <2>3. CASE alive /\ shouldListen
    <3>1. failed' = failed - 1 /\ iopc' = "report" /\ UNCHANGED <<accepts, ready, reported>>
      BY <1>2, <2>3 DEF FailedAccept, UsesServer
    <3>2. AtWork' = AtWork
      BY <2>1, <3>1, Counts DEF AtWork
    <3> QED
      BY <2>1, <3>1, <3>2, ChainsHandedOn
  <2>4. CASE alive /\ ~shouldListen
    <3>1. AtWork > 0
      BY <2>1, Counts DEF AtWork
    <3>2. ~acceptorOpen
      BY <2>4, <3>1 DEF Chains
    <3>3. accepts' = accepts
      BY <1>2, <2>4 DEF FailedAccept, UsesServer
    <3> QED
      BY <2>1, <2>4, <3>2, <3>3 DEF Chains
  <2> QED
    BY <2>2, <2>3, <2>4
<1>3. CASE Report
  <2>1. UNCHANGED <<acceptorOpen, shouldListen, listens, accepts, ready, failed>>
        /\ iopc = "report" /\ iopc' = "idle" /\ reported' = reported + 1
    BY <1>3 DEF Report, serverVars
  <2>2. AtWork' = AtWork
    BY <2>1, Counts DEF AtWork
  <2> QED
    BY <2>1, <2>2, ChainsHandedOn
<1>4. ASSUME NEW c \in Conns, Construct(c) PROVE Chains'
  BY <1>4, Counts DEF Chains, AtWork, Construct, serverVars
<1>5. CASE SetConnected \/ Push \/ Name \/ Announce
  BY <1>5
     DEF Chains, AtWork, SetConnected, Push, Name, Announce, UsesServer, UsesConnection, ioVars,
         serverVars, acceptVars
<1>6. CASE Relisten
  <2>1. UNCHANGED <<acceptorOpen, shouldListen, listens, accepts, ready, failed, reported>>
        /\ iopc = "relisten"
    BY <1>6 DEF Relisten, UsesServer, serverVars, acceptVars
  <2>2. CASE ~alive \/ shouldListen
    <3>1. iopc' \in {"relisten", "accept"}
      BY <1>6, <2>1, <2>2 DEF Relisten, UsesServer, Chain, ioVars
    <3>2. AtWork' = AtWork
      BY <2>1, <3>1 DEF AtWork
    <3> QED
      BY <2>1, <3>2, ChainsHandedOn
  <2>3. CASE alive /\ ~shouldListen
    <3>1. AtWork > 0
      BY <2>1, Counts DEF AtWork
    <3>2. ~acceptorOpen
      BY <2>3, <3>1 DEF Chains
    <3> QED
      BY <2>1, <2>3, <3>2 DEF Chains
  <2> QED
    BY <2>2, <2>3
<1>7. CASE AsyncAccept
  <2>1. UNCHANGED <<acceptorOpen, shouldListen, listens, ready, reported>> /\ iopc = "accept"
    BY <1>7 DEF AsyncAccept, UsesServer, serverVars, acceptVars
  <2>2. CASE ~alive
    BY <1>7, <2>1, <2>2 DEF AsyncAccept, UsesServer, Chains, AtWork, ioVars, acceptVars
  <2>3. CASE alive
    <3>1. /\ iopc' = "idle"
          /\ \/ acceptorOpen /\ accepts' = accepts + 1 /\ failed' = failed
             \/ accepts' = accepts /\ failed' = failed + 1
      BY <1>7, <2>3 DEF AsyncAccept, UsesServer
    <3>2. AtWork' = AtWork
      BY <2>1, <3>1, Counts DEF AtWork
    <3> QED
      BY <2>1, <3>1, <3>2, ChainsHandedOn
  <2> QED
    BY <2>2, <2>3
<1> QED
  BY <1>1, <1>2, <1>3, <1>4, <1>5, <1>6, <1>7 DEF Handler

-----------------------------------------------------------------------------
(* Connections, their lists and their read threads *)

\* Connections are numbered as they are accepted.
Ordered == Born = 1..Cardinality(Born) /\ Cardinality(Born) \in Nat

\* What a constructor is at work on is not in a list yet.
BeingBuilt == {c \in Conns : iopc \in {"construct", "push"} /\ cur = c}
ListsKept ==
  /\ registry = Live
  /\ ToSet(connections) \subseteq Born \ BeingBuilt
  /\ ToSet(todo) \subseteq Born \ BeingBuilt
  /\ BeingBuilt \subseteq Born

\* A read thread runs on an open socket or is being waited for; only a constructor has
\* a connection whose flag is not set although its thread runs; and what is waited for or
\* deleted is closed.
ReadersKept ==
  /\ \A c \in Conns : reader[c] \in {"reading", "sending"} =>
       state[c] = "live" /\ (socketOpen[c] \/ (gpc = "join" /\ target = c))
  /\ \A c \in Conns : state[c] = "live" /\ ~connected[c] =>
       \/ iopc = "construct" /\ cur = c
       \/ reader[c] \in {"none", "ended"} /\ ~socketOpen[c]
  /\ gpc \in {"join", "remove"} => state[target] = "live" /\ ~socketOpen[target]
  /\ gpc = "remove" => reader[target] \in {"none", "ended"}

Kept == Ordered /\ ListsKept /\ ReadersKept /\ UsersMatch

LEMMA InitKept == Init => Kept
<1> SUFFICES ASSUME Init PROVE Kept
  OBVIOUS
<1> USE DEF Init
<1>1. Born = {} /\ Live = {} /\ BeingBuilt = {} /\ ToSet(<<>>) = {}
  BY DEF Born, Live, BeingBuilt, ToSet
<1>2. Ordered
  <2>1. Cardinality({}) = 0 /\ 1..0 = {}
    BY FS_EmptySet
  <2> QED
    BY <1>1, <2>1 DEF Ordered
<1>3. ListsKept /\ ReadersKept
  BY <1>1 DEF ListsKept, ReadersKept
<1>4. UsersMatch
  BY <1>1, FS_EmptySet DEF UsersMatch
<1> QED
  BY <1>2, <1>3, <1>4 DEF Kept

LEMMA LiveFinite == IsFiniteSet(Live) /\ Cardinality(Live) \in Nat
<1>1. Live \subseteq 1..MaxConns
  BY DEF Live, Conns
<1>2. IsFiniteSet(1..MaxConns)
  <2>1. 1 \in Int /\ MaxConns \in Int
    BY ServerAssumption DEF ServerAssumption
  <2> QED
    BY <2>1, FS_Interval
<1> QED
  BY <1>1, <1>2, FS_Subset, FS_CardinalityType

\* A step that creates and deletes no connection, opens no socket, and takes part in no
\* list.
LEMMA KeptByMost ==
  ASSUME Shape, Kept,
         \/ Listen \/ StopListening \/ DisconnectAll \/ DestroyServer \/ HandleCallback
         \/ EndOfAll \/ JoinReader \/ Arrive \/ FailedAccept \/ Report \/ SetConnected \/ Name
         \/ Announce \/ Relisten \/ AsyncAccept \/ UNCHANGED vars
         \/ \E c \in Conns : ReadThread(c)
  PROVE  Kept'
<1> USE DEF Kept
<1>1. UNCHANGED <<state, registry, connections>>
  BY DEF Listen, StopListening, DisconnectAll, DestroyServer, HandleCallback, EndOfAll, JoinReader,
         Arrive, FailedAccept, Report, SetConnected, Name, Announce, Relisten, AsyncAccept,
         ReadThread, ReadData, SendData, EndReader, UsesServer, UsesConnection, vars, listVars
<1>2. Born' = Born /\ Live' = Live
  BY <1>1 DEF Born, Live
<1>3. Ordered'
  BY <1>2 DEF Ordered
<1>4. BeingBuilt' \subseteq BeingBuilt /\ ToSet(todo') \subseteq ToSet(todo) \cup ToSet(connections)
  BY DEF Shape, TypeOK, BeingBuilt, Listen, StopListening, DisconnectAll, DestroyServer,
         HandleCallback, EndOfAll, JoinReader, Arrive, FailedAccept, Report, SetConnected, Name,
         Announce, Relisten, AsyncAccept, ReadThread, ReadData, SendData, EndReader, UsesServer,
         UsesConnection, vars, gameVars, ioVars
<1>5. ListsKept'
  BY <1>1, <1>2, <1>4 DEF ListsKept
<1>6. UsersMatch'
  <2>1. CASE DestroyServer
    <3>1. alive /\ ~alive' /\ users' = users - 1
      BY <2>1 DEF DestroyServer
    <3>2. users = Cardinality(Live) + 1
      BY <3>1 DEF UsersMatch
    <3> QED
      BY <1>2, <3>1, <3>2, LiveFinite DEF UsersMatch
  <2>2. CASE ~DestroyServer
    <3>1. UNCHANGED <<users, alive>>
      BY <2>2 DEF Listen, StopListening, DisconnectAll, HandleCallback, EndOfAll, JoinReader,
         Arrive, FailedAccept, Report, SetConnected, Name, Announce, Relisten, AsyncAccept,
         ReadThread, ReadData, SendData, EndReader, UsesServer, UsesConnection, vars, listVars,
         serverVars
    <3> QED
      BY <1>2, <3>1 DEF UsersMatch
  <2> QED
    BY <2>1, <2>2
<1>7. ReadersKept'
  <2>1. CASE Listen \/ StopListening \/ DisconnectAll \/ DestroyServer \/ HandleCallback
    BY <2>1 DEF Shape, TypeOK, TodoKept, ReadersKept, Listen, StopListening, DisconnectAll,
       DestroyServer, HandleCallback, Idle, Running, gameVars, ioVars, listVars, sockVars, readVars
  <2>2. CASE EndOfAll
    BY <2>2 DEF Shape, TypeOK, ReadersKept, EndOfAll, ioVars, listVars, sockVars, readVars
  <2>3. CASE JoinReader
    BY <2>3 DEF Shape, TypeOK, ReadersKept, JoinReader, ReaderJoined, Reading, ioVars, listVars,
       readVars
  <2>4. CASE Arrive \/ FailedAccept \/ Report \/ Name \/ Announce \/ Relisten \/ AsyncAccept
            \/ UNCHANGED vars
    BY <2>4 DEF Shape, TypeOK, ReadersKept, Arrive, FailedAccept, Report, Name, Announce, Relisten,
       AsyncAccept, UsesServer, UsesConnection, vars, gameVars, ioVars, listVars, sockVars, readVars
  <2>5. CASE SetConnected
    BY <2>5 DEF Shape, TypeOK, ReadersKept, SetConnected, UsesConnection, gameVars, listVars,
       readVars
  <2>6. ASSUME NEW c \in Conns, ReadThread(c) PROVE ReadersKept'
    <3>1. UNCHANGED <<gpc, target, iopc, cur, state, socketOpen, connected>>
      BY <2>6 DEF ReadThread, ReadData, SendData, EndReader, gameVars, ioVars, listVars, sockVars
    <3>2. /\ reader' \in [Conns -> {"none", "reading", "sending", "ended"}]
          /\ \A d \in Conns \ {c} : reader'[d] = reader[d]
          /\ reader[c] \in {"reading", "sending"}
      <4>1. reader \in [Conns -> {"none", "reading", "sending", "ended"}]
        BY DEF Shape, TypeOK
      <4>2. /\ reader[c] \in {"reading", "sending"}
            /\ \E r \in {"reading", "sending", "ended"} : reader' = [reader EXCEPT ![c] = r]
        BY <2>6 DEF ReadThread, ReadData, SendData, EndReader
      <4> QED
        BY <4>1, <4>2
    <3>3. state[c] = "live" /\ (socketOpen[c] \/ (gpc = "join" /\ target = c))
      BY <3>2 DEF ReadersKept
    <3>4. \A d \in Conns : reader'[d] \in {"reading", "sending"} =>
            state'[d] = "live" /\ (socketOpen'[d] \/ (gpc' = "join" /\ target' = d))
      BY <3>1, <3>2, <3>3 DEF ReadersKept
    <3>5. \A d \in Conns : state'[d] = "live" /\ ~connected'[d] =>
            \/ iopc' = "construct" /\ cur' = d
            \/ reader'[d] \in {"none", "ended"} /\ ~socketOpen'[d]
      <4>1. ASSUME NEW d \in Conns, state'[d] = "live", ~connected'[d],
                   ~(iopc' = "construct" /\ cur' = d)
            PROVE  reader'[d] \in {"none", "ended"} /\ ~socketOpen'[d]
        <5>1. reader[d] \in {"none", "ended"} /\ ~socketOpen[d]
          BY <3>1, <4>1 DEF ReadersKept
        <5>2. d # c
          BY <3>2, <5>1
        <5> QED
          BY <3>1, <3>2, <5>1, <5>2
      <4> QED
        BY <4>1
    <3>6. gpc = "remove" => target # c
      BY <3>2 DEF ReadersKept
    <3>7. gpc' \in {"join", "remove"} => state'[target'] = "live" /\ ~socketOpen'[target']
      BY <3>1 DEF ReadersKept
    <3>8. gpc' = "remove" => reader'[target'] \in {"none", "ended"}
      <4>1. target \in Conns
        BY DEF Shape, TypeOK
      <4> QED
        BY <3>1, <3>2, <3>6, <4>1 DEF ReadersKept
    <3> QED
      BY <3>4, <3>5, <3>7, <3>8 DEF ReadersKept
  <2> QED
    BY <2>1, <2>2, <2>3, <2>4, <2>5, <2>6
<1> QED
  BY <1>3, <1>5, <1>6, <1>7

\* The game thread closes a connection.
LEMMA KeptByClose ==
  ASSUME Shape, Kept, NEW c \in Conns, state[c] = "live", NEW otherwise \in {"idle", "remove"},
         CloseThenJoin(c, otherwise),
         otherwise = "remove" => c \notin BeingBuilt,
         UNCHANGED <<todo, ioVars, serverVars, listVars, readVars>>, gpc \notin {"join", "remove"}
  PROVE  Kept'
<1> USE DEF Kept
<1>1. Born' = Born /\ Live' = Live /\ BeingBuilt' = BeingBuilt
  BY DEF Born, Live, BeingBuilt, listVars, ioVars
<1>2. Ordered' /\ ListsKept'
  BY <1>1 DEF Ordered, ListsKept, listVars
<1>3. UsersMatch'
  BY <1>1 DEF UsersMatch, listVars, serverVars
<1>4. UNCHANGED <<state, reader, iopc, cur, connected>> /\ target' = c
  BY DEF CloseThenJoin, listVars, readVars, ioVars
<1>5. ReadersKept'
  <2>1. CASE connected[c]
    <3>1. socketOpen' = [socketOpen EXCEPT ![c] = FALSE] /\ gpc' = "join"
      BY <2>1 DEF CloseThenJoin
    <3> QED
      BY <1>4, <2>1, <3>1 DEF ReadersKept, Shape, TypeOK
  <2>2. CASE ~connected[c]
    <3>1. gpc' = otherwise /\ socketOpen' = socketOpen
      BY <2>2 DEF CloseThenJoin
    <3>2. otherwise = "remove" => ~(iopc = "construct" /\ cur = c)
      BY DEF BeingBuilt
    <3> QED
      BY <1>4, <2>2, <3>1, <3>2 DEF ReadersKept, Shape, TypeOK
  <2> QED
    BY <2>1, <2>2
<1> QED
  BY <1>2, <1>3, <1>5

\* disconnectAll finds in its copy only connections that are listed.
LEMMA KeptByNextOfAll == ASSUME Shape, Kept, NextOfAll PROVE Kept'
<1> DEFINE c == Head(todo)
<1>1. c \in Conns /\ c \in Born /\ c \notin BeingBuilt
  <2>1. c \in ToSet(todo) /\ c \in Conns
    BY TailSet DEF NextOfAll, Shape, TypeOK
  <2> QED
    BY <2>1 DEF Kept, ListsKept
<1>2. CASE state[c] = "deleted"
  BY <1>2 DEF NextOfAll, Kept, Ordered, ListsKept, ReadersKept, UsersMatch, Born, Live, BeingBuilt,
     ioVars, serverVars, listVars, sockVars, readVars
<1>3. CASE state[c] # "deleted"
  <2>1. state[c] = "live"
    BY <1>1, <1>3 DEF Born, Shape, TypeOK
  <2>2. CloseThenJoin(c, "remove") /\ gpc = "all"
        /\ UNCHANGED <<todo, ioVars, serverVars, listVars, readVars>>
    BY <1>3 DEF NextOfAll
  <2> QED
    BY <1>1, <2>1, <2>2, KeptByClose
<1> QED
  BY <1>2, <1>3

LEMMA KeptByDisconnect ==
  ASSUME Shape, Kept, NEW c \in Conns, DisconnectConnection(c) PROVE Kept'
<1>1. state[c] = "live"
  BY DEF DisconnectConnection, Kept, ListsKept, Live
<1>2. CloseThenJoin(c, "idle") /\ gpc = "idle"
      /\ UNCHANGED <<todo, ioVars, serverVars, listVars, readVars>>
  BY DEF DisconnectConnection, Idle
<1> QED
  BY <1>1, <1>2, KeptByClose

\* A connection is deleted closed, and is one user less.
LEMMA KeptByDelete ==
  ASSUME Shape, Kept, NEW c \in Conns, state[c] = "live", ~socketOpen[c],
         reader[c] \in {"none", "ended"}, Delete(c), ToSet(todo') \subseteq ToSet(todo),
         gpc' \notin {"join", "remove"}, gpc # "join",
         UNCHANGED <<ioVars, serverVars, sockVars, readVars>>
  PROVE  Kept'
<1> USE DEF Kept
<1>1. state' = [state EXCEPT ![c] = "deleted"] /\ registry' = registry \ {c}
      /\ connections' = Without(connections, c) /\ users' = users - 1
  BY DEF Delete
<1>2. /\ state'[c] = "deleted" /\ \A d \in Conns \ {c} : state'[d] = state[d]
      /\ state' \in [Conns -> {"unborn", "live", "deleted"}]
  BY <1>1 DEF Shape, TypeOK
<1>3. Born' = Born /\ Live' = Live \ {c} /\ c \in Live
  BY <1>2 DEF Born, Live
<1>4. Ordered'
  BY <1>3 DEF Ordered
<1>5. ListsKept'
  <2>1. BeingBuilt' = BeingBuilt
    BY DEF BeingBuilt, ioVars
  <2>2. ToSet(connections') \subseteq ToSet(connections)
    BY <1>1, WithoutSet DEF Shape, TypeOK
  <2> QED
    BY <1>1, <1>3, <2>1, <2>2 DEF ListsKept
<1>6. UsersMatch'
  <2>1. Cardinality(Live') = Cardinality(Live) - 1
    BY <1>3, LiveFinite, FS_RemoveElement
  <2>2. alive' = alive /\ users = Cardinality(Live) + (IF alive THEN 1 ELSE 0)
    BY DEF serverVars, UsersMatch
  <2>3. CASE alive
    BY <1>1, <2>1, <2>2, <2>3, LiveFinite DEF UsersMatch
  <2>4. CASE ~alive
    BY <1>1, <2>1, <2>2, <2>4, LiveFinite DEF UsersMatch
  <2> QED
    BY <2>3, <2>4
<1>7. ReadersKept'
  <2>1. UNCHANGED <<iopc, cur, socketOpen, connected, reader>>
    BY DEF ioVars, sockVars, readVars
  <2>2. \A d \in Conns : reader'[d] \in {"reading", "sending"} =>
          state'[d] = "live" /\ socketOpen'[d]
    <3>1. ASSUME NEW d \in Conns, reader[d] \in {"reading", "sending"}
          PROVE  d # c /\ state[d] = "live" /\ socketOpen[d]
      BY <3>1 DEF ReadersKept
    <3> QED
      BY <1>2, <2>1, <3>1
  <2>3. \A d \in Conns : state'[d] = "live" /\ ~connected'[d] =>
          \/ iopc' = "construct" /\ cur' = d
          \/ reader'[d] \in {"none", "ended"} /\ ~socketOpen'[d]
    <3>1. \A d \in Conns : state'[d] = "live" => state[d] = "live"
      BY <1>2
    <3> QED
      BY <2>1, <3>1 DEF ReadersKept
  <2> QED
    BY <2>2, <2>3 DEF ReadersKept
<1> QED
  BY <1>4, <1>5, <1>6, <1>7

LEMMA KeptByRemoveOfAll == ASSUME Shape, Kept, RemoveOfAll PROVE Kept'
<1>1. target \in Conns /\ state[target] = "live" /\ ~socketOpen[target]
      /\ reader[target] \in {"none", "ended"}
  BY DEF RemoveOfAll, Kept, ReadersKept, Shape, TypeOK
<1>2. ToSet(todo') \subseteq ToSet(todo)
  BY TailSet DEF RemoveOfAll, Shape, TypeOK, TodoKept
<1>3. Delete(target) /\ gpc = "remove" /\ gpc' = "all"
      /\ UNCHANGED <<ioVars, serverVars, sockVars, readVars>>
  BY DEF RemoveOfAll
<1> QED
  BY <1>1, <1>2, <1>3, KeptByDelete

LEMMA KeptByDestroy == ASSUME Shape, Kept, NEW c \in Conns, DestroyConnection(c) PROVE Kept'
<1>1. state[c] = "live" /\ ~socketOpen[c] /\ gpc = "idle" /\ gpc' = "idle" /\ todo' = todo
      /\ UNCHANGED <<ioVars, serverVars, sockVars, readVars>>
  BY DEF DestroyConnection, Kept, ListsKept, Live, Idle, gameVars
<1>2. CASE Delete(c)
  <2>1. reader[c] \in {"none", "ended"}
    BY <1>1 DEF Kept, ReadersKept, Shape, TypeOK
  <2> QED
    BY <1>1, <1>2, <2>1, KeptByDelete
<1>3. CASE UNCHANGED listVars
  BY <1>1, <1>3 DEF DestroyConnection, Kept, Ordered, ListsKept, ReadersKept, UsersMatch, Born,
     Live, BeingBuilt, ioVars, serverVars, listVars, sockVars, readVars, gameVars
<1> QED
  BY <1>2, <1>3 DEF DestroyConnection

\* A new connection has the next number, so no list can have it.
LEMMA KeptByConstruct == ASSUME Shape, Kept, NEW c \in Conns, Construct(c) PROVE Kept'
<1> USE DEF Kept
<1>1. /\ state' = [state EXCEPT ![c] = "live"] /\ registry' = registry \cup {c}
      /\ users' = users + 1 /\ cur' = c /\ iopc' = "construct"
      /\ socketOpen' = [socketOpen EXCEPT ![c] = TRUE]
      /\ reader' = [reader EXCEPT ![c] = "reading"]
      /\ UNCHANGED <<gpc, target, todo, connections, alive>>
      /\ c = Cardinality(Born) + 1
  BY DEF Construct, gameVars, serverVars
<1>2. c \notin Born
  BY <1>1 DEF Ordered
<1>3. state[c] = "unborn"
  BY <1>2 DEF Born
<1>4. /\ state'[c] = "live" /\ \A d \in Conns \ {c} : state'[d] = state[d]
  BY <1>1 DEF Shape, TypeOK
<1>5. Born' = Born \cup {c} /\ Live' = Live \cup {c} /\ c \notin Live
  BY <1>3, <1>4 DEF Born, Live
<1>6. Ordered'
  <2>1. Born' = 1..Cardinality(Born) + 1
    BY <1>1, <1>5 DEF Ordered
  <2>2. Cardinality(1..Cardinality(Born) + 1) = Cardinality(Born) + 1
    BY FS_Interval DEF Ordered
  <2> QED
    BY <2>1, <2>2 DEF Ordered
<1>7. ListsKept'
  <2>1. BeingBuilt' = {c}
    BY <1>1 DEF BeingBuilt
  <2> QED
    BY <1>1, <1>2, <1>5, <2>1 DEF ListsKept
<1>8. UsersMatch'
  <2>1. Cardinality(Live') = Cardinality(Live) + 1
    BY <1>5, LiveFinite, FS_AddElement
  <2>2. CASE alive
    BY <1>1, <2>1, <2>2, LiveFinite DEF UsersMatch
  <2>3. CASE ~alive
    BY <1>1, <2>1, <2>3, LiveFinite DEF UsersMatch
  <2> QED
    BY <2>2, <2>3
<1>9. ReadersKept'
  <2>1. iopc = "idle" /\ \E b \in BOOLEAN : connected' = [connected EXCEPT ![c] = b]
    BY DEF Construct
  <2>2. gpc \in {"join", "remove"} => target # c
    BY <1>3 DEF ReadersKept
  <2>3. \A d \in Conns \ {c} : connected'[d] = connected[d] /\ socketOpen'[d] = socketOpen[d]
                               /\ reader'[d] = reader[d]
    BY <1>1, <2>1 DEF Shape, TypeOK
  <2>4. socketOpen'[c] /\ reader'[c] = "reading"
    BY <1>1 DEF Shape, TypeOK
  <2> QED
    BY <1>1, <1>4, <2>1, <2>2, <2>3, <2>4 DEF ReadersKept, Shape, TypeOK
<1> QED
  BY <1>6, <1>7, <1>8, <1>9

\* The connection at hand enters the list once its constructor has ended.
LEMMA KeptByPush == ASSUME Shape, Kept, Push PROVE Kept'
<1> USE DEF Kept
<1>1. UNCHANGED <<gameVars, cur, serverVars, registry, users, state, sockVars, readVars>>
      /\ iopc = "push"
  BY DEF Push, UsesServer, ioVars, listVars
<1>2. Born' = Born /\ Live' = Live
  BY <1>1 DEF Born, Live
<1>3. Ordered' /\ UsersMatch'
  BY <1>1, <1>2 DEF Ordered, UsersMatch, serverVars
<1>4. ReadersKept'
  BY <1>1 DEF Push, UsesServer, ReadersKept, gameVars, sockVars, readVars, ioVars
<1>5. ListsKept'
  <2>1. CASE ~alive
    BY <1>1, <1>2, <2>1
       DEF Push, UsesServer, ListsKept, BeingBuilt, ioVars, listVars, gameVars
  <2>2. CASE alive
    <3>1. connections' = Append(connections, cur) /\ iopc' = "name"
      BY <2>2 DEF Push, UsesServer
    <3>2. BeingBuilt = {cur} /\ BeingBuilt' = {}
      BY <1>1, <3>1 DEF BeingBuilt, Shape, TypeOK
    <3>3. ToSet(connections') = ToSet(connections) \cup {cur}
      BY <3>1, AppendSet DEF Shape, TypeOK
    <3> QED
      BY <1>1, <1>2, <3>2, <3>3 DEF ListsKept, gameVars
  <2> QED
    BY <2>1, <2>2
<1> QED
  BY <1>3, <1>4, <1>5

LEMMA NextKept == ASSUME Shape, Kept, [Next]_vars PROVE Kept'
  BY KeptByMost, KeptByNextOfAll, KeptByDisconnect, KeptByRemoveOfAll, KeptByDestroy,
     KeptByConstruct, KeptByPush
     DEF Next, Continue, Handler

-----------------------------------------------------------------------------
(* What holds whatever the scripts do *)

IInv == Shape /\ Chains /\ Kept

LEMMA Inductive == /\ Init => IInv
                   /\ IInv /\ [Next]_vars => IInv'
<1>1. Init => IInv
  BY InitShape, InitChains, InitKept DEF IInv
<1>2. ASSUME IInv, [Next]_vars PROVE IInv'
  <2>1. Shape' /\ Kept'
    BY <1>2, NextShape, NextKept DEF IInv
  <2>2. Chains'
    <3>1. CASE UNCHANGED vars
      BY <1>2, <3>1 DEF IInv, Chains, AtWork, vars, ioVars, serverVars, acceptVars
    <3>2. CASE Next
      BY <1>2, <3>2, ChainsCommands, ChainsAccepts DEF IInv, Next
    <3> QED
      BY <1>2, <3>1, <3>2
  <2> QED
    BY <2>1, <2>2 DEF IInv
<1> QED
  BY <1>1, <1>2

\* Every variable keeps its type, and Arma's buffer its capacity.
THEOREM TypeCorrect == Spec => []TypeOK
<1>1. IInv => TypeOK
  BY DEF IInv, Shape
<1> QED
  BY <1>1, Inductive, PTL DEF Spec

\* No chain of accepts breaks off or forks: until the scripts stop listening, each listen
\* command has its accept waiting, due, in its handler, or reported as failed.
THEOREM ChainsAlwaysKept == Spec => []ChainsKept
<1>1. IInv => ChainsKept
  BY DEF IInv, Chains, AtWork, ChainsKept
<1> QED
  BY <1>1, Inductive, PTL DEF Spec

\* A read thread never outlives its connection, whatever the scripts do and whenever
\* connections are deleted: nothing is deleted whose thread was not waited for.
THEOREM ReadersAlwaysLive == Spec => []ReadersLive
<1>1. IInv => ReadersLive
  BY DEF IInv, Kept, ReadersKept, ReadersLive, Reading, Live
<1> QED
  BY <1>1, Inductive, PTL DEF Spec

\* The server and its connections are counted as users of the io thread exactly once
\* each, whatever the scripts do.
THEOREM UsersAlwaysMatch == Spec => []UsersMatch
<1>1. IInv => UsersMatch
  BY DEF IInv, Kept
<1> QED
  BY <1>1, Inductive, PTL DEF Spec

-----------------------------------------------------------------------------
(* Scripts that wait for announcements *)

\* The connections scripts act on, now or after the callbacks that wait for them.
Told == known \cup News

\* Lists name live connections once, and the server's list misses none but the one whose
\* constructor is at work.
ListsTidy ==
  /\ ToSet(connections) \subseteq Live /\ IsInjective(connections)
  /\ ToSet(todo) \subseteq Live /\ IsInjective(todo)
  /\ Live \subseteq ToSet(connections) \cup BeingBuilt

\* Until a connection is listed no command can reach it, so it lives; and a deleted server
\* left no connection behind, nor, unless it was destroyed in haste, an accept.
HandlersTidy ==
  /\ BeingBuilt \subseteq Live \ (Told \cup ToSet(todo))
  /\ BeingAccepted \subseteq Born \ Told /\ Told \subseteq Born
  /\ ~alive => connections = <<>>
  /\ ~alive /\ ~hasty => ~acceptorOpen /\ Quiet

Tidy == OnlyHandlersMeetDeleted /\ ListsTidy /\ HandlersTidy

LEMMA InitTidy == Init => Tidy
<1> SUFFICES ASSUME Init PROVE Tidy
  OBVIOUS
<1>1. ToSet(<<>>) = {} /\ IsInjective(<<>>)
  BY DEF ToSet, IsInjective
<1>2. Live = {} /\ Told = {} /\ BeingAccepted = {} /\ BeingBuilt = {} /\ alive
  BY <1>1 DEF Init, Live, Told, News, BeingAccepted, BeingBuilt
<1>3. connections = <<>> /\ todo = <<>> /\ fault = "none"
  BY DEF Init
<1> QED
  BY <1>1, <1>2, <1>3 DEF Tidy, ListsTidy, HandlersTidy, OnlyHandlersMeetDeleted

\* A step that leaves the server's list and the connections alone.
LEMMA TidyFrame ==
  ASSUME Kept, Tidy, OnlyHandlersMeetDeleted', UNCHANGED <<connections, state>>,
         Told' \subseteq Told, todo' = todo \/ todo' = connections,
         BeingAccepted' \subseteq BeingAccepted, BeingBuilt' = BeingBuilt,
         ~alive' => connections = <<>>,
         ~alive' /\ ~hasty' => ~acceptorOpen' /\ Quiet'
  PROVE  Tidy'
<1>1. Born' = Born /\ Live' = Live
  BY DEF Born, Live
<1>2. ToSet(connections) \cap BeingBuilt = {}
  BY DEF Kept, ListsKept
<1> QED
  BY <1>1, <1>2 DEF Tidy, ListsTidy, HandlersTidy

\* A step that meets nothing deleted.
LEMMA NoFault == ASSUME fault = "none", fault' = fault PROVE OnlyHandlersMeetDeleted'
  BY DEF OnlyHandlersMeetDeleted

\* What scripts are told changes only with the callback buffer.
LEMMA ToldKept == ASSUME UNCHANGED armaVars PROVE Told' = Told
  BY DEF Told, News, armaVars

LEMMA ToldByHandling ==
  ASSUME Shape, WaitForAnnouncement, HandleCallback PROVE Told' \subseteq Told
<1> DEFINE e == Head(inbox)
<1>1. e \in Entry /\ e \in ToSet(inbox) /\ ToSet(inbox') \subseteq ToSet(inbox)
  BY TailSet DEF HandleCallback, Shape, TypeOK
<1>2. CASE known' = known
  BY <1>1, <1>2 DEF Told, News
<1>3. CASE known' # known
  <2>1. known' = known \cup {e[2]} /\ e # <<"FAILURE">> /\ e[1] # "data_read"
    BY <1>3 DEF HandleCallback
  <2>2. PICK c \in Conns : e = <<"new_tcp_connection", c>>
    BY <1>1, <2>1 DEF Entry
  <2>3. known' = known \cup {c} /\ <<"new_tcp_connection", c>> \in ToSet(inbox)
    BY <1>1, <2>1, <2>2
  <2> QED
    BY <1>1, <2>3 DEF Told, News
<1> QED
  BY <1>2, <1>3

\* Only an announcement tells the scripts of a connection.
LEMMA ToldByCallback ==
  ASSUME Shape, NEW e \in Entry, inbox' = Append(inbox, e), known' = known
  PROVE  Told' \subseteq IF e[1] = "new_tcp_connection" THEN Told \cup {e[2]} ELSE Told
<1>1. ToSet(inbox') = ToSet(inbox) \cup {e}
  BY AppendSet DEF Shape, TypeOK
<1>2. ASSUME NEW c \in Told' PROVE c \in Told \/ e = <<"new_tcp_connection", c>>
  BY <1>1 DEF Told, News
<1> QED
  BY <1>2

\* The connection of a command or of disconnectAll's copy is listed, so the server lives.
LEMMA ListedServer ==
  ASSUME Tidy, NEW c \in Conns, c \in Live, c \in Told \cup ToSet(todo)
  PROVE  alive /\ c \notin BeingBuilt
<1>1. c \in ToSet(connections) /\ c \notin BeingBuilt
  BY DEF Tidy, ListsTidy, HandlersTidy
<1>2. ToSet(<<>>) = {}
  BY DEF ToSet
<1> QED
  BY <1>1, <1>2 DEF Tidy, HandlersTidy

\* While an accept is due or in its handler, the server is there or was destroyed in
\* haste; and the connection at hand is there until it is listed.
LEMMA HandlerFinds ==
  ASSUME Shape, Tidy
  PROVE  /\ iopc # "idle" \/ failed > 0 \/ ready > 0 \/ accepts > 0 => alive \/ hasty
         /\ iopc \in {"construct", "push"} => cur \in Conns /\ state[cur] = "live"
  BY DEF Shape, TypeOK, Tidy, HandlersTidy, Quiet, BeingBuilt, Live

\* The commands, up to deleting a connection.
LEMMA TidyCommands ==
  ASSUME WaitForAnnouncement, Shape, Kept, Tidy,
         \/ Listen \/ StopListening \/ DisconnectAll \/ HandleCallback \/ EndOfAll \/ JoinReader
         \/ NextOfAll \/ \E c \in Conns : DisconnectConnection(c)
  PROVE  Tidy'
<1>1. Told' \subseteq Told
  <2>1. CASE HandleCallback
    BY <2>1, ToldByHandling
  <2>2. CASE ~HandleCallback
    <3>1. UNCHANGED armaVars
      BY <2>2 DEF Listen, StopListening, DisconnectAll, EndOfAll, JoinReader, NextOfAll,
         DisconnectConnection
    <3> QED
      BY <3>1, ToldKept
  <2> QED
    BY <2>1, <2>2
<1>2. UNCHANGED <<iopc, cur, state, connections, alive, hasty>>
      /\ (todo' = todo \/ todo' = connections)
  BY DEF Listen, StopListening, DisconnectAll, HandleCallback, EndOfAll, JoinReader, NextOfAll,
     DisconnectConnection, gameVars, ioVars, serverVars, listVars
<1>3. BeingAccepted' = BeingAccepted /\ BeingBuilt' = BeingBuilt
  BY <1>2 DEF BeingAccepted, BeingBuilt
<1>4. fault = "none" /\ fault' = fault
  <2>1. CASE NextOfAll
    <3>1. Head(todo) \in ToSet(todo)
      BY <2>1, TailSet DEF NextOfAll, Shape, TypeOK
    <3>2. state[Head(todo)] = "live"
      BY <3>1 DEF Tidy, ListsTidy, Live
    <3> QED
      BY <2>1, <3>2 DEF NextOfAll, Running
  <2>2. CASE ~NextOfAll
    BY <2>2 DEF Listen, StopListening, DisconnectAll, HandleCallback, EndOfAll, JoinReader,
       DisconnectConnection, Idle, Running
  <2> QED
    BY <2>1, <2>2
<1>5. ~alive' => connections = <<>>
  BY <1>2 DEF Tidy, HandlersTidy
<1>6. ~alive' /\ ~hasty' => ~acceptorOpen' /\ Quiet'
  <2>1. CASE alive
    BY <1>2, <2>1
  <2>2. CASE ~alive
    <3>1. ~Listen /\ ~StopListening
      BY <2>2 DEF Listen, StopListening
    <3>2. UNCHANGED <<acceptorOpen, accepts, ready, failed>>
      BY <3>1 DEF DisconnectAll, HandleCallback, EndOfAll, JoinReader, NextOfAll,
         DisconnectConnection, serverVars, acceptVars
    <3> QED
      BY <1>2, <2>2, <3>2 DEF Tidy, HandlersTidy, Quiet
  <2> QED
    BY <2>1, <2>2
<1> QED
  BY <1>1, <1>2, <1>3, <1>4, <1>5, <1>6, NoFault, TidyFrame

LEMMA TidyByDestroyServer == ASSUME Kept, Tidy, DestroyServer PROVE Tidy'
<1>1. UNCHANGED <<iopc, cur, todo, fault, state, connections, armaVars, acceptorOpen, accepts,
                  ready, failed>>
      /\ ~acceptorOpen /\ hasty' = ~Quiet /\ connections = <<>> /\ fault = "none"
  BY DEF DestroyServer, MayDestroy, Idle, Running, gameVars, ioVars, acceptVars
<1>2. BeingAccepted' = BeingAccepted /\ BeingBuilt' = BeingBuilt /\ Told' = Told
  BY <1>1, ToldKept DEF BeingAccepted, BeingBuilt
<1>3. Quiet' = Quiet
  BY <1>1 DEF Quiet
<1> QED
  BY <1>1, <1>2, <1>3, NoFault, TidyFrame

\* A deleted connection leaves all lists.
LEMMA TidyByDelete ==
  ASSUME Shape, Tidy, NEW c \in Conns, c \in Live, ~socketOpen[c], Delete(c), alive,
         c \notin BeingBuilt, c \notin ToSet(todo'), ToSet(todo') \subseteq ToSet(todo),
         IsInjective(todo'), fault = "none", UNCHANGED <<ioVars, fault, serverVars, armaVars>>
  PROVE  Tidy'
<1>1. state' = [state EXCEPT ![c] = "deleted"] /\ connections' = Without(connections, c)
  BY DEF Delete
<1>2. Born' = Born /\ Live' = Live \ {c}
  BY <1>1 DEF Born, Live, Shape, TypeOK
<1>3. ToSet(connections') = ToSet(connections) \ {c} /\ IsInjective(connections')
  BY <1>1, WithoutSet DEF Tidy, ListsTidy, Shape, TypeOK
<1>4. BeingAccepted' = BeingAccepted /\ BeingBuilt' = BeingBuilt
      /\ Told' = Told /\ alive' = alive
  BY ToldKept DEF BeingAccepted, BeingBuilt, ioVars, serverVars
<1> QED
  BY <1>2, <1>3, <1>4, NoFault DEF Tidy, ListsTidy, HandlersTidy

LEMMA TidyByRemoveOfAll == ASSUME Shape, Kept, Tidy, RemoveOfAll PROVE Tidy'
<1>1. /\ target = Head(todo) /\ todo # <<>> /\ todo' = Tail(todo) /\ todo \in Seq(Conns)
      /\ ~socketOpen[target] /\ Delete(target) /\ target \in Conns /\ fault = "none"
      /\ UNCHANGED <<ioVars, fault, serverVars, armaVars>>
  BY DEF RemoveOfAll, Running, Shape, TypeOK, TodoKept, Kept, ReadersKept
<1>2. /\ target \in ToSet(todo) /\ ToSet(todo') \subseteq ToSet(todo)
      /\ target \notin ToSet(todo') /\ IsInjective(todo')
  BY <1>1, TailSet DEF Tidy, ListsTidy
<1>3. target \in Live
  BY <1>2 DEF Tidy, ListsTidy
<1>4. alive /\ target \notin BeingBuilt
  BY <1>1, <1>2, <1>3, ListedServer
<1> QED
  BY <1>1, <1>2, <1>3, <1>4, TidyByDelete

LEMMA TidyByDestroy == ASSUME Shape, Kept, Tidy, NEW c \in Conns, DestroyConnection(c) PROVE Tidy'
<1>1. c \in known /\ c \in Live /\ ~socketOpen[c] /\ gpc = "idle" /\ fault = "none"
      /\ UNCHANGED <<ioVars, serverVars, armaVars, todo>>
  BY DEF DestroyConnection, Kept, ListsKept, Idle, Running, gameVars
<1>2. alive /\ c \notin BeingBuilt
  BY <1>1, ListedServer DEF Told
<1>3. Delete(c) /\ fault' = fault
  BY <1>2 DEF DestroyConnection
<1>4. ToSet(todo) = {} /\ todo = <<>>
  BY <1>1 DEF Shape, TodoKept, ToSet
<1>5. IsInjective(todo)
  BY <1>4 DEF IsInjective
<1> QED
  BY <1>1, <1>2, <1>3, <1>4, <1>5, TidyByDelete

\* A new connection is known to nobody.
LEMMA TidyByConstruct == ASSUME Shape, Kept, Tidy, NEW c \in Conns, Construct(c) PROVE Tidy'
<1>1. /\ state' = [state EXCEPT ![c] = "live"] /\ cur' = c /\ iopc' = "construct"
      /\ UNCHANGED <<fault, todo, connections, alive, hasty>> /\ UNCHANGED armaVars
      /\ c = Cardinality(Born) + 1 /\ iopc = "idle" /\ ready > 0 /\ fault = "none"
  BY DEF Construct, Running, gameVars, serverVars
<1>2. c \notin Born /\ (alive \/ hasty)
  BY <1>1, HandlerFinds DEF Kept, Ordered
<1>3. Born' = Born \cup {c} /\ Live' = Live \cup {c} /\ Live \subseteq Born
  BY <1>1, <1>2 DEF Born, Live, Shape, TypeOK
<1>4. BeingAccepted' = {c} /\ BeingBuilt' = {c} /\ BeingBuilt = {}
  BY <1>1 DEF BeingAccepted, BeingBuilt
<1>5. Told' = Told
  BY <1>1, ToldKept
<1> QED
  BY <1>1, <1>2, <1>3, <1>4, <1>5, NoFault DEF Tidy, ListsTidy, HandlersTidy

LEMMA TidyByPush == ASSUME Shape, Kept, Tidy, Push, alive PROVE Tidy'
<1>1. iopc = "push" /\ cur \in Conns /\ fault = "none"
  BY DEF Push, Running, Shape, TypeOK
<1>2. /\ connections' = Append(connections, cur) /\ iopc' = "name"
      /\ UNCHANGED <<cur, state, fault, todo, alive>> /\ UNCHANGED armaVars
  BY DEF Push, UsesServer, gameVars, serverVars
<1>3. Born' = Born /\ Live' = Live /\ Told' = Told
  BY <1>2, ToldKept DEF Born, Live
<1>4. BeingAccepted = {cur} /\ BeingAccepted' = {cur} /\ BeingBuilt = {cur} /\ BeingBuilt' = {}
  BY <1>1, <1>2 DEF BeingAccepted, BeingBuilt
<1>5. cur \in Live /\ cur \notin ToSet(connections)
  BY <1>4 DEF Tidy, HandlersTidy, Kept, ListsKept
<1>6. ToSet(connections') = ToSet(connections) \cup {cur} /\ IsInjective(connections')
  BY <1>1, <1>2, <1>5, AppendSet DEF Tidy, ListsTidy, Shape, TypeOK
<1> QED
  BY <1>1, <1>2, <1>3, <1>4, <1>5, <1>6, NoFault DEF Tidy, ListsTidy, HandlersTidy

LEMMA TidyByAnnounce == ASSUME Shape, Tidy, Announce PROVE Tidy'
<1>1. /\ iopc = "announce" /\ iopc' = "relisten" /\ cur \in Conns /\ fault = "none"
      /\ inbox' = Append(inbox, <<"new_tcp_connection", cur>>) /\ known' = known
      /\ UNCHANGED <<cur, state, fault, todo, alive, hasty, connections>>
  BY DEF Announce, Running, Shape, TypeOK, gameVars, serverVars, listVars
<1>2. Born' = Born /\ Live' = Live /\ (alive \/ hasty)
  BY <1>1, HandlerFinds DEF Born, Live
<1>3. BeingAccepted = {cur} /\ BeingAccepted' = {} /\ BeingBuilt = {} /\ BeingBuilt' = {}
  BY <1>1 DEF BeingAccepted, BeingBuilt
<1>4. cur \in Born
  BY <1>3 DEF Tidy, HandlersTidy
<1>5. Told' \subseteq Told \cup {cur}
  <2> DEFINE e == <<"new_tcp_connection", cur>>
  <2>1. e \in Entry /\ e[1] = "new_tcp_connection" /\ e[2] = cur
    BY <1>1 DEF Entry
  <2> QED
    BY <1>1, <2>1, ToldByCallback
<1> QED
  BY <1>1, <1>2, <1>3, <1>4, <1>5, NoFault DEF Tidy, ListsTidy, HandlersTidy

\* The other steps of the handler, clients and read threads.  Those that may meet a
\* deleted object do so where OnlyHandlersMeetDeleted says.
LEMMA TidyByOthers ==
  ASSUME Shape, Kept, Tidy,
         \/ Arrive \/ FailedAccept \/ Report \/ SetConnected \/ (Push /\ ~alive) \/ Name
         \/ Relisten \/ AsyncAccept \/ \E c \in Conns : ReadThread(c)
  PROVE  Tidy'
<1>1. Told' \subseteq Told
  <2>1. CASE Report
    <3>1. <<"FAILURE">> \in Entry /\ <<"FAILURE">>[1] = "FAILURE"
      BY DEF Entry
    <3> QED
      BY <2>1, <3>1, ToldByCallback DEF Report
  <2>2. ASSUME NEW c \in Conns, SendData(c) PROVE Told' \subseteq Told
    <3> DEFINE e == <<"data_read", c>>
    <3>1. e \in Entry /\ e[1] = "data_read"
      BY DEF Entry
    <3> QED
      BY <2>2, <3>1, ToldByCallback DEF SendData
  <2>3. CASE ~Report /\ \A c \in Conns : ~SendData(c)
    <3>1. UNCHANGED armaVars
      BY <2>3 DEF Arrive, FailedAccept, SetConnected, Push, Name, Relisten, AsyncAccept,
         ReadThread, ReadData, EndReader
    <3> QED
      BY <3>1, ToldKept
  <2> QED
    BY <2>1, <2>2, <2>3
<1>2. UNCHANGED <<todo, state, connections, alive, hasty, acceptorOpen, cur>>
  BY DEF Arrive, FailedAccept, Report, SetConnected, Push, Name, Relisten, AsyncAccept, ReadThread,
     ReadData, SendData, EndReader, UsesServer, UsesConnection, gameVars, ioVars, serverVars,
     listVars
<1>3. BeingAccepted' = BeingAccepted /\ BeingBuilt' = BeingBuilt
  <2>1. \/ iopc' = iopc
        \/ iopc = "construct" /\ iopc' = "push"
        \/ iopc = "name" /\ iopc' = "announce"
        \/ /\ iopc \in {"idle", "report", "relisten", "accept"}
           /\ iopc' \in {"idle", "report", "relisten", "accept"}
    BY DEF Arrive, FailedAccept, Report, SetConnected, Push, Name, Relisten, AsyncAccept,
       ReadThread, ReadData, SendData, EndReader, UsesServer, UsesConnection, ioVars
  <2> QED
    BY <1>2, <2>1 DEF BeingAccepted, BeingBuilt
<1>4. OnlyHandlersMeetDeleted'
  <2>1. CASE \E c \in Conns : ReadThread(c)
    BY <2>1, NoFault DEF ReadThread, ReadData, SendData, EndReader, Running
  <2>2. CASE Arrive \/ Report
    BY <2>2, NoFault DEF Arrive, Report, Running
  <2>3. CASE SetConnected
    BY <2>3, HandlerFinds, NoFault DEF SetConnected, UsesConnection, Running
  <2>4. CASE FailedAccept \/ Push \/ Relisten \/ AsyncAccept
    <3>1. alive \/ hasty'
      BY <1>2, <2>4, HandlerFinds DEF FailedAccept, Push, Relisten, AsyncAccept
    <3>2. fault = "none" /\ fault' = IF alive THEN "none" ELSE "server"
      BY <2>4 DEF FailedAccept, Push, Relisten, AsyncAccept, UsesServer, Running
    <3> QED
      BY <3>1, <3>2 DEF OnlyHandlersMeetDeleted
  <2>5. CASE Name
    <3>1. alive \/ hasty'
      BY <1>2, <2>5, HandlerFinds DEF Name
    <3>2. \/ fault' = "none"
          \/ fault' = "connection" /\ iopc' = "name"
          \/ fault' = "server" /\ ~alive
      BY <2>5 DEF Name, UsesConnection, Running
    <3> QED
      BY <3>1, <3>2 DEF OnlyHandlersMeetDeleted
  <2> QED
    BY <2>1, <2>2, <2>3, <2>4, <2>5
<1>5. ~alive' => connections = <<>>
  BY <1>2 DEF Tidy, HandlersTidy
<1>6. ~alive' /\ ~hasty' => ~acceptorOpen' /\ Quiet'
  <2> SUFFICES ASSUME ~alive, ~hasty PROVE ~acceptorOpen' /\ Quiet'
    BY <1>2
  <2>1. \E c \in Conns : ReadThread(c)
    BY HandlerFinds DEF Arrive, FailedAccept, Report, SetConnected, Push, Name, Relisten,
       AsyncAccept
  <2>2. UNCHANGED <<iopc, accepts, ready, failed>>
    BY <2>1 DEF ReadThread, ReadData, SendData, EndReader, ioVars, acceptVars
  <2> QED
    BY <1>2, <2>2 DEF Tidy, HandlersTidy, Quiet
<1> QED
  BY <1>1, <1>2, <1>3, <1>4, <1>5, <1>6, TidyFrame

LEMMA TidyStutter == ASSUME Tidy, UNCHANGED vars PROVE Tidy'
  BY DEF Tidy, OnlyHandlersMeetDeleted, ListsTidy, HandlersTidy, Quiet, Born, Live, BeingAccepted,
     BeingBuilt, Told, News, vars, gameVars, ioVars, serverVars, acceptVars, listVars, armaVars

LEMMA NextTidy == ASSUME WaitForAnnouncement, Shape, Kept, Tidy, [Next]_vars PROVE Tidy'
  BY TidyCommands, TidyByDestroyServer, TidyByRemoveOfAll, TidyByDestroy, TidyByConstruct,
     TidyByPush, TidyByAnnounce, TidyByOthers, TidyStutter
     DEF Next, Continue, Handler

LEMMA InductiveTidy ==
  ASSUME WaitForAnnouncement
  PROVE  /\ Init => IInv /\ Tidy
         /\ (IInv /\ Tidy) /\ [Next]_vars => (IInv /\ Tidy)'
  BY Inductive, InitTidy, NextTidy DEF IInv

\* If scripts act on a connection only once it was announced, then whenever commands and
\* handlers come, no command uses what was deleted, and a handler does only where
\* disconnectAll came between listing a connection and taking its name, or destroy came
\* with an accept due or in its handler.
THEOREM DeletionSafeButForTwoWindows ==
  ASSUME WaitForAnnouncement PROVE Spec => []OnlyHandlersMeetDeleted
<1>1. IInv /\ Tidy => OnlyHandlersMeetDeleted
  BY DEF Tidy
<1> QED
  BY <1>1, InductiveTidy, PTL DEF Spec

\* For the same scripts the server's list, commMethods and the live connections agree,
\* with no connection listed twice, but for one whose handler has not listed it yet.
THEOREM ListAlwaysMatches ==
  ASSUME WaitForAnnouncement PROVE Spec => []ListMatchesRegistry
<1>1. IInv /\ Tidy => ListMatchesRegistry
  BY DEF IInv, Kept, ListsKept, Tidy, ListsTidy, ListMatchesRegistry, ListedAreLive, BeingBuilt
<1> QED
  BY <1>1, InductiveTidy, PTL DEF Spec

-----------------------------------------------------------------------------
(* The server implements the life of its connections *)

\* No connection is announced twice.
AnnouncedOnce ==
  \A i, j \in 1..Len(inbox) :
    inbox[i] = inbox[j] /\ inbox[i][1] = "new_tcp_connection" => i = j

\* A callback that is no second announcement.
LEMMA OnceByCallback ==
  ASSUME Shape, AnnouncedOnce, NEW e \in Entry, inbox' = Append(inbox, e),
         e[1] = "new_tcp_connection" => e \notin ToSet(inbox)
  PROVE  AnnouncedOnce'
<1>1. /\ Len(inbox) \in Nat /\ Len(inbox') = Len(inbox) + 1 /\ inbox'[Len(inbox) + 1] = e
      /\ \A i \in 1..Len(inbox) : inbox'[i] = inbox[i]
  BY DEF Shape, TypeOK
<1>2. e[1] = "new_tcp_connection" => \A i \in 1..Len(inbox) : inbox[i] # e
  BY DEF ToSet, Shape, TypeOK
<1> QED
  BY <1>1, <1>2 DEF AnnouncedOnce

LEMMA NextOnce == ASSUME Shape, Tidy, AnnouncedOnce, [Next]_vars PROVE AnnouncedOnce'
<1>1. CASE HandleCallback
  <2>1. /\ Len(inbox) \in Nat \ {0} /\ Len(inbox') = Len(inbox) - 1
        /\ \A i \in 1..Len(inbox) - 1 : inbox'[i] = inbox[i + 1]
    BY <1>1 DEF HandleCallback, Shape, TypeOK
  <2> QED
    BY <2>1 DEF AnnouncedOnce
<1>2. CASE Announce
  <2> DEFINE e == <<"new_tcp_connection", cur>>
  <2>1. cur \in Conns /\ e \in Entry
    BY DEF Shape, TypeOK, Entry
  <2>2. cur \notin Told
    BY <1>2 DEF Announce, BeingAccepted, Tidy, HandlersTidy
  <2>3. e \notin ToSet(inbox)
    BY <2>1, <2>2 DEF Told, News
  <2>4. inbox' = Append(inbox, e)
    BY <1>2 DEF Announce
  <2> QED
    BY <2>1, <2>3, <2>4, OnceByCallback
<1>3. CASE Report
  <2>1. <<"FAILURE">> \in Entry /\ <<"FAILURE">>[1] = "FAILURE"
    BY DEF Entry
  <2> QED
    BY <1>3, <2>1, OnceByCallback DEF Report
<1>4. ASSUME NEW c \in Conns, SendData(c) PROVE AnnouncedOnce'
  <2> DEFINE e == <<"data_read", c>>
  <2>1. e \in Entry /\ e[1] = "data_read"
    BY DEF Entry
  <2> QED
    BY <1>4, <2>1, OnceByCallback DEF SendData
<1>5. CASE UNCHANGED inbox
  BY <1>5 DEF AnnouncedOnce
<1>6. \/ HandleCallback \/ Announce \/ Report \/ UNCHANGED inbox
      \/ \E c \in Conns : SendData(c)
  BY DEF Next, Listen, StopListening, DisconnectAll, DestroyServer, Continue, NextOfAll, EndOfAll,
     JoinReader, RemoveOfAll, Handler, FailedAccept, SetConnected, Push, Name, Relisten,
     AsyncAccept, Construct, Arrive, DisconnectConnection, DestroyConnection, ReadThread, ReadData,
     EndReader, vars, armaVars
<1> QED
  BY <1>1, <1>2, <1>3, <1>4, <1>5, <1>6

\* The next announcement in the buffer is the only one of its connection.
LEMMA NewsHandled ==
  ASSUME Shape, AnnouncedOnce, HandleCallback
  PROVE  \E c \in Conns : News' = News \/ (c \in News /\ News' = News \ {c})
<1> DEFINE n == Len(inbox)
<1>1. /\ n \in Nat \ {0} /\ DOMAIN inbox = 1..n /\ DOMAIN inbox' = 1..n - 1
      /\ \A i \in 1..n - 1 : inbox'[i] = inbox[i + 1]
      /\ inbox[1] \in Entry
  BY DEF HandleCallback, Shape, TypeOK
<1> HIDE DEF n
<1>2. /\ \A e : e \in ToSet(inbox) <=> \E i \in 1..n : e = inbox[i]
      /\ \A e : e \in ToSet(inbox') <=> \E i \in 1..n - 1 : e = inbox'[i]
  BY <1>1, Zenon DEF ToSet
<1>3. ToSet(inbox) = ToSet(inbox') \cup {inbox[1]}
  <2>1. ASSUME NEW i \in 1..n, i # 1 PROVE inbox[i] \in ToSet(inbox')
    <3>1. i - 1 \in 1..n - 1 /\ i = (i - 1) + 1
      BY <1>1, <2>1
    <3>2. inbox'[i - 1] = inbox[i]
      BY <1>1, <3>1
    <3> QED
      BY <1>2, <3>1, <3>2
  <2>2. ASSUME NEW i \in 1..n - 1 PROVE inbox'[i] \in ToSet(inbox)
    <3>1. i + 1 \in 1..n /\ inbox'[i] = inbox[i + 1]
      BY <1>1
    <3> QED
      BY <1>2, <3>1
  <2>3. inbox[1] \in ToSet(inbox)
    BY <1>1, <1>2
  <2> QED
    BY <1>2, <2>1, <2>2, <2>3
<1>4. CASE inbox[1][1] # "new_tcp_connection"
  <2>1. \A c \in Conns : inbox[1] # <<"new_tcp_connection", c>>
    BY <1>4
  <2>2. News' = News
    BY <1>3, <2>1 DEF News
  <2>3. 1 \in Conns
    BY DEF Conns
  <2> QED
    BY <2>2, <2>3
<1>5. CASE inbox[1][1] = "new_tcp_connection"
  <2>1. PICK c \in Conns : inbox[1] = <<"new_tcp_connection", c>>
    BY <1>1, <1>5 DEF Entry
  <2>2. inbox[1] \notin ToSet(inbox')
    <3>1. ASSUME NEW i \in 1..n - 1 PROVE inbox'[i] # inbox[1]
      <4>1. i + 1 \in 1..n /\ 1 \in 1..n /\ i + 1 # 1 /\ inbox'[i] = inbox[i + 1]
        BY <1>1
      <4> QED
        BY <1>5, <4>1 DEF AnnouncedOnce, n
    <3> QED
      BY <1>2, <3>1
  <2>3. c \in News /\ News' = News \ {c}
    BY <1>3, <2>1, <2>2 DEF News
  <2> QED
    BY <2>3
<1> QED
  BY <1>4, <1>5

LEMMA NewsByCallback ==
  ASSUME Shape, NEW e \in Entry, inbox' = Append(inbox, e)
  PROVE  News' = News \cup {c \in Conns : e = <<"new_tcp_connection", c>>}
<1>1. ToSet(inbox') = ToSet(inbox) \cup {e}
  BY AppendSet DEF Shape, TypeOK
<1> QED
  BY <1>1, Zenon DEF News

\* Most steps leave every connection where it is in its life.
LEMMA Stutters ==
  ASSUME Shape, Tidy,
         \/ Listen \/ DisconnectAll \/ DestroyServer \/ NextOfAll \/ EndOfAll \/ JoinReader
         \/ FailedAccept \/ Report \/ SetConnected \/ (Push /\ ~alive) \/ Name \/ Relisten
         \/ AsyncAccept \/ (Arrive /\ ready' = ready) \/ UNCHANGED vars
         \/ \E c \in Conns : DisconnectConnection(c) \/ ReadThread(c)
  PROVE  UNCHANGED Life!vars
<1>1. UNCHANGED <<state, cur, acceptorOpen, ready>>
  BY DEF Listen, DisconnectAll, DestroyServer, NextOfAll, EndOfAll, JoinReader, Arrive,
     FailedAccept, Report, SetConnected, Push, Name, Relisten, AsyncAccept, DisconnectConnection,
     ReadThread, ReadData, SendData, EndReader, UsesServer, UsesConnection, vars, ioVars,
     serverVars, acceptVars, listVars
<1>2. \/ iopc' = iopc
      \/ iopc = "construct" /\ iopc' = "push"
      \/ iopc = "name" /\ iopc' = "announce"
      \/ /\ iopc \in {"idle", "report", "relisten", "accept"}
         /\ iopc' \in {"idle", "report", "relisten", "accept"}
  BY DEF Listen, DisconnectAll, DestroyServer, NextOfAll, EndOfAll, JoinReader, Arrive,
     FailedAccept, Report, SetConnected, Push, Name, Relisten, AsyncAccept, DisconnectConnection,
     ReadThread, ReadData, SendData, EndReader, UsesServer, UsesConnection, vars, ioVars
<1>3. BeingAccepted' = BeingAccepted /\ Phase' = Phase
  BY <1>1, <1>2 DEF BeingAccepted, Phase
<1>4. (Born \ BeingAccepted)' = Born \ BeingAccepted
  BY <1>1, <1>3 DEF Born
<1>5. News' = News
  <2>1. CASE Report
    <3>1. <<"FAILURE">> \in Entry /\ \A c \in Conns : <<"FAILURE">> # <<"new_tcp_connection", c>>
      BY DEF Entry
    <3> QED
      BY <2>1, <3>1, NewsByCallback DEF Report
  <2>2. ASSUME NEW c \in Conns, SendData(c) PROVE News' = News
    <3> DEFINE e == <<"data_read", c>>
    <3>1. e \in Entry /\ \A d \in Conns : e # <<"new_tcp_connection", d>>
      BY DEF Entry
    <3>2. inbox' = Append(inbox, e)
      BY <2>2 DEF SendData
    <3> HIDE DEF e
    <3> QED
      BY <3>1, <3>2, NewsByCallback
  <2>3. CASE ~Report /\ \A c \in Conns : ~SendData(c)
    <3>1. UNCHANGED armaVars
      BY <2>3 DEF Listen, DisconnectAll, DestroyServer, NextOfAll, EndOfAll, JoinReader, Arrive,
         FailedAccept, SetConnected, Push, Name, Relisten, AsyncAccept, DisconnectConnection,
         ReadThread, ReadData, EndReader, vars
    <3> QED
      BY <3>1 DEF News, armaVars
  <2> QED
    BY <2>1, <2>2, <2>3
<1> QED
  BY <1>1, <1>3, <1>4, <1>5 DEF Life!vars

\* The steps that let clients in, and the one that ends it.
LEMMA Arrives == ASSUME Shape, Chains, Arrive, ready' # ready PROVE Life!Arrive
<1>1. ready' = ready + 1 /\ acceptorOpen
      /\ UNCHANGED <<state, cur, iopc, inbox, acceptorOpen>>
  BY DEF Arrive, Chains, listVars, ioVars, armaVars, serverVars
<1>2. Phase' = Phase /\ News' = News /\ BeingAccepted' = BeingAccepted /\ Born' = Born
  BY <1>1 DEF Phase, News, BeingAccepted, Born
<1> QED
  BY <1>1, <1>2 DEF Life!Arrive

LEMMA Closes == ASSUME StopListening PROVE Life!Close
<1>1. acceptorOpen /\ ~acceptorOpen' /\ UNCHANGED <<state, cur, iopc, inbox, ready>>
  BY DEF StopListening, listVars, ioVars, armaVars
<1>2. acceptorOpen' = FALSE
  BY DEF StopListening
<1>3. Phase' = Phase /\ News' = News /\ BeingAccepted' = BeingAccepted /\ Born' = Born
  BY <1>1 DEF Phase, News, BeingAccepted, Born
<1> QED
  BY <1>1, <1>2, <1>3 DEF Life!Close

\* The steps that move a connection on.
LEMMA Accepts == ASSUME Shape, Kept, NEW c \in Conns, Construct(c) PROVE Life!Accept(c)
<1>1. /\ state' = [state EXCEPT ![c] = "live"] /\ cur' = c /\ iopc' = "construct"
      /\ inbox' = inbox /\ c = Cardinality(Born) + 1 /\ iopc = "idle"
      /\ ready > 0 /\ ready' = ready - 1 /\ acceptorOpen' = acceptorOpen
  BY DEF Construct, armaVars, serverVars
<1>2. c \notin Born /\ state[c] = "unborn"
  BY <1>1 DEF Kept, Ordered, Born
<1>3. BeingAccepted = {} /\ BeingAccepted' = {c} /\ Born' = Born \cup {c}
  BY <1>1 DEF BeingAccepted, Born, Shape, TypeOK
<1>4. Phase[c] = "unborn" /\ Phase' = [Phase EXCEPT ![c] = "accepted"]
  BY <1>1, <1>2 DEF Phase, Shape, TypeOK
<1>5. \A d \in Conns : Phase[d] # "unborn" => d \in Born \ BeingAccepted
  BY <1>3 DEF Phase, Born
<1>6. News' = News /\ (Born \ BeingAccepted)' = Born \ BeingAccepted
  BY <1>1, <1>2, <1>3 DEF News
<1> QED
  BY <1>1, <1>4, <1>5, <1>6 DEF Life!Accept, Life!Step

LEMMA Lists == ASSUME Shape, Tidy, Push, alive PROVE Life!List(cur)
<1>1. /\ iopc = "push" /\ iopc' = "name" /\ cur \in Conns
      /\ UNCHANGED <<state, cur, inbox, acceptorOpen, ready>>
  BY DEF Push, UsesServer, Shape, TypeOK, serverVars, acceptVars, armaVars
<1>2. state[cur] = "live"
  BY <1>1, HandlerFinds
<1>3. Phase[cur] = "accepted" /\ Phase' = [Phase EXCEPT ![cur] = "listed"]
  BY <1>1, <1>2 DEF Phase
<1>4. BeingAccepted' = BeingAccepted /\ Born' = Born /\ News' = News
  BY <1>1 DEF BeingAccepted, Born, News
<1> QED
  BY <1>1, <1>3, <1>4 DEF Life!List, Life!Step

LEMMA Announces == ASSUME Shape, Tidy, Announce PROVE Life!Announce(cur)
<1>1. /\ iopc' = "relisten" /\ iopc = "announce" /\ cur \in Conns
      /\ UNCHANGED <<state, cur, acceptorOpen, ready>>
      /\ inbox' = Append(inbox, <<"new_tcp_connection", cur>>)
  BY DEF Announce, listVars, serverVars, acceptVars, Shape, TypeOK
<1>2. BeingAccepted = {cur} /\ BeingAccepted' = {}
  BY <1>1 DEF BeingAccepted
<1>3. cur \in Born
  BY <1>2 DEF Tidy, HandlersTidy
<1>4. Phase' = Phase /\ Phase[cur] \in {"listed", "gone"}
  BY <1>1, <1>3 DEF Phase, Born
<1>5. Born' = Born
  BY <1>1 DEF Born
<1>6. (Born \ BeingAccepted)' = (Born \ BeingAccepted) \cup {cur}
  BY <1>2, <1>3, <1>5
<1>7. News' = News \cup {cur}
  <2> DEFINE e == <<"new_tcp_connection", cur>>
  <2>1. e \in Entry /\ {c \in Conns : e = <<"new_tcp_connection", c>>} = {cur}
    BY <1>1 DEF Entry
  <2>2. inbox' = Append(inbox, e)
    BY <1>1
  <2> HIDE DEF e
  <2> QED
    BY <2>1, <2>2, NewsByCallback
<1> QED
  BY <1>1, <1>2, <1>4, <1>6, <1>7 DEF Life!Announce

LEMMA Deletes ==
  ASSUME Shape, NEW c \in Conns, c \in Live \ BeingBuilt, Delete(c),
         UNCHANGED <<ioVars, serverVars, acceptVars, armaVars>>
  PROVE  Life!Delete(c)
<1>1. state' = [state EXCEPT ![c] = "deleted"] /\ state[c] = "live"
      /\ UNCHANGED <<iopc, cur, acceptorOpen, ready, inbox>>
  BY DEF Delete, Live, ioVars, serverVars, acceptVars, armaVars
<1>2. ~(iopc \in {"construct", "push"} /\ c = cur)
  BY DEF BeingBuilt
<1>3. Phase[c] = "listed" /\ Phase' = [Phase EXCEPT ![c] = "gone"]
  BY <1>1, <1>2 DEF Phase, Shape, TypeOK
<1>4. News' = News /\ BeingAccepted' = BeingAccepted /\ Born' = Born
  BY <1>1 DEF News, BeingAccepted, Born, Shape, TypeOK
<1> QED
  BY <1>1, <1>3, <1>4 DEF Life!Delete, Life!Step

LEMMA Handles ==
  ASSUME Shape, AnnouncedOnce, HandleCallback
  PROVE  (\E c \in Conns : Life!Handle(c)) \/ UNCHANGED Life!vars
<1>1. UNCHANGED <<state, iopc, cur, acceptorOpen, ready>>
  BY DEF HandleCallback, listVars, ioVars, serverVars, acceptVars
<1>2. Phase' = Phase /\ BeingAccepted' = BeingAccepted /\ Born' = Born
  BY <1>1 DEF Phase, BeingAccepted, Born
<1>3. PICK c \in Conns : News' = News \/ (c \in News /\ News' = News \ {c})
  BY NewsHandled
<1> QED
  BY <1>1, <1>2, <1>3 DEF Life!Handle, Life!vars

LEMMA LifeStep ==
  ASSUME IInv, Tidy, AnnouncedOnce, [Next]_vars
  PROVE  Life!Next \/ UNCHANGED Life!vars
<1> USE DEF IInv
<1>1. CASE HandleCallback
  BY <1>1, Handles DEF Life!Next
<1>2. CASE Announce \/ (Push /\ alive)
  <2>1. cur \in Conns
    BY DEF Shape, TypeOK
  <2> QED
    BY <1>2, <2>1, Announces, Lists DEF Life!Next
<1>3. ASSUME NEW c \in Conns, Construct(c) PROVE Life!Next
  BY <1>3, Accepts DEF Life!Next
<1>4. CASE RemoveOfAll
  <2>1. /\ target \in Conns /\ target \in ToSet(todo) /\ Delete(target)
        /\ UNCHANGED <<ioVars, serverVars, acceptVars, armaVars>>
    BY <1>4, TailSet DEF RemoveOfAll, Shape, TypeOK, TodoKept
  <2>2. target \in Live \ BeingBuilt
    BY <2>1 DEF Tidy, ListsTidy, HandlersTidy
  <2> QED
    BY <2>1, <2>2, Deletes DEF Life!Next
<1>5. ASSUME NEW c \in Conns, DestroyConnection(c) PROVE Life!Next
  <2>1. c \in known /\ c \in Live /\ UNCHANGED <<ioVars, serverVars, acceptVars, armaVars>>
    BY <1>5 DEF DestroyConnection, Kept, ListsKept
  <2>2. alive /\ c \notin BeingBuilt
    BY <2>1, ListedServer DEF Told
  <2>3. Delete(c)
    BY <1>5, <2>2 DEF DestroyConnection
  <2> QED
    BY <2>1, <2>2, <2>3, Deletes DEF Life!Next
<1>6. CASE StopListening \/ (Arrive /\ ready' # ready)
  BY <1>6, Closes, Arrives DEF Life!Next
<1>7. \/ HandleCallback \/ Announce \/ (Push /\ alive) \/ RemoveOfAll \/ StopListening
      \/ (Arrive /\ ready' # ready)
      \/ \E c \in Conns : Construct(c) \/ DestroyConnection(c)
      \/ UNCHANGED Life!vars
  BY Stutters DEF Next, Continue, Handler
<1> QED
  BY <1>1, <1>2, <1>3, <1>4, <1>5, <1>6, <1>7

\* For the same scripts, and whenever their commands come between the steps of a handler,
\* every connection lives as Lifecycle says: clients are let in only until the server
\* stops listening, and each connection is listed, announced once and deleted once.
THEOREM LifecycleImplemented == ASSUME WaitForAnnouncement PROVE Spec => ImplementsLifecycle
<1>1. Init => AnnouncedOnce /\ Life!Init
  <2> SUFFICES ASSUME Init PROVE AnnouncedOnce /\ Life!Init
    OBVIOUS
  <2>1. Born = {} /\ News = {} /\ AnnouncedOnce
    BY DEF Init, Born, News, AnnouncedOnce, ToSet
  <2>2. Phase = [c \in Conns |-> "unborn"]
    BY DEF Init, Phase
  <2>3. acceptorOpen = TRUE /\ ready = 0
    BY DEF Init
  <2> QED
    BY <2>1, <2>2, <2>3 DEF Life!Init
<1>2. AnnouncedOnce /\ (IInv /\ Tidy) /\ [Next]_vars => AnnouncedOnce'
  BY NextOnce DEF IInv
<1>3. AnnouncedOnce /\ (IInv /\ Tidy) /\ [Next]_vars => [Life!Next]_(Life!vars)
  BY LifeStep
<1> QED
  BY <1>1, <1>2, <1>3, InductiveTidy, PTL DEF Spec, ImplementsLifecycle, Life!Spec
==============================================================================
