--------------------------------- MODULE Registry ---------------------------------
(***************************************************************************)
(* The instances of the communication methods and the maps that find them: *)
(* the create commands, destroy and the dispatch of a command by its id    *)
(* (dllmain.cpp and the static commands of serial, TCPClient, TCPServer).  *)
(*                                                                         *)
(* All of it runs on the game thread.  What an instance does while it      *)
(* exists is the subject of the other modules; here it is open or closed.  *)
(* Connections accepted by a server are the subject of TcpServer.          *)
(***************************************************************************)
EXTENDS Integers, FiniteSets

CONSTANTS
  Ids,      \* UUIDs, one for each instance ever created
  Ports,    \* names of serial ports, ports of endpoints, and port numbers of servers
  Null

ASSUME IdsAssumption == IsFiniteSet(Ids) /\ Null \notin Ids

VARIABLES
  kind, port,     \* of each instance; "none" if it was not created
  live,           \* instances that were not deleted
  open,           \* instances that answer isConnected with true
  commMethods,    \* keys of the map from ids to instances
  serialPorts, tcpClients, tcpServers,   \* maps from ports to instances
  users,          \* ioContextUsers
  reply,          \* of the last command
  fault           \* an exception left RVExtensionArgs

instVars == <<kind, port, live, open>>
mapVars  == <<commMethods, serialPorts, tcpClients, tcpServers>>
vars     == <<instVars, mapVars, users, reply, fault>>

Kinds == {"serial", "client", "server"}

PortMap == [Ports -> Ids \cup {Null}]

TypeOK ==
  /\ kind \in [Ids -> Kinds \cup {"none"}] /\ port \in [Ids -> Ports]
  /\ live \subseteq Ids /\ open \subseteq live /\ commMethods \subseteq Ids
  /\ serialPorts \in PortMap /\ tcpClients \in PortMap /\ tcpServers \in PortMap
  /\ users \in Int /\ fault \in BOOLEAN
  /\ reply \in Ids \cup {"SUCCESS", "FAILURE", "exists"}

Init ==
  /\ kind = [i \in Ids |-> "none"] /\ port \in {[i \in Ids |-> p] : p \in Ports}
  /\ live = {} /\ open = {} /\ commMethods = {}
  /\ serialPorts = [p \in Ports |-> Null] /\ tcpClients = serialPorts /\ tcpServers = serialPorts
  /\ users = 0 /\ reply = "SUCCESS" /\ fault = FALSE

-----------------------------------------------------------------------------
(* create *)

\* generateUUID gives an id never used before; the constructor's instance is
\* entered in commMethods and the id is the reply.
New(i, k, p) ==
  /\ kind[i] = "none"
  /\ kind' = [kind EXCEPT ![i] = k] /\ port' = [port EXCEPT ![i] = p]
  /\ live' = live \cup {i} /\ commMethods' = commMethods \cup {i}
  /\ reply' = i

CreateSerial(p) ==
  /\ IF serialPorts[p] = Null
     THEN \E i \in Ids : New(i, "serial", p) /\ serialPorts' = [serialPorts EXCEPT ![p] = i]
     ELSE reply' = serialPorts[p] /\ UNCHANGED <<kind, port, live, commMethods, serialPorts>>
  /\ UNCHANGED <<open, tcpClients, tcpServers, users, fault>>

\* A client replaces the entry of another one for the same port.
CreateClient(p) ==
  \E i \in Ids :
    /\ New(i, "client", p) /\ tcpClients' = [tcpClients EXCEPT ![p] = i]
    /\ users' = users + 1
    /\ UNCHANGED <<open, serialPorts, tcpServers, fault>>

\* Ports in use by servers of this program.
Bound == {port[i] : i \in {j \in open : kind[j] = "server"}}

\* A server that finds its port bound by another program throws out of its
\* constructor, after it asked for the io context.
CreateServer(p) ==
  IF tcpServers[p] # Null
  THEN reply' = "exists" /\ UNCHANGED <<instVars, mapVars, users, fault>>
  ELSE /\ users' = users + 1
       /\ \/ /\ p \notin Bound
             /\ \E i \in Ids : New(i, "server", p) /\ open' = open \cup {i}
                               /\ tcpServers' = [tcpServers EXCEPT ![p] = i]
             /\ UNCHANGED <<serialPorts, tcpClients, fault>>
          \/ fault' = TRUE /\ UNCHANGED <<instVars, mapVars, reply>>

-----------------------------------------------------------------------------
(* Commands of an instance that change what isConnected answers *)

\* connect, and disconnect or stopListening; a server's acceptor opens only once.
Dispatch(i) ==
  /\ \/ i \in commMethods /\ kind[i] # "server" /\ open' = open \cup {i}
     \/ i \in commMethods /\ open' = open \ {i}
     \/ i \notin commMethods /\ UNCHANGED open
  /\ reply' = IF i \in commMethods THEN "SUCCESS" ELSE "FAILURE"
  /\ UNCHANGED <<kind, port, live, mapVars, users, fault>>

-----------------------------------------------------------------------------
(* destroy *)

\* MUTANT of ForgetPort: destroy of a serial port leaves its entry.
ForgetNothing(i) == UNCHANGED <<serialPorts, tcpClients, tcpServers>>

\* destroy() of the classes: a client erases an entry under its id, where there is
\* none, and a server erases nothing.
ForgetPort(i) ==
  /\ serialPorts' = IF kind[i] = "serial" THEN [serialPorts EXCEPT ![port[i]] = Null]
                    ELSE serialPorts
  /\ UNCHANGED <<tcpClients, tcpServers>>

Release(i) == users' = IF kind[i] = "serial" THEN users ELSE users - 1

\* MUTANT of Erase: the instance is deleted and stays registered.
EraseNot(i) == UNCHANGED commMethods

Erase(i) == commMethods' = commMethods \ {i}

\* MUTANT of MayDestroy: isConnected is not asked.
MayDestroyOpen(i) == i \in commMethods

MayDestroy(i) == i \in commMethods /\ i \notin open

\* A server without connections; see TcpServer.
Destroy(i) ==
  IF MayDestroy(i)
  THEN /\ ForgetPort(i) /\ Release(i) /\ Erase(i)
       /\ live' = live \ {i} /\ reply' = "SUCCESS"
       /\ UNCHANGED <<kind, port, open, fault>>
  ELSE reply' = "FAILURE" /\ UNCHANGED <<instVars, mapVars, users, fault>>

Next ==
  /\ ~fault
  /\ \/ \E p \in Ports : CreateSerial(p) \/ CreateClient(p) \/ CreateServer(p)
     \/ \E i \in Ids : Dispatch(i) \/ Destroy(i)

Spec == Init /\ [][Next]_vars

-----------------------------------------------------------------------------
(* Properties *)

\* Every command and every listing that finds an instance finds one that was not
\* deleted, and no instance is lost; until an exception, the users of the io context
\* are the TCP instances among them.
UsersMatch   == ~fault => users = Cardinality({i \in live : kind[i] # "serial"})
RegistryLive == commMethods = live /\ UsersMatch

\* "Only one instance of this communication method may exist per COM port", and
\* create returns it: a lost UUID can be regained as long as the instance lives.
OneSerialPerPort ==
  /\ \A i \in live : kind[i] = "serial" => serialPorts[port[i]] = i
  /\ \A p \in Ports : serialPorts[p] # Null =>
       serialPorts[p] \in live /\ port[serialPorts[p]] = p /\ kind[serialPorts[p]] = "serial"

-----------------------------------------------------------------------------
(* Statements of the program's own messages and documentation that it does not keep *)

\* The reply "A TCP Server already exists for the given port" is true.
ExistsIsTrue == reply = "exists" => \E i \in live : kind[i] = "server"

\* TCPServer.create returns "a success or failure message".
CreateAnswers == ~fault
=============================================================================
