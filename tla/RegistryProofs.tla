----------------------------- MODULE RegistryProofs -----------------------------
(***************************************************************************)
(* The maps of the instances, for every number of instances and of ports.  *)
(***************************************************************************)
EXTENDS Registry, FiniteSetTheorems, TLAPS

USE IdsAssumption

\* The instances ioContextUsers counts.
Counted == {i \in live : kind[i] # "serial"}

\* An id that New can still give belongs to no instance.
FreshIds == \A i \in live : kind[i] # "none"

IInv == TypeOK /\ RegistryLive /\ OneSerialPerPort /\ FreshIds

\* The instances are finitely many.
LEMMA CountedFinite == ASSUME TypeOK PROVE IsFiniteSet(Counted) /\ Cardinality(Counted) \in Nat
<1>1. Counted \subseteq Ids
  BY DEF Counted, TypeOK
<1> QED
  BY <1>1, FS_Subset, FS_CardinalityType

\* What New does, whichever map the instance is entered in.
LEMMA NewKeeps ==
  ASSUME IInv, NEW i \in Ids, NEW k \in Kinds, NEW p \in Ports, New(i, k, p)
  PROVE  /\ i \notin live /\ live' = live \cup {i} /\ commMethods' = live'
         /\ kind' \in [Ids -> Kinds \cup {"none"}] /\ port' \in [Ids -> Ports]
         /\ kind'[i] = k /\ port'[i] = p
         /\ \A j \in Ids \ {i} : kind'[j] = kind[j] /\ port'[j] = port[j]
         /\ live' \subseteq Ids /\ reply' \in Ids /\ FreshIds'
<1> USE DEF IInv, New
<1>1. i \notin live
  BY DEF FreshIds
<1>2. kind' \in [Ids -> Kinds \cup {"none"}] /\ port' \in [Ids -> Ports]
      /\ kind'[i] = k /\ port'[i] = p
      /\ \A j \in Ids \ {i} : kind'[j] = kind[j] /\ port'[j] = port[j]
  BY DEF TypeOK
<1>3. commMethods' = live' /\ live' = live \cup {i} /\ live' \subseteq Ids
  BY DEF RegistryLive, TypeOK
<1>4. FreshIds'
  BY <1>2, <1>3 DEF FreshIds, Kinds, TypeOK
<1> QED
  BY <1>1, <1>2, <1>3, <1>4

\* An instance of a TCP method is counted, a serial port is not.
LEMMA NewCounts ==
  ASSUME IInv, NEW i \in Ids, NEW k \in Kinds, NEW p \in Ports, New(i, k, p)
  PROVE  Cardinality(Counted') = Cardinality(Counted) + (IF k = "serial" THEN 0 ELSE 1)
<1>1. /\ i \notin live /\ live' = live \cup {i} /\ kind'[i] = k
      /\ \A j \in live : kind'[j] = kind[j]
  BY NewKeeps DEF IInv, TypeOK
<1>2. IsFiniteSet(Counted) /\ Cardinality(Counted) \in Nat
  BY CountedFinite DEF IInv
<1>3. CASE k = "serial"
  <2>1. Counted' = Counted
    BY <1>1, <1>3 DEF Counted
  <2> QED
    BY <1>2, <1>3, <2>1
<1>4. CASE k # "serial"
  <2>1. Counted' = Counted \cup {i} /\ i \notin Counted
    BY <1>1, <1>4 DEF Counted
  <2> QED
    BY <1>2, <1>4, <2>1, FS_AddElement
<1> QED
  BY <1>3, <1>4

\* Nothing exists before the first create.
LEMMA InitIInv == Init => IInv
<1> SUFFICES ASSUME Init PROVE IInv
  OBVIOUS
<1> USE DEF Init
<1>1. Counted = {} /\ Cardinality({}) = 0
  BY FS_EmptySet DEF Counted
<1>2. RegistryLive
  BY <1>1 DEF RegistryLive, UsersMatch, Counted
<1>3. TypeOK
  <2>1. PICK p \in Ports : port = [i \in Ids |-> p]
    OBVIOUS
  <2>2. kind \in [Ids -> Kinds \cup {"none"}] /\ port \in [Ids -> Ports]
    BY <2>1
  <2>3. serialPorts \in PortMap /\ tcpClients \in PortMap /\ tcpServers \in PortMap
    BY DEF PortMap
  <2>4. live = {} /\ open = {} /\ commMethods = {}
    OBVIOUS
  <2>5. users \in Int /\ reply = "SUCCESS"
    OBVIOUS
  <2>6. fault \in BOOLEAN
    BY Zenon
  <2> HIDE DEF Init
  <2> QED
    BY <2>2, <2>3, <2>4, <2>5, <2>6 DEF TypeOK
<1> QED
  BY <1>2, <1>3 DEF IInv, OneSerialPerPort, FreshIds

\* A serial port is created only if the map has no instance for it.
LEMMA CreateSerialIInv == ASSUME IInv, NEW p \in Ports, CreateSerial(p) PROVE IInv'
<1> USE DEF CreateSerial
<1>1. CASE serialPorts[p] = Null
  <2>1. PICK i \in Ids : New(i, "serial", p) /\ serialPorts' = [serialPorts EXCEPT ![p] = i]
    BY <1>1
  <2>2. "serial" \in Kinds
    BY DEF Kinds
  <2>3. /\ i \notin live /\ live' = live \cup {i} /\ commMethods' = live'
        /\ kind' \in [Ids -> Kinds \cup {"none"}] /\ port' \in [Ids -> Ports]
        /\ kind'[i] = "serial" /\ port'[i] = p
        /\ \A j \in Ids \ {i} : kind'[j] = kind[j] /\ port'[j] = port[j]
        /\ live' \subseteq Ids /\ reply' \in Ids /\ FreshIds'
    BY <2>1, <2>2, NewKeeps DEF IInv
  <2>4. Cardinality(Counted') = Cardinality(Counted)
    BY <2>1, <2>2, NewCounts, CountedFinite DEF IInv
  <2>5. serialPorts' \in PortMap
    BY <2>1 DEF IInv, TypeOK, PortMap
  <2>6. TypeOK'
    BY <2>3, <2>5 DEF IInv, TypeOK
  <2>7. RegistryLive'
    BY <2>3, <2>4 DEF IInv, RegistryLive, UsersMatch, Counted
  <2>8. OneSerialPerPort'
    BY <1>1, <2>1, <2>3 DEF IInv, OneSerialPerPort, TypeOK, PortMap
  <2> QED
    BY <2>3, <2>6, <2>7, <2>8 DEF IInv
<1>2. CASE serialPorts[p] # Null
  <2>1. reply' \in Ids
    BY <1>2 DEF IInv, TypeOK, PortMap
  <2>2. TypeOK'
    BY <1>2, <2>1 DEF IInv, TypeOK
  <2>3. RegistryLive' /\ OneSerialPerPort' /\ FreshIds'
    BY <1>2 DEF IInv, RegistryLive, UsersMatch, OneSerialPerPort, FreshIds
  <2> QED
    BY <2>2, <2>3 DEF IInv
<1> QED
  BY <1>1, <1>2

\* A TCP instance counts for the io context and leaves the serial ports alone.
LEMMA NewTcpIInv ==
  ASSUME IInv, NEW i \in Ids, NEW k \in Kinds \ {"serial"}, NEW p \in Ports, New(i, k, p),
         users' = users + 1, serialPorts' = serialPorts, fault' = fault,
         tcpClients' \in PortMap, tcpServers' \in PortMap, open' \subseteq open \cup {i}
  PROVE  IInv'
<1>1. /\ i \notin live /\ live' = live \cup {i} /\ commMethods' = live'
      /\ kind' \in [Ids -> Kinds \cup {"none"}] /\ port' \in [Ids -> Ports]
      /\ kind'[i] = k /\ port'[i] = p
      /\ \A j \in Ids \ {i} : kind'[j] = kind[j] /\ port'[j] = port[j]
      /\ live' \subseteq Ids /\ reply' \in Ids /\ FreshIds'
  BY NewKeeps
<1>2. Cardinality(Counted') = Cardinality(Counted) + 1
  BY NewCounts
<1>3. TypeOK'
  BY <1>1 DEF IInv, TypeOK
<1>4. RegistryLive'
  BY <1>1, <1>2 DEF IInv, RegistryLive, UsersMatch, Counted
<1>5. OneSerialPerPort'
  BY <1>1 DEF IInv, OneSerialPerPort, TypeOK, PortMap
<1> QED
  BY <1>1, <1>3, <1>4, <1>5 DEF IInv

LEMMA CreateClientIInv == ASSUME IInv, NEW p \in Ports, CreateClient(p) PROVE IInv'
<1>1. PICK i \in Ids :
        /\ New(i, "client", p) /\ tcpClients' = [tcpClients EXCEPT ![p] = i]
        /\ users' = users + 1 /\ UNCHANGED <<open, serialPorts, tcpServers, fault>>
  BY DEF CreateClient
<1>2. tcpClients' \in PortMap /\ tcpServers' \in PortMap /\ open' \subseteq open \cup {i}
  BY <1>1 DEF IInv, TypeOK, PortMap
<1>3. "client" \in Kinds \ {"serial"}
  BY DEF Kinds
<1> QED
  BY <1>1, <1>2, <1>3, NewTcpIInv

\* When the constructor throws, the count is no longer the number of instances.
LEMMA CreateServerIInv == ASSUME IInv, NEW p \in Ports, CreateServer(p) PROVE IInv'
<1> USE DEF CreateServer
<1>1. CASE tcpServers[p] # Null
  BY <1>1 DEF IInv, TypeOK, RegistryLive, UsersMatch, OneSerialPerPort, FreshIds, instVars, mapVars
<1>2. CASE tcpServers[p] = Null /\ fault' = TRUE /\ UNCHANGED <<instVars, mapVars, reply>>
  <2>1. users' \in Int
    BY <1>2 DEF IInv, TypeOK
  <2>2. TypeOK'
    BY <1>2, <2>1 DEF IInv, TypeOK, instVars, mapVars
  <2>3. RegistryLive' /\ OneSerialPerPort' /\ FreshIds'
    BY <1>2 DEF IInv, RegistryLive, UsersMatch, OneSerialPerPort, FreshIds, instVars, mapVars
  <2> QED
    BY <2>2, <2>3 DEF IInv
<1>3. CASE /\ users' = users + 1 /\ UNCHANGED <<serialPorts, tcpClients, fault>>
           /\ \E i \in Ids : New(i, "server", p) /\ open' = open \cup {i}
                             /\ tcpServers' = [tcpServers EXCEPT ![p] = i]
  <2>1. PICK i \in Ids : New(i, "server", p) /\ open' = open \cup {i}
                         /\ tcpServers' = [tcpServers EXCEPT ![p] = i]
    BY <1>3
  <2>2. tcpClients' \in PortMap /\ tcpServers' \in PortMap
    BY <1>3, <2>1 DEF IInv, TypeOK, PortMap
  <2>3. "server" \in Kinds \ {"serial"}
    BY DEF Kinds
  <2> QED
    BY <1>3, <2>1, <2>2, <2>3, NewTcpIInv
<1> QED
  BY <1>1, <1>2, <1>3

LEMMA DispatchIInv == ASSUME IInv, NEW i \in Ids, Dispatch(i) PROVE IInv'
<1> USE DEF Dispatch
<1>1. open' \subseteq live /\ live' = live
  BY DEF IInv, TypeOK, RegistryLive
<1>2. TypeOK'
  BY <1>1 DEF IInv, TypeOK, mapVars
<1> QED
  BY <1>2 DEF IInv, RegistryLive, UsersMatch, OneSerialPerPort, FreshIds, mapVars

\* destroy takes the instance out of the maps and of the count with one exception:
\* the maps of the TCP instances, which no lookup of an instance goes through.
LEMMA DestroyIInv == ASSUME IInv, ~fault, NEW i \in Ids, Destroy(i) PROVE IInv'
<1> USE DEF Destroy, MayDestroy, ForgetPort, Release, Erase
<1>1. CASE MayDestroy(i)
  <2>1. i \in live /\ live' = live \ {i} /\ commMethods' = live' /\ i \notin open
    BY <1>1 DEF IInv, RegistryLive
  <2>2. /\ kind' = kind /\ port' = port /\ open' = open /\ fault' = fault
        /\ tcpClients' = tcpClients /\ tcpServers' = tcpServers /\ reply' = "SUCCESS"
    BY <1>1
  <2>3. serialPorts' \in PortMap /\ users' \in Int
    BY <1>1 DEF IInv, TypeOK, PortMap
  <2>4. TypeOK'
    BY <2>1, <2>2, <2>3 DEF IInv, TypeOK
  <2>5. IsFiniteSet(Counted) /\ Cardinality(Counted) \in Nat
    BY CountedFinite DEF IInv
  <2>6. UsersMatch'
    <3>1. CASE kind[i] = "serial"
      <4>1. Counted' = Counted /\ users' = users
        BY <1>1, <2>1, <2>2, <3>1 DEF Counted
      <4> QED
        BY <2>2, <4>1 DEF IInv, RegistryLive, UsersMatch, Counted
    <3>2. CASE kind[i] # "serial"
      <4>1. Counted' = Counted \ {i} /\ i \in Counted /\ users' = users - 1
        BY <1>1, <2>1, <2>2, <3>2 DEF Counted
      <4>2. Cardinality(Counted') = Cardinality(Counted) - 1
        BY <2>5, <4>1, FS_RemoveElement
      <4>3. users = Cardinality(Counted)
        BY DEF IInv, RegistryLive, UsersMatch, Counted
      <4> QED
        BY <2>2, <4>1, <4>2, <4>3 DEF UsersMatch, Counted
    <3> QED
      BY <3>1, <3>2
  <2>7. OneSerialPerPort'
    <3>1. CASE kind[i] = "serial"
      <4>1. serialPorts[port[i]] = i /\ port[i] \in Ports
        BY <2>1, <3>1 DEF IInv, OneSerialPerPort, TypeOK
      <4>2. /\ serialPorts'[port[i]] = Null
            /\ \A p \in Ports \ {port[i]} : serialPorts'[p] = serialPorts[p]
        BY <1>1, <3>1, <4>1 DEF IInv, TypeOK, PortMap
      <4>3. \A j \in live' : kind[j] = "serial" => port[j] # port[i]
        BY <2>1, <4>1 DEF IInv, OneSerialPerPort
      <4>4. \A j \in live' : kind'[j] = "serial" => serialPorts'[port'[j]] = j
        BY <2>1, <2>2, <4>2, <4>3 DEF IInv, OneSerialPerPort, TypeOK
      <4>5. \A p \in Ports \ {port[i]} : serialPorts[p] # i
        BY DEF IInv, OneSerialPerPort
      <4> QED
        BY <2>1, <2>2, <4>2, <4>4, <4>5 DEF IInv, OneSerialPerPort
    <3>2. CASE kind[i] # "serial"
      BY <1>1, <2>1, <2>2, <3>2 DEF IInv, OneSerialPerPort
    <3> QED
      BY <3>1, <3>2
  <2>8. FreshIds'
    BY <2>1, <2>2 DEF IInv, FreshIds
  <2> QED
    BY <2>1, <2>4, <2>6, <2>7, <2>8 DEF IInv, RegistryLive
<1>2. CASE ~MayDestroy(i)
  BY <1>2 DEF IInv, TypeOK, RegistryLive, UsersMatch, OneSerialPerPort, FreshIds, instVars, mapVars
<1> QED
  BY <1>1, <1>2

\* The invariant is inductive.
THEOREM Inductive == Spec => []IInv
<1>1. Init => IInv
  BY InitIInv
<1>2. IInv /\ [Next]_vars => IInv'
  <2> SUFFICES ASSUME IInv, [Next]_vars PROVE IInv'
    OBVIOUS
  <2>1. CASE UNCHANGED vars
    BY <2>1 DEF vars, instVars, mapVars, IInv, TypeOK, RegistryLive, UsersMatch, OneSerialPerPort,
                FreshIds
  <2> QED
    BY <2>1, CreateSerialIInv, CreateClientIInv, CreateServerIInv, DispatchIInv, DestroyIInv
       DEF Next
<1> QED
  BY <1>1, <1>2, PTL DEF Spec

\* The types declared in Registry hold in every reachable state.
THEOREM TypeCorrect == Spec => []TypeOK
<1>1. IInv => TypeOK
  BY DEF IInv
<1> QED
  BY <1>1, Inductive, PTL

\* After every sequence of commands, what is found by id are the instances that were
\* not deleted, and the io context has as many users as there are TCP instances.
THEOREM RegistryCorrect == Spec => []RegistryLive
<1>1. IInv => RegistryLive
  BY DEF IInv
<1> QED
  BY <1>1, Inductive, PTL

\* And each serial port that was created and not destroyed is the one its name finds.
THEOREM SerialPortsUnique == Spec => []OneSerialPerPort
<1>1. IInv => OneSerialPerPort
  BY DEF IInv
<1> QED
  BY <1>1, Inductive, PTL
=============================================================================
