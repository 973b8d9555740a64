------------------------------ MODULE CallbackRing ------------------------------
(***************************************************************************)
(* The strings that the program's threads hand to Arma's callback.         *)
(*                                                                         *)
(* Arma may keep the pointer it is given until a script handles the entry, *)
(* so send() in ReadWriteHandler.h keeps each string alive in a ring and   *)
(* deletes it when its slot comes round again.  Arma's buffer of ArmaCap   *)
(* entries is shared by all read threads; each thread has a ring of its    *)
(* own, which it leaves behind undeleted when it ends.                     *)
(*                                                                         *)
(* The io thread uses the same buffer, for the answers of connectAsync     *)
(* (callbackSuccessArr and callbackFailureArr in util.cpp) and to announce *)
(* connections (tcpServer.cpp).  Its strings are local to the function     *)
(* that calls back, which returns as soon as the callback accepts.         *)
(*                                                                         *)
(* The k-th string of a thread is the number k.                            *)
(***************************************************************************)
EXTENDS Integers, Sequences

CONSTANTS
  Senders,     \* runs of readThreadFunction
  RingSize,    \* slots of a ring (101 in the code)
  ArmaCap,     \* entries of Arma's callback buffer (100 in the game)
  MaxStrings,  \* bound: strings per sender
  Io,          \* the io thread, which runs one handler at a time
  MaxLocal     \* bound: its strings

\* "ARMA's internal buffer for callback data is only 100 long" and the ring has
\* one slot more, for the string that may still be rejected.
ASSUME RingAssumption ==
  /\ ArmaCap \in Nat \ {0} /\ RingSize \in Nat /\ RingSize > ArmaCap
  /\ MaxStrings \in Nat /\ MaxLocal \in Nat /\ Io \notin Senders

VARIABLES
  pc,      \* "read": between chunks; "offer": calling back until accepted
  made,    \* strings allocated by each sender
  buffd,   \* the slots of each ring, 0 for nullptr
  ind,     \* the slot the next string goes to
  locals,  \* strings the io thread made
  local,   \* the one of them that exists, or 0
  inbox    \* Arma's buffer: pointers <<sender, string>>, oldest first

ringVars  == <<pc, made, buffd, ind>>
localVars == <<locals, local>>
vars      == <<ringVars, localVars, inbox>>

Slots == 0..RingSize - 1

TypeOK ==
  /\ pc \in [Senders -> {"read", "offer"}]
  /\ made \in [Senders -> 0..MaxStrings]
  /\ buffd \in [Senders -> [Slots -> 0..MaxStrings]]
  /\ ind \in [Senders -> Slots]
  /\ locals \in 0..MaxLocal /\ local \in {0, locals}
  /\ inbox \in Seq((Senders \X (1..MaxStrings)) \cup ({Io} \X (1..MaxLocal)))

Init ==
  /\ pc = [s \in Senders |-> "read"]
  /\ made = [s \in Senders |-> 0]
  /\ buffd = [s \in Senders |-> [j \in Slots |-> 0]]
  /\ ind = [s \in Senders |-> 0]
  /\ locals = 0 /\ local = 0 /\ inbox = <<>>

\* MUTANT of NextSlot: never wraps.
NextSlotNoWrap(i) == i + 1

\* MUTANT of NextSlot: wraps one slot early, leaving ArmaCap usable slots.
NextSlotShort(i) == IF i + 1 >= RingSize - 1 THEN 0 ELSE i + 1

NextSlot(i) == IF i + 1 = RingSize THEN 0 ELSE i + 1

\* The oldest string of the ring is deleted to make room for a new one.
StoreString(s) ==
  /\ pc[s] = "read" /\ made[s] < MaxStrings
  /\ made' = [made EXCEPT ![s] = @ + 1]
  /\ buffd' = [buffd EXCEPT ![s][ind[s]] = made[s] + 1]
  /\ ind' = [ind EXCEPT ![s] = NextSlot(ind[s])]
  /\ pc' = [pc EXCEPT ![s] = "offer"]
  /\ UNCHANGED <<localVars, inbox>>

\* callback does not return -1.
BufferTakes == Len(inbox) < ArmaCap

\* MUTANT of OfferString: a string that was accepted is offered again.
OfferAgain(s) ==
  /\ pc[s] = "offer" /\ BufferTakes
  /\ inbox' = Append(inbox, <<s, made[s]>>)
  /\ UNCHANGED <<ringVars, localVars>>

\* A full buffer makes callback return -1, and send() sleeps and tries again.
OfferString(s) ==
  /\ pc[s] = "offer" /\ BufferTakes
  /\ inbox' = Append(inbox, <<s, made[s]>>)
  /\ pc' = [pc EXCEPT ![s] = "read"]
  /\ UNCHANGED <<made, buffd, ind, localVars>>

\* A handler on the io thread puts its string together.
MakeLocal ==
  /\ local = 0 /\ locals < MaxLocal
  /\ locals' = locals + 1 /\ local' = locals + 1
  /\ UNCHANGED <<ringVars, inbox>>

OfferLocal ==
  /\ local # 0 /\ BufferTakes
  /\ inbox' = Append(inbox, <<Io, local>>) /\ local' = 0
  /\ UNCHANGED <<ringVars, locals>>

\* Arma reads the oldest string and forgets it.
HandleCallback ==
  /\ inbox # <<>>
  /\ inbox' = Tail(inbox)
  /\ UNCHANGED <<ringVars, localVars>>

Next ==
  \/ HandleCallback \/ MakeLocal \/ OfferLocal
  \/ \E s \in Senders : StoreString(s) \/ OfferString(s)

Spec == Init /\ [][Next]_vars

-----------------------------------------------------------------------------
\* Every pointer of a read thread in Arma's buffer still points to a live string,
\* although the threads that delete strings never look at the buffer, which the
\* io thread fills as well.
BufferedStringsLive ==
  \A i \in 1..Len(inbox) :
    inbox[i][1] \in Senders => \E j \in Slots : buffd[inbox[i][1]][j] = inbox[i][2]

\* Each thread's strings reach the scripts in order and without repetition.
InOrder ==
  \A i, j \in 1..Len(inbox) :
    i < j /\ inbox[i][1] = inbox[j][1] => inbox[i][2] < inbox[j][2]

-----------------------------------------------------------------------------
\* "We need to buffer the strings we send to arma": the string of an entry exists
\* as long as Arma may look at it.  The code does not keep this for the io thread.
LocalStringsLive ==
  \A i \in 1..Len(inbox) : inbox[i][1] = Io => inbox[i][2] = local
=============================================================================
