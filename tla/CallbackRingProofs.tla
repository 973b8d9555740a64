--------------------------- MODULE CallbackRingProofs ---------------------------
(***************************************************************************)
(* The ring of strings is long enough: for every number of read threads,   *)
(* every callback buffer and every ring with at least one slot more.       *)
(***************************************************************************)
EXTENDS CallbackRing, TLAPS

\* The string in slot j of a ring at position i after m strings: the slots
\* behind i hold the youngest strings, the others those of the round before.
SlotString(m, i, j) == IF j < i THEN m - i + j + 1 ELSE m - RingSize - i + j + 1

\* Strings Arma has accepted from s.
Accepted(s) == IF pc[s] = "offer" THEN made[s] - 1 ELSE made[s]

RingFilled ==
  \A s \in Senders :
    /\ ind[s] <= made[s]
    /\ pc[s] = "offer" => made[s] > 0
    /\ \A j \in Slots :
         SlotString(made[s], ind[s], j) > 0 =>
           buffd[s][j] = SlotString(made[s], ind[s], j)

\* An entry can only be as old as the entries accepted after it are many.
BufferRecent ==
  /\ Len(inbox) <= ArmaCap
  /\ \A s \in Senders, i \in 1..Len(inbox) :
       inbox[i][1] = s => /\ inbox[i][2] <= Accepted(s)
                          /\ Accepted(s) - inbox[i][2] <= Len(inbox) - i

\* The entries of the io thread are older than the string it holds.
LocalsRecent ==
  \A i \in 1..Len(inbox) :
    inbox[i][1] = Io => inbox[i][2] <= locals /\ (local # 0 => inbox[i][2] < local)

IInv == TypeOK /\ RingFilled /\ BufferRecent /\ LocalsRecent

\* Pointers that can be in Arma's buffer.
Pointers == (Senders \X (1..MaxStrings)) \cup ({Io} \X (1..MaxLocal))

\* An entry names a thread and one of its strings.
LEMMA InboxEntry ==
  ASSUME TypeOK, NEW i \in 1..Len(inbox)
  PROVE  /\ inbox[i][1] \in Senders => inbox[i][2] \in 1..MaxStrings
         /\ inbox[i][1] = Io => inbox[i][2] \in 1..MaxLocal
         /\ inbox[i][1] \in Senders \cup {Io} /\ inbox[i][2] \in Nat
<1>1. inbox[i] \in Pointers
  BY DEF TypeOK, Pointers
<1>2. CASE inbox[i] \in Senders \X (1..MaxStrings)
  BY <1>2, RingAssumption DEF RingAssumption
<1>3. CASE inbox[i] \in {Io} \X (1..MaxLocal)
  BY <1>3, RingAssumption DEF RingAssumption
<1> QED
  BY <1>1, <1>2, <1>3 DEF Pointers

\* The invariant holds before the first chunk.
LEMMA InitIInv == Init => IInv
<1> SUFFICES ASSUME Init PROVE IInv
  OBVIOUS
<1> USE RingAssumption DEF RingAssumption, Init, Slots
<1>1. TypeOK
  BY DEF TypeOK
<1>2. RingFilled
  <2>1. ASSUME NEW s \in Senders, NEW j \in Slots PROVE ~(SlotString(made[s], ind[s], j) > 0)
    <3>1. made[s] = 0 /\ ind[s] = 0
      OBVIOUS
    <3> QED
      BY <3>1 DEF SlotString
  <2>2. ASSUME NEW s \in Senders PROVE ind[s] <= made[s] /\ pc[s] # "offer"
    OBVIOUS
  <2> QED
    BY <2>1, <2>2 DEF RingFilled
<1>3. BufferRecent
  BY DEF BufferRecent
<1>4. LocalsRecent
  BY DEF LocalsRecent
<1> QED
  BY <1>1, <1>2, <1>3, <1>4 DEF IInv

\* A string stored in the slot that comes next overwrites the oldest one only.
LEMMA StoreIInv == ASSUME IInv, NEW s \in Senders, StoreString(s) PROVE IInv'
<1> USE RingAssumption DEF RingAssumption, IInv, StoreString, NextSlot, Slots, localVars
<1>1. TypeOK'
  <2>1. ind[s] \in 0..RingSize - 1 /\ made[s] \in 0..MaxStrings
    BY DEF TypeOK
  <2>2. NextSlot(ind[s]) \in Slots /\ made[s] + 1 \in 0..MaxStrings
    BY <2>1
  <2>3. pc' \in [Senders -> {"read", "offer"}] /\ made' \in [Senders -> 0..MaxStrings]
    BY <2>2 DEF TypeOK
  <2>4. buffd' \in [Senders -> [Slots -> 0..MaxStrings]]
    BY <2>2 DEF TypeOK
  <2>5. ind' \in [Senders -> Slots]
    BY <2>2 DEF TypeOK
  <2> QED
    BY <2>3, <2>4, <2>5 DEF TypeOK
<1>2. RingFilled'
  <2> SUFFICES ASSUME NEW t \in Senders
               PROVE  /\ ind'[t] <= made'[t]
                      /\ pc'[t] = "offer" => made'[t] > 0
                      /\ \A j \in Slots :
                           SlotString(made'[t], ind'[t], j) > 0 =>
                             buffd'[t][j] = SlotString(made'[t], ind'[t], j)
    BY DEF RingFilled
  <2>1. CASE t # s
    BY <2>1 DEF TypeOK, RingFilled
  <2>2. CASE t = s
    <3>1. /\ made'[s] = made[s] + 1
          /\ ind'[s] = IF ind[s] + 1 = RingSize THEN 0 ELSE ind[s] + 1
          /\ \A j \in Slots : buffd'[s][j] = IF j = ind[s] THEN made[s] + 1 ELSE buffd[s][j]
      BY DEF TypeOK
    <3>2. made[s] \in Nat /\ ind[s] \in 0..RingSize - 1 /\ ind[s] <= made[s]
      BY DEF TypeOK, RingFilled
    <3>3. ind'[s] <= made'[s] /\ made'[s] > 0
      BY <3>1, <3>2
    <3>4. ASSUME NEW j \in Slots, SlotString(made'[s], ind'[s], j) > 0
          PROVE  buffd'[s][j] = SlotString(made'[s], ind'[s], j)
      <4>1. CASE j = ind[s]
        BY <4>1, <3>1, <3>2 DEF SlotString
      <4>2. CASE j # ind[s]
        <5>1. SlotString(made'[s], ind'[s], j) = SlotString(made[s], ind[s], j)
          BY <4>2, <3>1, <3>2 DEF SlotString
        <5> QED
          BY <5>1, <4>2, <3>1, <3>4 DEF RingFilled
      <4> QED
        BY <4>1, <4>2
    <3> QED
      BY <2>2, <3>3, <3>4
  <2> QED
    BY <2>1, <2>2
<1>3. BufferRecent'
  <2>1. ASSUME NEW t \in Senders PROVE Accepted(t)' = Accepted(t)
    <3>1. CASE t = s
      <4>1. pc[t] = "read" /\ pc'[t] = "offer" /\ made'[t] = made[t] + 1 /\ made[t] \in Nat
        BY <3>1 DEF TypeOK
      <4> QED
        BY <4>1 DEF Accepted
    <3>2. CASE t # s
      <4>1. pc'[t] = pc[t] /\ made'[t] = made[t]
        BY <3>2 DEF TypeOK
      <4> QED
        BY <4>1 DEF Accepted
    <3> QED
      BY <3>1, <3>2
  <2>2. inbox' = inbox
    OBVIOUS
  <2> QED
    BY <2>1, <2>2 DEF BufferRecent
<1>4. LocalsRecent'
  BY DEF LocalsRecent
<1> QED
  BY <1>1, <1>2, <1>3, <1>4

\* Accepting a string makes every entry of the buffer one position younger and
\* at most one string older.
LEMMA OfferIInv == ASSUME IInv, NEW s \in Senders, OfferString(s) PROVE IInv'
<1> USE RingAssumption DEF RingAssumption, IInv, OfferString, BufferTakes, localVars
<1>1. made[s] \in 1..MaxStrings
  BY DEF TypeOK, RingFilled
<1>2. TypeOK'
  BY <1>1 DEF TypeOK
<1>3. RingFilled'
  BY DEF RingFilled, TypeOK
<1>4. BufferRecent'
  <2>1. \A t \in Senders : /\ Accepted(t) \in Int
                           /\ Accepted(t)' = IF t = s THEN made[s] ELSE Accepted(t)
                           /\ Accepted(s) = made[s] - 1
    BY DEF Accepted, TypeOK
  <2>2. /\ Len(inbox) \in Nat /\ Len(inbox') = Len(inbox) + 1
        /\ inbox'[Len(inbox) + 1] = <<s, made[s]>>
        /\ \A i \in 1..Len(inbox) : inbox'[i] = inbox[i]
    BY <1>1 DEF TypeOK
  <2>3. Len(inbox') <= ArmaCap
    BY <2>2
  <2>4. ASSUME NEW t \in Senders, NEW i \in 1..Len(inbox'), inbox'[i][1] = t
        PROVE  inbox'[i][2] <= Accepted(t)' /\ Accepted(t)' - inbox'[i][2] <= Len(inbox') - i
    <3>1. CASE i = Len(inbox) + 1
      <4>1. t = s /\ inbox'[i][2] = made[s]
        BY <3>1, <2>2, <2>4
      <4> QED
        BY <3>1, <4>1, <1>1, <2>1, <2>2
    <3>2. CASE i \in 1..Len(inbox)
      <4>1. inbox[i][1] = t /\ inbox[i][2] \in 1..MaxStrings /\ inbox'[i] = inbox[i]
        BY <3>2, <2>2, <2>4, InboxEntry
      <4>2. inbox[i][2] <= Accepted(t) /\ Accepted(t) - inbox[i][2] <= Len(inbox) - i
        BY <3>2, <4>1 DEF BufferRecent
      <4>3. t = s => Accepted(t)' = Accepted(t) + 1
        BY <2>1, <1>1
      <4>4. t # s => Accepted(t)' = Accepted(t)
        BY <2>1
      <4>5. Accepted(t) \in Int /\ Len(inbox) \in Nat /\ Len(inbox') = Len(inbox) + 1
        BY <2>1, <2>2
      <4>6. /\ Accepted(t)' \in {Accepted(t), Accepted(t) + 1}
            /\ inbox'[i][2] = inbox[i][2] /\ inbox[i][2] \in Nat /\ i \in Nat
        BY <4>1, <4>3, <4>4, <3>2
      <4> QED
        BY ONLY <4>2, <4>5, <4>6
    <3> QED
      BY <3>1, <3>2, <2>2
  <2> QED
    BY <2>3, <2>4 DEF BufferRecent
<1>5. LocalsRecent'
  <2>1. /\ Len(inbox) \in Nat /\ Len(inbox') = Len(inbox) + 1
        /\ inbox'[Len(inbox) + 1] = <<s, made[s]>>
        /\ \A i \in 1..Len(inbox) : inbox'[i] = inbox[i]
    BY <1>1 DEF TypeOK
  <2>2. s # Io
    OBVIOUS
  <2> QED
    BY <2>1, <2>2 DEF LocalsRecent
<1> QED
  BY <1>2, <1>3, <1>4, <1>5

\* The io thread's strings come between those of the read threads, which the entries
\* after them outnumber all the more.
LEMMA LocalIInv == ASSUME IInv, MakeLocal \/ OfferLocal PROVE IInv'
<1> USE RingAssumption DEF RingAssumption, IInv, ringVars, Slots
<1>1. CASE MakeLocal
  <2> USE <1>1 DEF MakeLocal
  <2>1. TypeOK' /\ RingFilled'
    BY DEF TypeOK, RingFilled
  <2>2. BufferRecent'
    BY DEF BufferRecent, Accepted
  <2>3. \A i \in 1..Len(inbox) : inbox[i][2] \in Nat
    BY InboxEntry
  <2>4. LocalsRecent'
    BY <2>3 DEF LocalsRecent, TypeOK
  <2> QED
    BY <2>1, <2>2, <2>4
<1>2. CASE OfferLocal
  <2> USE <1>2 DEF OfferLocal, BufferTakes
  <2>1. local \in 1..MaxLocal /\ local = locals
    BY DEF TypeOK
  <2>2. /\ Len(inbox) \in Nat /\ Len(inbox') = Len(inbox) + 1
        /\ inbox'[Len(inbox) + 1] = <<Io, local>>
        /\ \A i \in 1..Len(inbox) : inbox'[i] = inbox[i]
    BY DEF TypeOK
  <2>3. TypeOK'
    BY <2>1 DEF TypeOK
  <2>4. RingFilled'
    BY DEF RingFilled
  <2>5. BufferRecent'
    <3>1. ASSUME NEW t \in Senders, NEW i \in 1..Len(inbox'), inbox'[i][1] = t
          PROVE  inbox'[i][2] <= Accepted(t)' /\ Accepted(t)' - inbox'[i][2] <= Len(inbox') - i
      <4>1. i \in 1..Len(inbox) /\ inbox'[i] = inbox[i]
        BY <2>2, <3>1
      <4>2. inbox[i][2] <= Accepted(t) /\ Accepted(t) - inbox[i][2] <= Len(inbox) - i
        BY <4>1, <3>1 DEF BufferRecent
      <4>3. Accepted(t)' = Accepted(t)
        BY DEF Accepted
      <4>4. made[t] \in Int
        BY DEF TypeOK
      <4>5. Accepted(t) \in Int
        BY <4>4 DEF Accepted
      <4>6. inbox[i][2] \in Nat
        BY <4>1, InboxEntry
      <4> QED
        BY <4>1, <4>2, <4>3, <4>5, <4>6, <2>2
    <3> QED
      BY <3>1, <2>2 DEF BufferRecent
  <2>6. LocalsRecent'
    BY <2>1, <2>2, InboxEntry DEF LocalsRecent, TypeOK
  <2> QED
    BY <2>3, <2>4, <2>5, <2>6
<1> QED
  BY <1>1, <1>2

\* Handling the oldest entry shifts the others without changing how many follow.
LEMMA HandleIInv == ASSUME IInv, HandleCallback PROVE IInv'
<1> USE RingAssumption DEF RingAssumption, IInv, HandleCallback, ringVars, localVars
<1>1. TypeOK'
  BY DEF TypeOK
<1>2. RingFilled'
  BY DEF RingFilled
<1>3. BufferRecent'
  <2>1. /\ Len(inbox) \in Nat /\ Len(inbox') = Len(inbox) - 1
        /\ \A i \in 1..Len(inbox') : inbox'[i] = inbox[i + 1]
    BY DEF TypeOK
  <2>2. \A t \in Senders : Accepted(t)' = Accepted(t)
    BY DEF Accepted
  <2>3. ASSUME NEW t \in Senders, NEW i \in 1..Len(inbox'), inbox'[i][1] = t
        PROVE  inbox'[i][2] <= Accepted(t)' /\ Accepted(t)' - inbox'[i][2] <= Len(inbox') - i
    <3>1. i + 1 \in 1..Len(inbox) /\ inbox'[i] = inbox[i + 1]
      BY <2>1
    <3>2. inbox[i + 1][2] <= Accepted(t) /\ Accepted(t) - inbox[i + 1][2] <= Len(inbox) - (i + 1)
      BY <2>3, <3>1 DEF BufferRecent
    <3>3. Len(inbox) - (i + 1) = Len(inbox') - i
      BY <2>1
    <3> QED
      BY <3>1, <3>2, <3>3, <2>2
  <2>4. Len(inbox') <= ArmaCap
    BY <2>1 DEF BufferRecent
  <2> QED
    BY <2>3, <2>4 DEF BufferRecent
<1>4. LocalsRecent'
  <2>1. /\ Len(inbox) \in Nat /\ Len(inbox') = Len(inbox) - 1
        /\ \A i \in 1..Len(inbox') : inbox'[i] = inbox[i + 1]
    BY DEF TypeOK
  <2> QED
    BY <2>1 DEF LocalsRecent
<1> QED
  BY <1>1, <1>2, <1>3, <1>4

\* The invariant is inductive.
THEOREM RingInvariant == Spec => []IInv
<1>1. Init => IInv
  BY InitIInv
<1>2. IInv /\ [Next]_vars => IInv'
  <2> SUFFICES ASSUME IInv, [Next]_vars PROVE IInv'
    OBVIOUS
  <2>1. CASE HandleCallback
    BY <2>1, HandleIInv
  <2>2. ASSUME NEW s \in Senders, StoreString(s) PROVE IInv'
    BY <2>2, StoreIInv
  <2>3. ASSUME NEW s \in Senders, OfferString(s) PROVE IInv'
    BY <2>3, OfferIInv
  <2>4. CASE UNCHANGED vars
    BY <2>4 DEF vars, ringVars, localVars, IInv, TypeOK, RingFilled, BufferRecent, Accepted,
                Slots, LocalsRecent
  <2> QED
    BY <2>1, <2>2, <2>3, <2>4, LocalIInv DEF Next
<1> QED
  BY <1>1, <1>2, PTL DEF Spec

\* Each of the RingSize youngest strings has a slot.
LEMMA RecentHasSlot ==
  ASSUME NEW m \in Nat, NEW i \in 0..RingSize - 1, NEW k \in Nat, k <= m, m - k < RingSize
  PROVE  \E j \in Slots : SlotString(m, i, j) = k
<1> USE RingAssumption DEF RingAssumption, Slots
<1>1. CASE k > m - i
  <2>1. k - m + i - 1 \in Slots
    BY <1>1
  <2>2. SlotString(m, i, k - m + i - 1) = k
    BY <1>1 DEF SlotString
  <2> QED
    BY <2>1, <2>2
<1>2. CASE ~(k > m - i)
  <2>1. k - m + RingSize + i - 1 \in Slots
    BY <1>2
  <2>2. SlotString(m, i, k - m + RingSize + i - 1) = k
    BY <1>2 DEF SlotString
  <2> QED
    BY <2>1, <2>2
<1> QED
  BY <1>1, <1>2

\* An entry at most ArmaCap strings old is still in its slot: the slots hold the
\* RingSize youngest strings.
LEMMA RecentStringsLive == IInv => BufferedStringsLive
<1> SUFFICES ASSUME IInv, NEW i \in 1..Len(inbox), inbox[i][1] \in Senders
             PROVE  \E j \in Slots : buffd[inbox[i][1]][j] = inbox[i][2]
  BY DEF BufferedStringsLive
<1> USE RingAssumption DEF RingAssumption, IInv
<1>1. PICK s \in Senders, k \in 1..MaxStrings : s = inbox[i][1] /\ k = inbox[i][2]
  BY InboxEntry
<1>2. made[s] \in Nat /\ ind[s] \in 0..RingSize - 1 /\ ind[s] <= made[s]
  BY DEF TypeOK, RingFilled, Slots
<1>3. k <= Accepted(s) /\ Accepted(s) - k <= Len(inbox) - i /\ Len(inbox) <= ArmaCap
  BY <1>1 DEF BufferRecent
<1>4. Len(inbox) \in Nat /\ i \in Nat /\ i >= 1
  BY DEF TypeOK
<1>5. k <= made[s] /\ made[s] - k < RingSize
  BY <1>2, <1>3, <1>4 DEF Accepted
<1>6. PICK j \in Slots : SlotString(made[s], ind[s], j) = k
  <2>1. k \in Nat /\ made[s] \in Nat
    BY <1>2
  <2> QED
    BY ONLY <2>1, <1>2, <1>5, RecentHasSlot
<1>7. buffd[s][j] = k
  BY <1>6 DEF RingFilled
<1> QED
  BY <1>1, <1>7

\* Whatever the number of read threads and the size of Arma's buffer, no string
\* Arma still points to is deleted.
THEOREM RingSafe == Spec => []BufferedStringsLive
BY RingInvariant, RecentStringsLive, PTL

-----------------------------------------------------------------------------
\* The types declared in CallbackRing hold in every reachable state.
THEOREM RingTypes == Spec => []TypeOK
<1>1. IInv => TypeOK
  BY DEF IInv
<1> QED
  BY <1>1, RingInvariant, PTL

\* A pointer appended to the buffer keeps the order if it is younger than those of
\* its thread.
LEMMA AppendOrder ==
  ASSUME IInv, InOrder, NEW t \in Senders \cup {Io}, NEW k \in Nat,
         inbox' = Append(inbox, <<t, k>>),
         \A i \in 1..Len(inbox) : inbox[i][1] = t => inbox[i][2] < k
  PROVE  InOrder'
<1>1. /\ Len(inbox) \in Nat /\ Len(inbox') = Len(inbox) + 1
      /\ inbox'[Len(inbox) + 1] = <<t, k>>
      /\ \A i \in 1..Len(inbox) : inbox'[i] = inbox[i]
  BY DEF IInv, TypeOK
<1> SUFFICES ASSUME NEW i \in 1..Len(inbox'), NEW j \in 1..Len(inbox'),
                    i < j, inbox'[i][1] = inbox'[j][1]
             PROVE  inbox'[i][2] < inbox'[j][2]
  BY DEF InOrder
<1>2. i \in 1..Len(inbox) /\ inbox'[i] = inbox[i]
  BY <1>1
<1>3. CASE j \in 1..Len(inbox)
  BY <1>1, <1>2, <1>3 DEF InOrder
<1>4. CASE j = Len(inbox) + 1
  <2>1. inbox[i][1] = t
    BY <1>1, <1>2, <1>4
  <2>2. inbox[i][2] < k
    BY <1>2, <2>1
  <2> QED
    BY <1>1, <1>2, <1>4, <2>2
<1> QED
  BY <1>1, <1>3, <1>4

\* A string is accepted after all older ones of its thread, and entries leave at
\* the other end.
LEMMA OrderKept == ASSUME IInv, InOrder, [Next]_vars PROVE InOrder'
<1>1. ASSUME NEW s \in Senders, OfferString(s) PROVE InOrder'
  <2>1. made[s] \in Nat /\ Accepted(s) = made[s] - 1
    BY <1>1 DEF IInv, TypeOK, Accepted, OfferString
  <2>2. ASSUME NEW i \in 1..Len(inbox), inbox[i][1] = s PROVE inbox[i][2] < made[s]
    <3>1. inbox[i][2] \in Nat
      BY InboxEntry DEF IInv
    <3>2. inbox[i][2] <= Accepted(s)
      BY <2>2 DEF IInv, BufferRecent
    <3> QED
      BY <2>1, <3>1, <3>2
  <2>3. inbox' = Append(inbox, <<s, made[s]>>)
    BY <1>1 DEF OfferString
  <2> QED
    BY <2>1, <2>2, <2>3, AppendOrder
<1>2. CASE OfferLocal
  <2>1. inbox' = Append(inbox, <<Io, local>>) /\ local # 0
    BY <1>2 DEF OfferLocal
  <2>2. local \in Nat
    BY RingAssumption DEF RingAssumption, IInv, TypeOK
  <2>3. \A i \in 1..Len(inbox) : inbox[i][1] = Io => inbox[i][2] < local
    BY <2>1 DEF IInv, LocalsRecent
  <2> QED
    BY <2>1, <2>2, <2>3, AppendOrder
<1>3. CASE HandleCallback
  <2>1. /\ Len(inbox) \in Nat /\ Len(inbox') = Len(inbox) - 1
        /\ \A i \in 1..Len(inbox') : inbox'[i] = inbox[i + 1]
    BY <1>3 DEF HandleCallback, IInv, TypeOK
  <2> SUFFICES ASSUME NEW i \in 1..Len(inbox'), NEW j \in 1..Len(inbox'),
                      i < j, inbox'[i][1] = inbox'[j][1]
               PROVE  inbox'[i][2] < inbox'[j][2]
    BY DEF InOrder
  <2>2. i + 1 \in 1..Len(inbox) /\ j + 1 \in 1..Len(inbox) /\ i + 1 < j + 1
    BY <2>1
  <2> QED
    BY <2>1, <2>2 DEF InOrder
<1>4. ASSUME UNCHANGED inbox PROVE InOrder'
  BY <1>4 DEF InOrder
<1> QED
  BY <1>1, <1>2, <1>3, <1>4 DEF Next, vars, StoreString, MakeLocal

\* For every number of threads, the strings of each are in Arma's buffer in the
\* order it made them, each once.
THEOREM RingInOrder == Spec => []InOrder
<1>1. Init => InOrder
  BY DEF Init, InOrder
<1>2. IInv /\ InOrder /\ [Next]_vars => InOrder'
  BY OrderKept
<1> QED
  BY <1>1, <1>2, RingInvariant, PTL DEF Spec
=============================================================================
