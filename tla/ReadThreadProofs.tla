---------------------------- MODULE ReadThreadProofs ----------------------------
(***************************************************************************)
(* The read loop's chunking, for every alphabet, every set of delimiters   *)
(* and lengths, any number of characters and of option changes.            *)
(*                                                                         *)
(* SplitByChar and SplitByLength are loops over a string and IsCut speaks  *)
(* of the concatenation of any number of pieces, so the first parts prove  *)
(* induction, and what each loop does with one element more.  The last     *)
(* part is the invariant of the state machine.                             *)
(***************************************************************************)
EXTENDS ReadThread, SequenceTheorems, WellFoundedInduction, TLAPS

-----------------------------------------------------------------------------
(* Induction, in a form without operator parameters: over the elements of a *)
(* set.                                                                      *)

NatOrder == {p \in Nat \X Nat : p[1] < p[2]}

\* The library's well-founded order of the natural numbers, as a set of pairs.
LEMMA NatOrderWellFounded == IsWellFoundedOn(NatOrder, Nat)
BY NatLessThanWellFounded DEF OpToRel, NatOrder

\* A set with 0 and all successors has all natural numbers.
LEMMA Induction ==
  ASSUME NEW S, 0 \in S, \A n \in Nat : n \in S => n + 1 \in S
  PROVE  \A n \in Nat : n \in S
<1> SUFFICES ASSUME NEW n \in Nat, n \notin S PROVE FALSE
  OBVIOUS
<1> DEFINE T == Nat \ S
<1>1. \E m \in T : \A k \in T : ~ (<<k, m>> \in NatOrder)
  <2>1. T \subseteq Nat /\ T # {}
    OBVIOUS
  <2> HIDE DEF T
  <2> QED
    BY <2>1, WFMin, NatOrderWellFounded
<1>2. PICK m \in T : \A k \in T : ~ (<<k, m>> \in NatOrder)
  BY <1>1
<1>3. m # 0 /\ m - 1 \in Nat /\ m = (m - 1) + 1
  BY <1>2
<1>4. <<m - 1, m>> \in NatOrder
  BY <1>3 DEF NatOrder
<1> QED
  BY <1>2, <1>3, <1>4

\* A set with the empty sequence that is closed under Append has all sequences.
LEMMA SeqInduction ==
  ASSUME NEW A, NEW S, <<>> \in S,
         \A s \in Seq(A), x \in A : s \in S => Append(s, x) \in S
  PROVE  \A s \in Seq(A) : s \in S
<1> DEFINE T == {n \in Nat : \A s \in Seq(A) : Len(s) = n => s \in S}
<1>1. 0 \in T
  BY EmptySeq
<1>2. ASSUME NEW n \in Nat, n \in T PROVE n + 1 \in T
  <2> SUFFICES ASSUME NEW s \in Seq(A), Len(s) = n + 1 PROVE s \in S
    OBVIOUS
  <2>1. s # <<>>
    OBVIOUS
  <2>2. PICK r \in Seq(A), x \in A : s = Append(r, x)
    BY <2>1, SequenceEmptyOrAppend
  <2>3. Len(r) = n
    BY <2>2
  <2> QED
    BY <1>2, <2>2, <2>3
<1> HIDE DEF T
<1>3. \A n \in Nat : n \in T
  BY <1>1, <1>2, Induction
<1> QED
  BY <1>3 DEF T

-----------------------------------------------------------------------------
(* Loops over a sequence *)

\* g[i] is what a loop over s has after i elements, starting with base.
IsRun(base, step, s, g) ==
  g[0] = base /\ \A i \in 1..Len(s) : g[i] = step[<<g[i - 1], s[i]>>]

\* Every loop has a run.
LEMMA RunExists ==
  ASSUME NEW A, NEW D, NEW base \in D, NEW step \in [D \X A -> D], NEW s \in Seq(A)
  PROVE  \E g \in [0..Len(s) -> D] : IsRun(base, step, s, g)
<1> DEFINE S == {r \in Seq(A) : \E g \in [0..Len(r) -> D] : IsRun(base, step, r, g)}
<1>1. <<>> \in S
  <2> DEFINE g == [i \in 0..0 |-> base]
  <2>1. g \in [0..Len(<<>>) -> D] /\ IsRun(base, step, <<>>, g)
    BY DEF IsRun
  <2> QED
    BY <2>1, EmptySeq
<1>2. ASSUME NEW r \in Seq(A), NEW x \in A, r \in S PROVE Append(r, x) \in S
  <2>1. PICK g \in [0..Len(r) -> D] : IsRun(base, step, r, g)
    BY <1>2
  <2> DEFINE n == Len(r)
             h == [i \in 0..n+1 |-> IF i = n + 1 THEN step[<<g[n], x>>] ELSE g[i]]
  <2>2. n \in Nat /\ Len(Append(r, x)) = n + 1 /\ Append(r, x) \in Seq(A)
        /\ Append(r, x)[n + 1] = x /\ \A i \in 1..n : Append(r, x)[i] = r[i]
    OBVIOUS
  <2>3. h \in [0..n+1 -> D] /\ h[n + 1] = step[<<g[n], x>>] /\ \A i \in 0..n : h[i] = g[i]
    BY <2>2
  <2> HIDE DEF h, n
  <2>4. ASSUME NEW i \in 1..n+1 PROVE h[i] = step[<<h[i - 1], Append(r, x)[i]>>]
    <3>1. CASE i = n + 1
      <4>1. i - 1 = n /\ n \in 0..n
        BY <2>2, <3>1
      <4> QED
        BY <2>2, <2>3, <3>1, <4>1
    <3>2. CASE i # n + 1
      <4>1. i \in 1..n /\ i - 1 \in 0..n /\ i \in 0..n
        BY <2>2, <3>2
      <4> QED
        BY <2>1, <2>2, <2>3, <4>1 DEF IsRun, n
    <3> QED
      BY <3>1, <3>2
  <2>5. h[0] = base
    BY <2>1, <2>2, <2>3 DEF IsRun
  <2>6. IsRun(base, step, Append(r, x), h)
    BY <2>2, <2>4, <2>5 DEF IsRun
  <2> QED
    BY <2>2, <2>3, <2>6
<1> HIDE DEF S
<1>3. \A r \in Seq(A) : r \in S
  BY <1>1, <1>2, SeqInduction
<1> QED
  BY <1>3 DEF S

\* What steps as the loop does, from values of the loop on, is a run of it.
LEMMA StepsAreRun ==
  ASSUME NEW base, NEW step, NEW s, Len(s) \in Nat, NEW D, NEW f, f[0] = base, base \in D,
         \A i \in 1..Len(s) :
           f[i - 1] \in D => f[i] = step[<<f[i - 1], s[i]>>] /\ f[i] \in D
  PROVE  IsRun(base, step, s, f) /\ \A i \in 0..Len(s) : f[i] \in D
<1> DEFINE S == {i \in Nat : i <= Len(s) => f[i] \in D}
<1>1. 0 \in S
  OBVIOUS
<1>2. ASSUME NEW i \in Nat, i \in S PROVE i + 1 \in S
  <2> SUFFICES ASSUME i + 1 <= Len(s) PROVE f[i + 1] \in D
    OBVIOUS
  <2>1. i + 1 \in 1..Len(s) /\ (i + 1) - 1 = i /\ f[i] \in D
    BY <1>2
  <2> QED
    BY <2>1
<1> HIDE DEF S
<1>3. \A i \in Nat : i \in S
  BY <1>1, <1>2, Induction
<1>4. \A i \in 0..Len(s) : f[i] \in D
  BY <1>3 DEF S
<1>5. \A i \in 1..Len(s) : i - 1 \in 0..Len(s)
  OBVIOUS
<1> QED
  BY <1>4, <1>5 DEF IsRun

\* Runs over sequences with a common beginning agree there.
LEMMA RunsAgree ==
  ASSUME NEW base, NEW step, NEW s, NEW t, NEW g, NEW h,
         IsRun(base, step, s, g), IsRun(base, step, t, h),
         Len(s) \in Nat, Len(t) \in Nat, Len(s) <= Len(t), \A i \in 1..Len(s) : s[i] = t[i]
  PROVE  \A i \in 0..Len(s) : g[i] = h[i]
<1> DEFINE S == {i \in Nat : i <= Len(s) => g[i] = h[i]}
<1>1. 0 \in S
  BY DEF IsRun
<1>2. ASSUME NEW i \in Nat, i \in S PROVE i + 1 \in S
  <2> SUFFICES ASSUME i + 1 <= Len(s) PROVE g[i + 1] = h[i + 1]
    OBVIOUS
  <2>1. i + 1 \in 1..Len(s) /\ i + 1 \in 1..Len(t) /\ (i + 1) - 1 = i /\ g[i] = h[i]
    BY <1>2
  <2>2. g[i + 1] = step[<<g[i], s[i + 1]>>] /\ h[i + 1] = step[<<h[i], t[i + 1]>>]
    BY <2>1 DEF IsRun
  <2>3. s[i + 1] = t[i + 1]
    BY <2>1
  <2> QED
    BY <2>1, <2>2, <2>3
<1> HIDE DEF S
<1>3. \A i \in Nat : i \in S
  BY <1>1, <1>2, Induction
<1> QED
  BY <1>3 DEF S

\* t is s with one more element, x.
IsAppended(t, s, x) ==
  /\ Len(t) = Len(s) + 1 /\ t[Len(s) + 1] = x
  /\ \A i \in 1..Len(s) : s[i] = t[i]

\* Append is such a t.
LEMMA AppendIsAppended ==
  ASSUME NEW A, NEW s \in Seq(A), NEW x \in A
  PROVE  Append(s, x) \in Seq(A) /\ IsAppended(Append(s, x), s, x)
BY DEF IsAppended

\* Running over one more element takes one more step.
LEMMA RunAppend ==
  ASSUME NEW base, NEW step, NEW A, NEW s \in Seq(A), NEW t \in Seq(A), NEW x,
         IsAppended(t, s, x), NEW g, NEW h, IsRun(base, step, s, g), IsRun(base, step, t, h)
  PROVE  h[Len(t)] = step[<<g[Len(s)], x>>]
<1>1. Len(s) \in Nat /\ Len(t) \in Nat /\ Len(s) <= Len(t) /\ \A i \in 1..Len(s) : s[i] = t[i]
  <2>1. Len(s) \in Nat /\ Len(t) = Len(s) + 1
    BY DEF IsAppended
  <2>2. \A i \in 1..Len(s) : s[i] = t[i]
    BY DEF IsAppended
  <2> QED
    BY <2>1, <2>2
<1>2. \A i \in 0..Len(s) : g[i] = h[i]
  BY <1>1, RunsAgree
<1>3. Len(s) + 1 \in 1..Len(s) + 1 /\ (Len(s) + 1) - 1 = Len(s) /\ Len(s) \in 0..Len(s)
  BY <1>1
<1>4. Len(t) = Len(s) + 1 /\ t[Len(t)] = x
  BY DEF IsAppended
<1>5. h[Len(t)] = step[<<h[Len(t) - 1], t[Len(t)]>>]
  <2>1. Len(t) \in 1..Len(t)
    BY <1>3, <1>4
  <2> QED
    BY <2>1 DEF IsRun
<1> QED
  BY <1>2, <1>3, <1>4, <1>5

-----------------------------------------------------------------------------
(* The characters that are no delimiters *)

\* One pass of the loop of DataChars.
DataStep ==
  [p \in Seq(Char) \X Char |-> IF p[2] \in Delimiters THEN p[1] ELSE Append(p[1], p[2])]

\* DataChars is what its loop ends with.
LEMMA DataRun ==
  ASSUME NEW s \in Seq(Char)
  PROVE  /\ DataChars(s) \in Seq(Char)
         /\ \E g : IsRun(<<>>, DataStep, s, g) /\ DataChars(s) = g[Len(s)]
<1> DEFINE Body(f) == [i \in 0..Len(s) |->
                         IF i = 0 THEN <<>>
                         ELSE IF s[i] \in Delimiters THEN f[i - 1] ELSE Append(f[i - 1], s[i])]
           data == CHOOSE f : f = Body(f)
<1>0. Len(s) \in Nat /\ \A i \in 1..Len(s) : s[i] \in Char /\ i - 1 \in 0..Len(s)
  OBVIOUS
<1>1. DataChars(s) = data[Len(s)]
  BY DEF DataChars
<1>2. PICK g \in [0..Len(s) -> Seq(Char)] : IsRun(<<>>, DataStep, s, g)
  <2>1. DataStep \in [Seq(Char) \X Char -> Seq(Char)] /\ <<>> \in Seq(Char)
    BY EmptySeq DEF DataStep
  <2> QED
    BY <2>1, RunExists
<1>3. g = Body(g)
  <2>1. \A i \in 1..Len(s) :
          g[i] = IF s[i] \in Delimiters THEN g[i - 1] ELSE Append(g[i - 1], s[i])
    BY <1>0, <1>2 DEF IsRun, DataStep
  <2>2. g[0] = <<>>
    BY <1>2 DEF IsRun
  <2>3. g = [i \in 0..Len(s) |-> g[i]]
    OBVIOUS
  <2>4. ASSUME NEW i \in 0..Len(s)
        PROVE  g[i] = IF i = 0 THEN <<>>
                      ELSE IF s[i] \in Delimiters THEN g[i - 1] ELSE Append(g[i - 1], s[i])
    <3>1. i = 0 \/ i \in 1..Len(s)
      BY <1>0
    <3> QED
      BY <3>1, <2>1, <2>2
  <2> QED
    BY <2>3, <2>4
<1>4. data = Body(data)
  <2> HIDE DEF Body
  <2> QED
    BY <1>3
<1> HIDE DEF data
<1>5. /\ data[0] = <<>>
      /\ \A i \in 1..Len(s) :
           data[i] = IF s[i] \in Delimiters THEN data[i - 1] ELSE Append(data[i - 1], s[i])
  <2>1. \A i \in 0..Len(s) : data[i] = Body(data)[i]
    BY <1>4
  <2>2. 0 \in 0..Len(s) /\ \A i \in 1..Len(s) : i \in 0..Len(s) /\ i # 0
    BY <1>0
  <2> QED
    BY <2>1, <2>2
<1>6. ASSUME NEW i \in 1..Len(s), data[i - 1] \in Seq(Char)
      PROVE  data[i] = DataStep[<<data[i - 1], s[i]>>] /\ data[i] \in Seq(Char)
  <2>1. data[i] = IF s[i] \in Delimiters THEN data[i - 1] ELSE Append(data[i - 1], s[i])
    BY <1>5
  <2>2. s[i] \in Char /\ Append(data[i - 1], s[i]) \in Seq(Char)
    BY <1>0, <1>6, AppendProperties
  <2> QED
    BY <1>6, <2>1, <2>2 DEF DataStep
<1> DEFINE D == Seq(Char)
           base == <<>>
<1>7. base \in D
  BY EmptySeq
<1>8. data[0] = base
  BY <1>5
<1>9. \A i \in 1..Len(s) :
        data[i - 1] \in D => data[i] = DataStep[<<data[i - 1], s[i]>>] /\ data[i] \in D
  BY <1>6
<1> HIDE DEF D, base
<1>10. IsRun(base, DataStep, s, data) /\ \A i \in 0..Len(s) : data[i] \in D
  BY <1>0, <1>7, <1>8, <1>9, StepsAreRun
<1> QED
  BY <1>0, <1>1, <1>10 DEF D, base

\* DataChars character by character.
LEMMA DataEmpty == DataChars(<<>>) = <<>>
<1>1. <<>> \in Seq(Char) /\ Len(<<>>) = 0
  BY EmptySeq
<1> QED
  BY <1>1, DataRun DEF IsRun

\* The next character joins the data unless it is a delimiter.
LEMMA DataAppend ==
  ASSUME NEW s \in Seq(Char), NEW x \in Char
  PROVE  DataChars(Append(s, x)) =
           IF x \in Delimiters THEN DataChars(s) ELSE Append(DataChars(s), x)
<1> DEFINE t == Append(s, x)
<1>1. t \in Seq(Char) /\ IsAppended(t, s, x)
  BY AppendIsAppended
<1> HIDE DEF t
<1>2. PICK g : IsRun(<<>>, DataStep, s, g) /\ DataChars(s) = g[Len(s)]
  BY DataRun
<1>3. PICK h : IsRun(<<>>, DataStep, t, h) /\ DataChars(t) = h[Len(t)]
  BY <1>1, DataRun
<1>4. h[Len(t)] = DataStep[<<g[Len(s)], x>>]
  BY <1>1, <1>2, <1>3, RunAppend
<1>5. DataStep[<<DataChars(s), x>>] =
        IF x \in Delimiters THEN DataChars(s) ELSE Append(DataChars(s), x)
  BY DataRun DEF DataStep
<1> QED
  BY <1>2, <1>3, <1>4, <1>5 DEF t

\* Appending to the second of two sequences appends to both together.
LEMMA ConcatAppend ==
  ASSUME NEW A, NEW a \in Seq(A), NEW b \in Seq(A), NEW x \in A
  PROVE  a \o Append(b, x) = Append(a \o b, x)
BY AppendIsConcat, ConcatAssociative, ConcatProperties

\* Removing delimiters distributes over concatenation.
LEMMA DataConcat ==
  ASSUME NEW a \in Seq(Char), NEW b \in Seq(Char)
  PROVE  DataChars(a \o b) = DataChars(a) \o DataChars(b)
<1> DEFINE S == {s \in Seq(Char) : DataChars(a \o s) = DataChars(a) \o DataChars(s)}
<1>1. <<>> \in S
  BY EmptySeq, DataEmpty, DataRun, ConcatEmptySeq
<1>2. ASSUME NEW s \in Seq(Char), NEW x \in Char, DataChars(a \o s) = DataChars(a) \o DataChars(s)
      PROVE  DataChars(a \o Append(s, x)) = DataChars(a) \o DataChars(Append(s, x))
  <2>1. a \o Append(s, x) = Append(a \o s, x) /\ a \o s \in Seq(Char)
    BY ConcatAppend, ConcatProperties
  <2>2. DataChars(a) \in Seq(Char) /\ DataChars(s) \in Seq(Char)
    BY DataRun
  <2>3. DataChars(a) \o Append(DataChars(s), x) = Append(DataChars(a) \o DataChars(s), x)
    <3> DEFINE da == DataChars(a)
               ds == DataChars(s)
    <3> HIDE DEF da, ds
    <3>1. da \in Seq(Char) /\ ds \in Seq(Char)
      BY <2>2 DEF da, ds
    <3>2. da \o Append(ds, x) = Append(da \o ds, x)
      BY <3>1, ConcatAppend
    <3> QED
      BY <3>2 DEF da, ds
  <2>4. DataChars(Append(a \o s, x)) =
          IF x \in Delimiters THEN DataChars(a \o s) ELSE Append(DataChars(a \o s), x)
    BY <2>1, DataAppend
  <2>5. DataChars(Append(s, x)) = IF x \in Delimiters THEN DataChars(s) ELSE Append(DataChars(s), x)
    BY DataAppend
  <2> QED
    BY <1>2, <2>1, <2>3, <2>4, <2>5
<1>3. ASSUME NEW s \in Seq(Char), NEW x \in Char, s \in S PROVE Append(s, x) \in S
  <2>1. Append(s, x) \in Seq(Char)
    BY AppendProperties
  <2> QED
    BY <2>1, <1>2, <1>3
<1> HIDE DEF S
<1>4. \A s \in Seq(Char) : s \in S
  BY <1>1, <1>3, SeqInduction
<1> QED
  BY <1>4 DEF S

-----------------------------------------------------------------------------
(* FlattenSeq *)

\* One pass of the loop of FlattenSeq.
JoinStep(A) == [p \in Seq(A) \X Seq(A) |-> p[1] \o p[2]]

\* No chunks, no characters.
LEMMA FlattenEmpty == FlattenSeq(<<>>) = <<>>
BY DEF FlattenSeq

\* FlattenSeq is what its loop ends with.
LEMMA FlattenRun ==
  ASSUME NEW A, NEW ss \in Seq(Seq(A))
  PROVE  /\ FlattenSeq(ss) \in Seq(A)
         /\ \E g : IsRun(<<>>, JoinStep(A), ss, g) /\ FlattenSeq(ss) = g[Len(ss)]
<1>1. PICK g \in [0..Len(ss) -> Seq(A)] : IsRun(<<>>, JoinStep(A), ss, g)
  <2>1. JoinStep(A) \in [Seq(A) \X Seq(A) -> Seq(A)] /\ <<>> \in Seq(A)
    BY EmptySeq DEF JoinStep
  <2> QED
    BY <2>1, RunExists
<1>2. Len(ss) \in Nat /\ \A i \in 1..Len(ss) : ss[i] \in Seq(A) /\ i - 1 \in 0..Len(ss)
  OBVIOUS
<1>3. CASE ss = <<>>
  <2>1. Len(ss) = 0
    BY <1>3, EmptySeq
  <2>2. g[0] = <<>>
    BY <1>1 DEF IsRun
  <2> QED
    BY <1>1, <1>3, <2>1, <2>2, FlattenEmpty, EmptySeq
<1>4. CASE ss # <<>>
  <2> DEFINE Body(f) == [i \in 1..Len(ss) |-> IF i = 1 THEN ss[i] ELSE f[i - 1] \o ss[i]]
             flatten == CHOOSE f : f = Body(f)
  <2>0. Len(ss) # 0
    BY <1>4, EmptySeq
  <2>1. FlattenSeq(ss) = flatten[Len(ss)]
    BY <2>0 DEF FlattenSeq
  <2>2. flatten = Body(flatten)
    <3> DEFINE f == [i \in 1..Len(ss) |-> g[i]]
    <3>1. \A i \in 1..Len(ss) : g[i] = g[i - 1] \o ss[i]
      BY <1>1, <1>2 DEF IsRun, JoinStep
    <3>2. g[1] = ss[1]
      <4>1. 1 \in 1..Len(ss) /\ 1 - 1 = 0
        BY <1>2, <2>0
      <4>2. g[1] = g[0] \o ss[1] /\ g[0] = <<>>
        BY <1>1, <3>1, <4>1 DEF IsRun
      <4>3. <<>> \o ss[1] = ss[1]
        BY <1>2, <4>1, ConcatEmptySeq
      <4> QED
        BY <4>2, <4>3
    <3>3. ASSUME NEW i \in 1..Len(ss) PROVE f[i] = IF i = 1 THEN ss[i] ELSE f[i - 1] \o ss[i]
      <4>1. f[i] = g[i]
        OBVIOUS
      <4>2. CASE i = 1
        BY <3>2, <4>1, <4>2
      <4>3. CASE i # 1
        <5>1. i - 1 \in 1..Len(ss)
          BY <1>2, <4>3
        <5>2. f[i - 1] = g[i - 1]
          BY <5>1
        <5>3. g[i] = g[i - 1] \o ss[i]
          BY <3>1
        <5> QED
          BY <4>1, <4>3, <5>2, <5>3
      <4> QED
        BY <4>2, <4>3
    <3>4. f = Body(f)
      BY <3>3
    <3> HIDE DEF Body, f
    <3> QED
      BY <3>4
  <2> HIDE DEF flatten
  <2>3. /\ flatten[1] = ss[1]
        /\ \A i \in 2..Len(ss) : flatten[i] = flatten[i - 1] \o ss[i]
    <3>1. \A i \in 1..Len(ss) : flatten[i] = Body(flatten)[i]
      BY <2>2
    <3>2. 1 \in 1..Len(ss) /\ \A i \in 2..Len(ss) : i \in 1..Len(ss) /\ i # 1
      BY <1>2, <2>0
    <3> QED
      BY <3>1, <3>2
  <2> DEFINE h == [i \in 0..Len(ss) |-> IF i = 0 THEN <<>> ELSE flatten[i]]
  <2>4. h[0] = <<>> /\ \A i \in 1..Len(ss) : h[i] = flatten[i]
    BY <1>2
  <2>5. \A i \in 1..Len(ss) : h[i] = h[i - 1] \o ss[i]
    <3> SUFFICES ASSUME NEW i \in 1..Len(ss) PROVE h[i] = h[i - 1] \o ss[i]
      OBVIOUS
    <3>1. CASE i = 1
      BY <3>1, <2>3, <2>4, <1>2, ConcatEmptySeq
    <3>2. CASE i # 1
      <4>1. i \in 2..Len(ss) /\ i - 1 \in 1..Len(ss)
        BY <3>2, <1>2
      <4> QED
        BY <4>1, <2>3, <2>4
    <3> QED
      BY <3>1, <3>2
  <2> HIDE DEF h
  <2>6. ASSUME NEW i \in 1..Len(ss), h[i - 1] \in Seq(A)
        PROVE  h[i] = JoinStep(A)[<<h[i - 1], ss[i]>>] /\ h[i] \in Seq(A)
    <3>1. ss[i] \in Seq(A) /\ h[i] = h[i - 1] \o ss[i]
      BY <1>2, <2>5
    <3>2. h[i - 1] \o ss[i] \in Seq(A)
      BY <2>6, <3>1, ConcatProperties, Zenon
    <3>3. JoinStep(A)[<<h[i - 1], ss[i]>>] = h[i - 1] \o ss[i]
      BY <2>6, <3>1 DEF JoinStep
    <3> QED
      BY <3>1, <3>2, <3>3, Zenon
  <2> DEFINE D == Seq(A)
             step == JoinStep(A)
             base == <<>>
  <2>7. base \in D /\ h[0] = base
    BY <2>4, EmptySeq
  <2>8. \A i \in 1..Len(ss) : h[i - 1] \in D => h[i] = step[<<h[i - 1], ss[i]>>] /\ h[i] \in D
    BY <2>6
  <2>9. FlattenSeq(ss) = h[Len(ss)] /\ Len(ss) \in 0..Len(ss)
    BY <2>0, <2>1, <2>4, <1>2
  <2> HIDE DEF D, step, base
  <2>10. IsRun(base, step, ss, h) /\ \A i \in 0..Len(ss) : h[i] \in D
    BY <1>2, <2>7, <2>8, StepsAreRun
  <2> QED
    BY <2>9, <2>10 DEF D, step, base
<1> QED
  BY <1>3, <1>4

\* FlattenSeq, chunk by chunk.
LEMMA FlattenAppend ==
  ASSUME NEW A, NEW ss \in Seq(Seq(A)), NEW s \in Seq(A)
  PROVE  FlattenSeq(Append(ss, s)) = FlattenSeq(ss) \o s
<1> DEFINE t == Append(ss, s)
<1>1. t \in Seq(Seq(A)) /\ IsAppended(t, ss, s)
  BY AppendIsAppended
<1> HIDE DEF t
<1>2. PICK g : IsRun(<<>>, JoinStep(A), ss, g) /\ FlattenSeq(ss) = g[Len(ss)]
  BY FlattenRun
<1>3. PICK h : IsRun(<<>>, JoinStep(A), t, h) /\ FlattenSeq(t) = h[Len(t)]
  BY <1>1, FlattenRun
<1>4. h[Len(t)] = JoinStep(A)[<<g[Len(ss)], s>>]
  BY <1>1, <1>2, <1>3, RunAppend
<1>5. JoinStep(A)[<<FlattenSeq(ss), s>>] = FlattenSeq(ss) \o s
  BY FlattenRun DEF JoinStep
<1> QED
  BY <1>2, <1>3, <1>4, <1>5 DEF t

\* Chunks sent first come first.
LEMMA FlattenConcat ==
  ASSUME NEW A, NEW a \in Seq(Seq(A)), NEW b \in Seq(Seq(A))
  PROVE  FlattenSeq(a \o b) = FlattenSeq(a) \o FlattenSeq(b)
<1> DEFINE S == {s \in Seq(Seq(A)) : FlattenSeq(a \o s) = FlattenSeq(a) \o FlattenSeq(s)}
<1>0. \A s \in Seq(Seq(A)) : FlattenSeq(s) \in Seq(A)
  BY FlattenRun
<1>1. <<>> \in S
  BY <1>0, EmptySeq, FlattenEmpty, ConcatEmptySeq
<1>2. ASSUME NEW s \in Seq(Seq(A)), NEW x \in Seq(A), s \in S PROVE Append(s, x) \in S
  <2>1. a \o Append(s, x) = Append(a \o s, x) /\ a \o s \in Seq(Seq(A))
    BY ConcatAppend, ConcatProperties
  <2>2. FlattenSeq(Append(a \o s, x)) = FlattenSeq(a \o s) \o x
    BY <2>1, FlattenAppend
  <2>3. FlattenSeq(Append(s, x)) = FlattenSeq(s) \o x
    BY FlattenAppend
  <2>4. (FlattenSeq(a) \o FlattenSeq(s)) \o x = FlattenSeq(a) \o (FlattenSeq(s) \o x)
    <3> DEFINE fa == FlattenSeq(a)
               fs == FlattenSeq(s)
    <3>1. fa \in Seq(A) /\ fs \in Seq(A)
      BY <1>0, <1>2
    <3> HIDE DEF fa, fs
    <3>2. (fa \o fs) \o x = fa \o (fs \o x)
      BY <3>1
    <3> QED
      BY <3>2 DEF fa, fs
  <2>5. Append(s, x) \in Seq(Seq(A))
    BY AppendProperties
  <2> QED
    BY <1>2, <2>1, <2>2, <2>3, <2>4, <2>5
<1> HIDE DEF S
<1>3. \A s \in Seq(Seq(A)) : s \in S
  BY <1>1, <1>2, SeqInduction
<1> QED
  BY <1>3 DEF S

-----------------------------------------------------------------------------
(* SplitByChar *)

\* What SplitByChar keeps from character to character.
Split == [sent : Seq(Seq(Char)), line : Seq(Char), count : Nat]

Unsplit == [sent |-> <<>>, line |-> <<>>, count |-> 0]

\* What it does at a delimiter, and at another character.
CutLine(acc) == [sent |-> Append(acc.sent, acc.line), line |-> <<>>, count |-> 0]
KeepChar(acc, x) == [acc EXCEPT !.line = Append(@, x), !.count = @ + 1]

\* One pass of its loop.
SplitStep(c) ==
  [p \in Split \X Char |-> IF p[2] = c THEN CutLine(p[1]) ELSE KeepChar(p[1], p[2])]

\* The types of what the loop over the old line keeps, and of its two ways to
\* take a character.
LEMMA UnsplitType == Unsplit \in Split
BY EmptySeq DEF Unsplit, Split

\* A delimiter makes the line a chunk.
LEMMA CutLineType ==
  ASSUME NEW acc \in Split
  PROVE  CutLine(acc) \in Split
<1>1. acc.sent \in Seq(Seq(Char)) /\ acc.line \in Seq(Char)
  BY DEF Split
<1>2. Append(acc.sent, acc.line) \in Seq(Seq(Char)) /\ <<>> \in Seq(Char)
  BY <1>1, AppendProperties, EmptySeq
<1> QED
  BY <1>2 DEF CutLine, Split

\* Any other character joins the line.
LEMMA KeepCharType ==
  ASSUME NEW acc \in Split, NEW x \in Char
  PROVE  KeepChar(acc, x) \in Split
<1>1. acc.line \in Seq(Char) /\ acc.count \in Nat
  BY DEF Split
<1>2. Append(acc.line, x) \in Seq(Char) /\ acc.count + 1 \in Nat
  BY <1>1, AppendProperties
<1> QED
  BY <1>2 DEF KeepChar, Split

\* So does each pass of the loop.
LEMMA SplitStepType ==
  ASSUME NEW c
  PROVE  SplitStep(c) \in [Split \X Char -> Split]
BY CutLineType, KeepCharType DEF SplitStep

\* SplitByChar is what its loop ends with.
LEMMA SplitRun ==
  ASSUME NEW s \in Seq(Char), NEW c
  PROVE  /\ SplitByChar(s, c) \in Split
         /\ \E g : IsRun(Unsplit, SplitStep(c), s, g) /\ SplitByChar(s, c) = g[Len(s)]
<1> DEFINE Body(f) == [i \in 0..Len(s) |->
                         IF i = 0 THEN Unsplit
                         ELSE IF s[i] = c THEN CutLine(f[i - 1]) ELSE KeepChar(f[i - 1], s[i])]
           after == CHOOSE f : f = Body(f)
<1>0. Len(s) \in Nat /\ \A i \in 1..Len(s) : s[i] \in Char /\ i - 1 \in 0..Len(s)
  OBVIOUS
<1>1. SplitByChar(s, c) = after[Len(s)]
  BY DEF SplitByChar, CutLine, KeepChar, Unsplit
<1>2. PICK g \in [0..Len(s) -> Split] : IsRun(Unsplit, SplitStep(c), s, g)
  <2>1. SplitStep(c) \in [Split \X Char -> Split] /\ Unsplit \in Split
    BY SplitStepType, UnsplitType
  <2> QED
    BY <2>1, RunExists
<1>3. g = Body(g)
  <2>1. \A i \in 1..Len(s) :
          g[i] = IF s[i] = c THEN CutLine(g[i - 1]) ELSE KeepChar(g[i - 1], s[i])
    BY <1>0, <1>2 DEF IsRun, SplitStep
  <2>2. g[0] = Unsplit
    BY <1>2 DEF IsRun
  <2>3. g = [i \in 0..Len(s) |-> g[i]]
    OBVIOUS
  <2>4. ASSUME NEW i \in 0..Len(s)
        PROVE  g[i] = IF i = 0 THEN Unsplit
                      ELSE IF s[i] = c THEN CutLine(g[i - 1]) ELSE KeepChar(g[i - 1], s[i])
    <3>1. i = 0 \/ i \in 1..Len(s)
      BY <1>0
    <3> QED
      BY <3>1, <2>1, <2>2
  <2> QED
    BY <2>3, <2>4
<1>4. after = Body(after)
  <2> HIDE DEF Body
  <2> QED
    BY <1>3
<1> HIDE DEF after
<1>5. /\ after[0] = Unsplit
      /\ \A i \in 1..Len(s) :
           after[i] = IF s[i] = c THEN CutLine(after[i - 1]) ELSE KeepChar(after[i - 1], s[i])
  <2>1. \A i \in 0..Len(s) : after[i] = Body(after)[i]
    BY <1>4
  <2>2. 0 \in 0..Len(s) /\ \A i \in 1..Len(s) : i \in 0..Len(s) /\ i # 0
    BY <1>0
  <2> QED
    BY <2>1, <2>2
<1>6. ASSUME NEW i \in 1..Len(s), after[i - 1] \in Split
      PROVE  after[i] = SplitStep(c)[<<after[i - 1], s[i]>>] /\ after[i] \in Split
  <2>1. after[i] = IF s[i] = c THEN CutLine(after[i - 1]) ELSE KeepChar(after[i - 1], s[i])
    BY <1>5
  <2>2. s[i] \in Char
    BY <1>0
  <2> QED
    BY <1>6, <2>1, <2>2, CutLineType, KeepCharType DEF SplitStep
<1> DEFINE step == SplitStep(c)
<1>7. \A i \in 1..Len(s) :
        after[i - 1] \in Split => after[i] = step[<<after[i - 1], s[i]>>] /\ after[i] \in Split
  BY <1>6
<1>8. Len(s) \in Nat /\ after[0] = Unsplit /\ Unsplit \in Split
  BY <1>0, <1>5, UnsplitType
<1> HIDE DEF step
<1>9. IsRun(Unsplit, step, s, after) /\ \A i \in 0..Len(s) : after[i] \in Split
  BY <1>7, <1>8, StepsAreRun
<1> QED
  BY <1>0, <1>1, <1>9 DEF step

\* SplitByChar, character by character.
LEMMA SplitEmpty ==
  ASSUME NEW c
  PROVE  SplitByChar(<<>>, c) = Unsplit
<1>1. <<>> \in Seq(Char) /\ Len(<<>>) = 0
  BY EmptySeq
<1> QED
  BY <1>1, SplitRun DEF IsRun

\* One character more.
LEMMA SplitAppend ==
  ASSUME NEW s \in Seq(Char), NEW x \in Char, NEW c
  PROVE  SplitByChar(Append(s, x), c) =
           IF x = c THEN CutLine(SplitByChar(s, c)) ELSE KeepChar(SplitByChar(s, c), x)
<1> DEFINE t == Append(s, x)
<1>1. t \in Seq(Char) /\ IsAppended(t, s, x)
  BY AppendIsAppended
<1> HIDE DEF t
<1>2. PICK g : IsRun(Unsplit, SplitStep(c), s, g) /\ SplitByChar(s, c) = g[Len(s)]
  BY SplitRun
<1>3. PICK h : IsRun(Unsplit, SplitStep(c), t, h) /\ SplitByChar(t, c) = h[Len(t)]
  BY <1>1, SplitRun
<1>4. h[Len(t)] = SplitStep(c)[<<g[Len(s)], x>>]
  BY <1>1, <1>2, <1>3, RunAppend
<1>5. SplitStep(c)[<<SplitByChar(s, c), x>>] =
        IF x = c THEN CutLine(SplitByChar(s, c)) ELSE KeepChar(SplitByChar(s, c), x)
  BY SplitRun DEF SplitStep
<1> QED
  BY <1>2, <1>3, <1>4, <1>5 DEF t

-----------------------------------------------------------------------------
(* Pieces with the delimiter they were cut at *)

\* Each piece followed by c.
Ended(pieces, c) == [i \in 1..Len(pieces) |-> Append(pieces[i], c)]

\* No piece has c.
NoCharIn(pieces, c) == \A i \in 1..Len(pieces) : NoChar(pieces[i], c)

\* They are as many strings.
LEMMA EndedType ==
  ASSUME NEW pieces \in Seq(Seq(Char)), NEW c \in Char
  PROVE  Ended(pieces, c) \in Seq(Seq(Char)) /\ Len(Ended(pieces, c)) = Len(pieces)
<1>1. \A i \in 1..Len(pieces) : Append(pieces[i], c) \in Seq(Char)
  BY AppendProperties
<1> QED
  BY <1>1 DEF Ended

\* None of none.
LEMMA EndedEmpty ==
  ASSUME NEW c
  PROVE  Ended(<<>>, c) = <<>>
BY DEF Ended

\* One piece more.
LEMMA EndedAppend ==
  ASSUME NEW pieces \in Seq(Seq(Char)), NEW p \in Seq(Char), NEW c \in Char
  PROVE  Ended(Append(pieces, p), c) = Append(Ended(pieces, c), Append(p, c))
<1> DEFINE a == Ended(Append(pieces, p), c)
           b == Append(Ended(pieces, c), Append(p, c))
           n == Len(pieces)
<1>0. Ended(pieces, c) \in Seq(Seq(Char)) /\ Len(Ended(pieces, c)) = n
  BY EndedType
<1>1. /\ Append(pieces, p) \in Seq(Seq(Char)) /\ Len(Append(pieces, p)) = n + 1
      /\ Append(p, c) \in Seq(Char) /\ n \in Nat
  BY AppendProperties
<1>2. a \in Seq(Seq(Char)) /\ b \in Seq(Seq(Char)) /\ Len(a) = n + 1 /\ Len(b) = n + 1
  <2>1. a \in Seq(Seq(Char)) /\ Len(a) = n + 1
    BY <1>1, EndedType
  <2> HIDE DEF a
  <2> DEFINE e == Ended(pieces, c)
             q == Append(p, c)
  <2>2. e \in Seq(Seq(Char)) /\ Len(e) = n /\ q \in Seq(Char)
    BY <1>0, <1>1
  <2> HIDE DEF e, q
  <2>3. Append(e, q) \in Seq(Seq(Char)) /\ Len(Append(e, q)) = n + 1
    BY <2>2, AppendProperties
  <2> QED
    BY <2>1, <2>3 DEF e, q
<1>3. ASSUME NEW i \in 1..n+1 PROVE a[i] = b[i]
  <2>1. a[i] = Append(Append(pieces, p)[i], c)
    BY <1>1 DEF Ended
  <2>2. CASE i = n + 1
    <3>1. Append(pieces, p)[i] = p /\ b[i] = Append(p, c)
      BY <1>0, <1>1, <2>2
    <3> QED
      BY <2>1, <3>1
  <2>3. CASE i # n + 1
    <3>1. i \in 1..n
      BY <1>1, <2>3
    <3>2. Append(pieces, p)[i] = pieces[i] /\ b[i] = Ended(pieces, c)[i]
      BY <1>0, <1>1, <3>1
    <3>3. Ended(pieces, c)[i] = Append(pieces[i], c)
      BY <3>1 DEF Ended
    <3> QED
      BY <2>1, <3>2, <3>3
  <2> QED
    BY <2>2, <2>3
<1> HIDE DEF a, b
<1>4. a = b
  BY <1>2, <1>3, SeqEqual
<1> QED
  BY <1>4 DEF a, b

\* Another character than c brings no c.
LEMMA NoCharAppend ==
  ASSUME NEW s \in Seq(Char), NEW x \in Char, NEW c, NoChar(s, c), x # c
  PROVE  NoChar(Append(s, x), c)
BY DEF NoChar

\* Neither does a piece without c.
LEMMA NoCharInAppend ==
  ASSUME NEW pieces \in Seq(Seq(Char)), NEW p \in Seq(Char), NEW c,
         NoCharIn(pieces, c), NoChar(p, c)
  PROVE  NoCharIn(Append(pieces, p), c)
<1>1. ASSUME NEW i \in 1..Len(Append(pieces, p))
      PROVE  Append(pieces, p)[i] = p \/ (i \in 1..Len(pieces) /\ Append(pieces, p)[i] = pieces[i])
  OBVIOUS
<1> QED
  BY <1>1 DEF NoCharIn

\* The delimiters at the ends of the pieces are no data.
LEMMA EndedData ==
  ASSUME NEW pieces \in Seq(Seq(Char)), NEW c \in Char, c \in Delimiters
  PROVE  DataChars(FlattenSeq(Ended(pieces, c))) = DataChars(FlattenSeq(pieces))
<1> DEFINE S == {ss \in Seq(Seq(Char)) :
                   DataChars(FlattenSeq(Ended(ss, c))) = DataChars(FlattenSeq(ss))}
<1>1. <<>> \in S
  BY EmptySeq, EndedEmpty
<1>2. ASSUME NEW ss \in Seq(Seq(Char)), NEW p \in Seq(Char), ss \in S PROVE Append(ss, p) \in S
  <2> DEFINE e == Ended(ss, c)
  <2>1. e \in Seq(Seq(Char)) /\ Append(p, c) \in Seq(Char) /\ Append(ss, p) \in Seq(Seq(Char))
    BY EndedType, AppendProperties
  <2>2. Ended(Append(ss, p), c) = Append(e, Append(p, c))
    BY EndedAppend
  <2> HIDE DEF e
  <2> DEFINE fe == FlattenSeq(e)
             fs == FlattenSeq(ss)
  <2>3. fe \in Seq(Char) /\ fs \in Seq(Char)
    BY <2>1, FlattenRun
  <2>4. FlattenSeq(Append(e, Append(p, c))) = fe \o Append(p, c)
        /\ FlattenSeq(Append(ss, p)) = fs \o p
    BY <2>1, FlattenAppend
  <2>5. DataChars(fe) = DataChars(fs)
    BY <1>2 DEF e
  <2> HIDE DEF fe, fs
  <2>6. DataChars(fe \o Append(p, c)) = DataChars(fe) \o DataChars(Append(p, c))
        /\ DataChars(fs \o p) = DataChars(fs) \o DataChars(p)
    BY <2>1, <2>3, DataConcat
  <2>7. DataChars(Append(p, c)) = DataChars(p)
    BY DataAppend
  <2> QED
    BY <2>1, <2>2, <2>4, <2>5, <2>6, <2>7
<1> HIDE DEF S
<1>3. \A ss \in Seq(Seq(Char)) : ss \in S
  BY <1>1, <1>2, SeqInduction
<1> QED
  BY <1>3 DEF S

-----------------------------------------------------------------------------
(* Cutting at a delimiter *)

\* What IsCut asks of a delimiter c.
IsCutAt(c, str, pieces, rest) ==
  /\ NoCharIn(pieces, c) /\ NoChar(rest, c)
  /\ FlattenSeq(Ended(pieces, c)) \o rest = str

\* The empty string is cut into nothing, before the first character comes.
LEMMA NothingCut ==
  ASSUME NEW c
  PROVE  IsCutAt(c, <<>>, <<>>, <<>>)
<1>1. <<>> \o <<>> = <<>>
  <2>1. <<>> \in Seq(Char)
    BY EmptySeq
  <2> QED
    BY <2>1, ConcatEmptySeq
<1>2. FlattenSeq(Ended(<<>>, c)) = <<>>
  BY EndedEmpty, FlattenEmpty
<1>3. NoCharIn(<<>>, c) /\ NoChar(<<>>, c)
  BY EmptySeq DEF NoCharIn, NoChar
<1> QED
  BY <1>1, <1>2, <1>3 DEF IsCutAt

\* A delimiter completes the rest to a piece: what the split loop does at one,
\* and what sending the line does to the whole input.
LEMMA CutAfterDelimiter ==
  ASSUME NEW c \in Char, NEW str \in Seq(Char),
         NEW pieces \in Seq(Seq(Char)), NEW rest \in Seq(Char), IsCutAt(c, str, pieces, rest)
  PROVE  IsCutAt(c, Append(str, c), Append(pieces, rest), <<>>)
<1> DEFINE e == Ended(pieces, c)
           r == Append(rest, c)
<1>1. e \in Seq(Seq(Char)) /\ r \in Seq(Char)
  BY EndedType, AppendProperties
<1>2. Ended(Append(pieces, rest), c) = Append(e, r)
  BY EndedAppend
<1> HIDE DEF e
<1>3. FlattenSeq(Append(e, r)) = FlattenSeq(e) \o r /\ FlattenSeq(e) \in Seq(Char)
  BY <1>1, FlattenAppend, FlattenRun
<1> DEFINE f == FlattenSeq(e)
<1>4. f \o rest = str
  BY DEF IsCutAt, e
<1>5. f \in Seq(Char)
  BY <1>3
<1> HIDE DEF f
<1>6. f \o r = Append(str, c)
  BY <1>4, <1>5, ConcatAppend
<1>7. Append(str, c) \o <<>> = Append(str, c)
  BY ConcatEmptySeq, AppendProperties
<1>8. NoCharIn(Append(pieces, rest), c) /\ NoChar(<<>>, c)
  <2>1. NoCharIn(pieces, c) /\ NoChar(rest, c)
    BY DEF IsCutAt
  <2>2. NoChar(<<>>, c)
    BY EmptySeq DEF NoChar
  <2> QED
    BY <2>1, <2>2, NoCharInAppend
<1>9. FlattenSeq(Ended(Append(pieces, rest), c)) = Append(str, c)
  BY <1>2, <1>3, <1>6 DEF f
<1> QED
  BY <1>7, <1>8, <1>9 DEF IsCutAt

\* Any other character joins the rest.
LEMMA CutAfterOther ==
  ASSUME NEW c \in Char, NEW x \in Char, x # c,
         NEW str \in Seq(Char), NEW pieces \in Seq(Seq(Char)), NEW rest \in Seq(Char),
         IsCutAt(c, str, pieces, rest)
  PROVE  IsCutAt(c, Append(str, x), pieces, Append(rest, x))
<1> DEFINE f == FlattenSeq(Ended(pieces, c))
<1>1. f \in Seq(Char)
  BY EndedType, FlattenRun
<1>2. f \o rest = str
  BY DEF IsCutAt
<1> HIDE DEF f
<1>3. f \o Append(rest, x) = Append(str, x)
  BY <1>1, <1>2, ConcatAppend
<1>4. NoCharIn(pieces, c) /\ NoChar(Append(rest, x), c)
  BY NoCharAppend DEF IsCutAt
<1> QED
  BY <1>3, <1>4 DEF IsCutAt, f

\* Cutting at a delimiter keeps every other character.
LEMMA CutData ==
  ASSUME NEW c \in Char, c \in Delimiters,
         NEW str \in Seq(Char), NEW pieces \in Seq(Seq(Char)), NEW rest \in Seq(Char),
         IsCutAt(c, str, pieces, rest)
  PROVE  DataChars(FlattenSeq(pieces) \o rest) = DataChars(str)
<1> DEFINE f == FlattenSeq(Ended(pieces, c))
           g == FlattenSeq(pieces)
<1>1. f \in Seq(Char) /\ g \in Seq(Char)
  BY EndedType, FlattenRun
<1>2. f \o rest = str /\ DataChars(f) = DataChars(g)
  BY EndedData DEF IsCutAt
<1> HIDE DEF f, g
<1>3. DataChars(g \o rest) = DataChars(g) \o DataChars(rest)
      /\ DataChars(f \o rest) = DataChars(f) \o DataChars(rest)
  BY <1>1, DataConcat
<1> QED
  BY <1>2, <1>3 DEF g

\* SplitByChar cuts the string at the delimiter and counts what is left.
LEMMA SplitByCharCuts ==
  ASSUME NEW s \in Seq(Char), NEW c \in Char
  PROVE  LET split == SplitByChar(s, c)
         IN  /\ IsCutAt(c, s, split.sent, split.line)
             /\ split.count = Len(split.line) /\ split.count <= Len(s)
<1> DEFINE Good(t, p) == /\ IsCutAt(c, t, p.sent, p.line)
                         /\ p.count = Len(p.line) /\ p.count <= Len(t)
           S == {t \in Seq(Char) : Good(t, SplitByChar(t, c))}
<1>1. <<>> \in S
  BY SplitEmpty, NothingCut, EmptySeq DEF Unsplit
<1>2. ASSUME NEW t \in Seq(Char), NEW x \in Char, t \in S PROVE Append(t, x) \in S
  <2> DEFINE p == SplitByChar(t, c)
  <2>1. p \in Split /\ Good(t, p)
    BY <1>2, SplitRun
  <2>2. SplitByChar(Append(t, x), c) = IF x = c THEN CutLine(p) ELSE KeepChar(p, x)
    BY SplitAppend
  <2> HIDE DEF p
  <2>3. /\ p.sent \in Seq(Seq(Char)) /\ p.line \in Seq(Char) /\ p.count \in Nat
        /\ Append(t, x) \in Seq(Char) /\ Len(Append(t, x)) = Len(t) + 1 /\ Len(t) \in Nat
    BY <2>1 DEF Split
  <2>4. CASE x = c
    <3>1. IsCutAt(c, Append(t, x), Append(p.sent, p.line), <<>>)
      BY <2>1, <2>3, <2>4, CutAfterDelimiter
    <3>2. Good(Append(t, x), CutLine(p))
      BY <2>3, <3>1, EmptySeq DEF CutLine
    <3> QED
      BY <2>2, <2>3, <2>4, <3>2
  <2>5. CASE x # c
    <3> DEFINE l == Append(p.line, x)
    <3>1. IsCutAt(c, Append(t, x), p.sent, l)
      BY <2>1, <2>3, <2>5, CutAfterOther
    <3>2. Len(l) = p.count + 1 /\ p.count + 1 <= Len(Append(t, x))
      BY <2>1, <2>3, AppendProperties
    <3>3. KeepChar(p, x).sent = p.sent /\ KeepChar(p, x).line = l
          /\ KeepChar(p, x).count = p.count + 1
      BY <2>1 DEF KeepChar, Split
    <3> HIDE DEF l
    <3>4. Good(Append(t, x), KeepChar(p, x))
      BY <3>1, <3>2, <3>3
    <3> QED
      BY <2>2, <2>3, <2>5, <3>4
  <2> QED
    BY <2>4, <2>5
<1> HIDE DEF S
<1>3. \A t \in Seq(Char) : t \in S
  BY <1>1, <1>2, SeqInduction
<1> QED
  BY <1>3 DEF S

-----------------------------------------------------------------------------
(* Cutting after a number of characters *)

\* The first m pieces of n characters each.
Pieces(str, n, m) == [k \in 1..m |-> SubSeq(str, (k - 1) * n + 1, k * n)]

\* The first m pieces are the first m * n characters.
LEMMA PiecesArePrefix ==
  ASSUME NEW str \in Seq(Char), NEW n \in Nat \ {0}
  PROVE  \A m \in Nat : m * n <= Len(str) =>
           /\ Pieces(str, n, m) \in Seq(Seq(Char)) /\ Len(Pieces(str, n, m)) = m
           /\ \A k \in 1..m : Len(Pieces(str, n, m)[k]) = n
           /\ FlattenSeq(Pieces(str, n, m)) = SubSeq(str, 1, m * n)
<1> DEFINE Good(m) == /\ Pieces(str, n, m) \in Seq(Seq(Char)) /\ Len(Pieces(str, n, m)) = m
                      /\ \A k \in 1..m : Len(Pieces(str, n, m)[k]) = n
                      /\ FlattenSeq(Pieces(str, n, m)) = SubSeq(str, 1, m * n)
           S == {m \in Nat : m * n <= Len(str) => Good(m)}
<1>1. 0 \in S
  <2>1. Pieces(str, n, 0) = <<>>
    BY DEF Pieces
  <2>2. 0 * n = 0
    OBVIOUS
  <2>3. SubSeq(str, 1, 0 * n) = <<>>
    BY <2>2, SubSeqEmpty
  <2>4. <<>> \in Seq(Seq(Char)) /\ Len(<<>>) = 0 /\ \A k \in 1..0 : Len(<<>>[k]) = n
    BY EmptySeq
  <2>5. FlattenSeq(Pieces(str, n, 0)) = SubSeq(str, 1, 0 * n)
    BY <2>1, <2>3, FlattenEmpty
  <2>6. Good(0)
    BY <2>1, <2>4, <2>5
  <2> HIDE DEF Good
  <2> QED
    BY <2>6
<1>2. ASSUME NEW m \in Nat, m \in S PROVE m + 1 \in S
  <2> SUFFICES ASSUME (m + 1) * n <= Len(str) PROVE Good(m + 1)
    OBVIOUS
  <2> DEFINE a == m * n
             b == (m + 1) * n
             p == Pieces(str, n, m)
             q == SubSeq(str, a + 1, b)
  <2>1. a \in Nat /\ b = a + n /\ b <= Len(str) /\ Len(str) \in Nat
    OBVIOUS
  <2>2. Good(m)
    BY <1>2, <2>1
  <2>3. /\ p \in Seq(Seq(Char)) /\ Len(p) = m /\ (\A k \in 1..m : Len(p[k]) = n)
        /\ FlattenSeq(p) = SubSeq(str, 1, a)
    BY <2>2
  <2>4. p = [k \in 1..m |-> SubSeq(str, (k - 1) * n + 1, k * n)]
    BY DEF Pieces
  <2>5. Pieces(str, n, m + 1) = [k \in 1..m+1 |-> SubSeq(str, (k - 1) * n + 1, k * n)]
    BY DEF Pieces
  <2>6. Pieces(str, n, m + 1)[m + 1] = q
    <3>1. m + 1 \in 1..m+1 /\ (m + 1) - 1 = m
      OBVIOUS
    <3> QED
      BY <2>5, <3>1
  <2>7. \A k \in 1..m : Pieces(str, n, m + 1)[k] = p[k]
    BY <2>4, <2>5
  <2> HIDE DEF a, b, p, q
  <2>8. q \in Seq(Char) /\ Len(q) = n
    <3>1. \A i \in a+1..b : str[i] \in Char
      BY <2>1
    <3> QED
      BY <2>1, <3>1, SubSeqProperties DEF q
  <2>9. /\ Append(p, q) \in Seq(Seq(Char)) /\ Len(Append(p, q)) = m + 1
        /\ Append(p, q)[m + 1] = q /\ \A k \in 1..m : Append(p, q)[k] = p[k]
    BY <2>3, <2>8, AppendProperties
  <2> DEFINE t == Pieces(str, n, m + 1)
             u == Append(p, q)
  <2>10. t = u
    <3>1. ASSUME NEW k \in 1..m+1 PROVE t[k] = u[k]
      <4>1. k = m + 1 \/ k \in 1..m
        OBVIOUS
      <4> QED
        BY <2>6, <2>7, <2>9, <4>1
    <3>2. \A k \in 1..m+1 : u[k] \in Seq(Char)
      BY <2>9
    <3>3. t \in [1..m+1 -> Seq(Char)]
      BY <2>5, <3>1, <3>2
    <3>4. t \in Seq(Seq(Char)) /\ Len(t) = m + 1
      <4> HIDE DEF t
      <4> QED
        BY <3>3
    <3> HIDE DEF t, u
    <3> QED
      BY <2>9, <3>1, <3>4, SeqEqual DEF u
  <2>11. ASSUME NEW k \in 1..m+1 PROVE Len(u[k]) = n
    <3>1. k = m + 1 \/ k \in 1..m
      OBVIOUS
    <3>2. CASE k = m + 1
      BY <2>8, <2>9, <3>2
    <3>3. CASE k \in 1..m
      BY <2>3, <2>9, <3>3
    <3> QED
      BY <3>1, <3>2, <3>3
  <2>12. FlattenSeq(Append(p, q)) = SubSeq(str, 1, b)
    <3>1. FlattenSeq(Append(p, q)) = SubSeq(str, 1, a) \o q
      BY <2>3, <2>8, FlattenAppend
    <3>2. a \in 1-1..Len(str) /\ b \in a..Len(str) /\ 1 \in 1..Len(str)+1
      BY <2>1
    <3>3. SubSeq(str, 1, a) \o SubSeq(str, a + 1, b) = SubSeq(str, 1, b)
      BY <3>2, ConcatAdjacentSubSeq
    <3> QED
      BY <3>1, <3>3 DEF q
  <2> QED
    BY <2>9, <2>10, <2>11, <2>12 DEF b
<1> HIDE DEF S
<1>3. \A m \in Nat : m \in S
  BY <1>1, <1>2, Induction
<1> QED
  BY <1>3 DEF S

\* What IsCut asks of a length n.
IsCutAfter(n, str, pieces, rest) ==
  /\ \A i \in 1..Len(pieces) : Len(pieces[i]) = n
  /\ Len(rest) < n
  /\ FlattenSeq(pieces) \o rest = str

\* SplitByLength cuts off pieces of length n and counts what is left.
LEMMA SplitByLengthCuts ==
  ASSUME NEW s \in Seq(Char), NEW n \in Nat \ {0}
  PROVE  LET split == SplitByLength(s, Len(s), n)
         IN  /\ split \in Split
             /\ IsCutAfter(n, s, split.sent, split.line)
             /\ split.count = Len(split.line) /\ split.count <= Len(s)
<1> DEFINE size == Len(s)
<1>0. size \in Nat
  OBVIOUS
<1>1. CASE size < n
  <2> DEFINE p == [sent |-> <<>>, line |-> s, count |-> size]
  <2>1. SplitByLength(s, size, n) = p
    BY <1>1 DEF SplitByLength
  <2>2. p \in Split
    BY <1>0, EmptySeq DEF Split
  <2>3. FlattenSeq(<<>>) \o s = s
    BY FlattenEmpty, ConcatEmptySeq
  <2>4. IsCutAfter(n, s, <<>>, s)
    BY <1>1, <2>3, EmptySeq DEF IsCutAfter
  <2> QED
    BY <1>0, <2>1, <2>2, <2>4
<1>2. CASE ~(size < n)
  <2> DEFINE m == (size - n) \div n + 1
             r == size % n
             a == m * n
             rest == SubSeq(s, size - r + 1, size)
             pieces == Pieces(s, n, m)
             p == [sent |-> pieces, line |-> rest, count |-> r]
  <2>1. SplitByLength(s, size, n) = p
    BY <1>2 DEF SplitByLength, Pieces
  <2>2. m = size \div n /\ m \in Nat /\ r \in 0..n-1
    <3>1. m = size \div n
      BY <1>0, <1>2
    <3>2. size \div n \in Nat /\ r \in 0..n-1
      BY <1>0
    <3> QED
      BY <3>1, <3>2
  <2>3. size = n * (size \div n) + r
    BY <1>0
  <2>4. a = n * m
    BY <2>2
  <2>5. a = size - r /\ a \in 0..size /\ r <= size
    <3>1. size = a + r /\ a \in Nat
      BY <2>2, <2>3, <2>4
    <3> HIDE DEF a, r, size
    <3> QED
      BY <1>0, <2>2, <3>1
  <2>6. /\ pieces \in Seq(Seq(Char)) /\ Len(pieces) = m /\ (\A k \in 1..m : Len(pieces[k]) = n)
        /\ FlattenSeq(pieces) = SubSeq(s, 1, a)
    <3>1. m \in Nat /\ m * n <= Len(s)
      BY <2>2, <2>5
    <3> HIDE DEF m
    <3> QED
      BY <3>1, PiecesArePrefix
  <2>7. rest \in Seq(Char) /\ Len(rest) = r /\ SubSeq(s, 1, a) \o rest = s
    <3> HIDE DEF a, r
    <3>1. \A i \in size - r + 1..size : s[i] \in Char
      BY <2>5
    <3>2. rest \in Seq(Char) /\ Len(rest) = r
      BY <1>0, <2>2, <2>5, <3>1, SubSeqProperties
    <3>3. a \in 1-1..Len(s) /\ size \in a..Len(s) /\ 1 \in 1..Len(s)+1
      BY <2>5
    <3>4. SubSeq(s, 1, a) \o SubSeq(s, a + 1, size) = SubSeq(s, 1, size)
      BY <3>3, ConcatAdjacentSubSeq
    <3>5. SubSeq(s, 1, size) = s
      BY SubSeqFull
    <3>6. a + 1 = size - r + 1
      BY <1>0, <2>2, <2>5
    <3>7. rest = SubSeq(s, a + 1, size)
      BY <3>6
    <3>8. SubSeq(s, 1, a) \o rest = s
      <4> HIDE DEF rest, size
      <4> QED
        BY <3>4, <3>5, <3>7
    <3> QED
      BY <3>2, <3>8
  <2> HIDE DEF pieces, rest, r, a, m
  <2>8. IsCutAfter(n, s, pieces, rest)
    <3>1. \A i \in 1..Len(pieces) : Len(pieces[i]) = n
      BY <2>6
    <3>2. Len(rest) = r /\ r \in 0..n-1
      BY <2>2, <2>7
    <3>3. Len(rest) < n
      BY <3>2
    <3>4. FlattenSeq(pieces) \o rest = s
      BY <2>6, <2>7
    <3> QED
      BY <3>1, <3>3, <3>4 DEF IsCutAfter
  <2>9. p \in Split
    BY <2>2, <2>6, <2>7 DEF Split
  <2> QED
    BY <2>1, <2>5, <2>7, <2>8, <2>9
<1> QED
  BY <1>1, <1>2

-----------------------------------------------------------------------------
(* The inductive invariant *)

\* Options some script asked for.
ScriptOptions(o) ==
  /\ o \in Options
  /\ o.type = "ON_CHAR" => OnChar(o) \in Delimiters
  /\ o.type = "ON_LENGTH" => OnLength(o) \in Lengths

\* The types, with options scripts asked for and both copies of the thread equal.
Types == TypeOK /\ ScriptOptions(callbackOptions) /\ ScriptOptions(cbo) /\ prevOptions = cbo

\* The delimiter just read stays in swallowed until a chunk is sent for it.
Counts ==
  /\ charsRead = Len(line) /\ Len(line) <= Len(input) /\ Len(input) <= MaxInput
  /\ swallowed <= Len(input)
  /\ pc \in {"testChar", "testLength"} /\ cbo.type = "ON_CHAR" /\ ReadDelimiter => swallowed > 0

\* NoDelimiterPending at every step of the thread.
NothingPending == cbo.type = "ON_CHAR" => NoChar(line, OnChar(cbo))

\* The characters that are no delimiters, sent or pending, are those received.
DataKept == DataChars(FlattenSeq(sent) \o line) = DataChars(input)

\* The input the chunks and the line stand for, while the options are untouched.
CutText == FlattenSeq(Ended(sent, OnChar(cbo))) \o line

\* Its chunks and line are the input cut at the delimiter, but for one just read.
CutSoFar ==
  changes = 0 =>
    /\ callbackOptions = cbo /\ cbo.type = "ON_CHAR"
    /\ NoCharIn(sent, OnChar(cbo))
    /\ input = IF pc = "testChar" /\ ReadDelimiter THEN Append(CutText, OnChar(cbo)) ELSE CutText

IInv == Types /\ Counts /\ NothingPending /\ DataKept /\ CutSoFar

\* They ask for a character, or for a positive length.
LEMMA ScriptOptionsFacts ==
  ASSUME NEW o, ScriptOptions(o)
  PROVE  /\ o.type = "ON_CHAR" => OnChar(o) \in Char /\ OnChar(o) \in Delimiters
         /\ o.type # "ON_CHAR" => o.type = "ON_LENGTH" /\ OnLength(o) \in Nat \ {0}
BY OptionsAssumption DEF ScriptOptions, Options, OptionsAssumption, Char

\* Cutting by the options of a script.
LEMMA ResplitCuts ==
  ASSUME NEW o, ScriptOptions(o), NEW s \in Seq(Char)
  PROVE  LET split == Resplit(o, s, Len(s))
         IN  /\ split \in Split /\ IsCut(o, s, split.sent, split.line)
             /\ split.count = Len(split.line) /\ split.count <= Len(s)
             /\ DataChars(FlattenSeq(split.sent) \o split.line) = DataChars(s)
             /\ o.type = "ON_CHAR" => NoChar(split.line, OnChar(o))
<1>1. CASE o.type = "ON_CHAR"
  <2> DEFINE c == OnChar(o)
             p == SplitByChar(s, c)
  <2>1. c \in Char /\ c \in Delimiters
    BY <1>1, ScriptOptionsFacts
  <2>2. Resplit(o, s, Len(s)) = p
    BY <1>1 DEF Resplit
  <2>3. /\ p \in Split /\ IsCutAt(c, s, p.sent, p.line)
        /\ p.count = Len(p.line) /\ p.count <= Len(s)
    BY <2>1, SplitRun, SplitByCharCuts
  <2> HIDE DEF p
  <2>4. p.sent \in Seq(Seq(Char)) /\ p.line \in Seq(Char)
    BY <2>3 DEF Split
  <2> HIDE DEF c
  <2>5. DataChars(FlattenSeq(p.sent) \o p.line) = DataChars(s)
    BY <2>1, <2>3, <2>4, CutData
  <2>6. IsCut(o, s, p.sent, p.line)
    BY <1>1, <2>3 DEF IsCut, IsCutAt, NoCharIn, Ended, c
  <2>7. NoChar(p.line, c)
    BY <2>3 DEF IsCutAt
  <2> QED
    BY <2>2, <2>3, <2>5, <2>6, <2>7 DEF c
<1>2. CASE o.type # "ON_CHAR"
  <2> DEFINE n == OnLength(o)
             p == SplitByLength(s, Len(s), n)
  <2>1. n \in Nat \ {0}
    BY <1>2, ScriptOptionsFacts
  <2>2. Resplit(o, s, Len(s)) = p
    BY <1>2 DEF Resplit
  <2>3. /\ p \in Split /\ IsCutAfter(n, s, p.sent, p.line)
        /\ p.count = Len(p.line) /\ p.count <= Len(s)
    BY <2>1, SplitByLengthCuts
  <2> HIDE DEF p
  <2>4. IsCut(o, s, p.sent, p.line)
    BY <1>2, <2>3 DEF IsCut, IsCutAfter
  <2>5. FlattenSeq(p.sent) \o p.line = s
    BY <2>3 DEF IsCutAfter
  <2> QED
    BY <1>2, <2>2, <2>3, <2>4, <2>5
<1> QED
  BY <1>1, <1>2

-----------------------------------------------------------------------------
(* The first state and the commands *)

\* The constructor asks for a delimiter and nothing was read.
LEMMA InitIInv == Init => IInv
<1> SUFFICES ASSUME Init PROVE IInv
  OBVIOUS
<1>1. PICK u \in UpperBytes, c \in Delimiters :
        callbackOptions = [type |-> "ON_CHAR", value |-> u * ByteSize + c]
  BY DEF Init
<1>2. ScriptOptions(callbackOptions) /\ callbackOptions.type = "ON_CHAR"
  <2>1. u \in Nat /\ ByteSize \in Nat \ {0} /\ c \in 0..ByteSize - 1 /\ c \in Nat
    BY OptionsAssumption DEF OptionsAssumption
  <2>2. u * ByteSize \in Nat
    BY <2>1
  <2>3. (u * ByteSize + c) % ByteSize = c
    BY <2>1
  <2>4. callbackOptions.value = u * ByteSize + c /\ callbackOptions.type = "ON_CHAR"
    BY <1>1
  <2>5. OnChar(callbackOptions) \in Delimiters
    BY <2>3, <2>4 DEF OnChar
  <2>6. callbackOptions \in Options
    BY <1>1, <2>1, <2>2 DEF Options
  <2> QED
    BY <2>4, <2>5, <2>6 DEF ScriptOptions
<1>3. /\ prevOptions = callbackOptions /\ cbo = callbackOptions
      /\ pc = "snapshot" /\ line = <<>> /\ charsRead = 0 /\ readOk = FALSE /\ readChar = 0
      /\ sent = <<>> /\ input = <<>> /\ changes = 0 /\ swallowed = 0
  BY DEF Init
<1>4. <<>> \in Seq(Char) /\ <<>> \in Seq(Seq(Char)) /\ Len(<<>>) = 0
  BY EmptySeq
<1>5. 0 \in Char /\ 0 \in 0..MaxInput /\ 0 \in 0..MaxChanges
  BY OptionsAssumption DEF OptionsAssumption, Char
<1>6. Types
  BY <1>2, <1>3, <1>4, <1>5 DEF Types, TypeOK, ScriptOptions
<1>7. Counts
  BY <1>3, <1>4, <1>5 DEF Counts
<1>8. IsCutAt(OnChar(cbo), <<>>, <<>>, <<>>)
  BY NothingCut
<1>9. NothingPending /\ CutSoFar
  BY <1>2, <1>3, <1>8 DEF NothingPending, CutSoFar, CutText, IsCutAt
<1>10. DataKept
  <2>1. FlattenSeq(<<>>) \o <<>> = <<>>
    BY <1>4, FlattenEmpty, ConcatEmptySeq
  <2> QED
    BY <1>3, <2>1 DEF DataKept
<1> QED
  BY <1>6, <1>7, <1>9, <1>10 DEF IInv

\* A command leaves everything but the shared options alone.
LEMMA SetOptionsStep ==
  ASSUME IInv, NEW type, NEW value, SetOptions(type, value),
         ScriptOptions([type |-> type, value |-> value])
  PROVE  IInv'
<1>1. /\ changes < MaxChanges /\ changes' = changes + 1
      /\ callbackOptions' = [type |-> type, value |-> value]
      /\ UNCHANGED <<prevOptions, cbo, pc, line, charsRead, readOk, readChar, sent, input,
                     swallowed>>
  BY DEF SetOptions
<1>2. Types'
  <2>1. changes \in 0..MaxChanges /\ MaxChanges \in Nat
    BY OptionsAssumption DEF IInv, Types, TypeOK, OptionsAssumption
  <2>2. changes' \in 0..MaxChanges
    BY <1>1, <2>1
  <2> QED
    BY <1>1, <2>2 DEF IInv, Types, TypeOK, ScriptOptions
<1>3. Counts'
  BY <1>1 DEF IInv, Counts, ReadDelimiter
<1>4. NothingPending' /\ DataKept'
  BY <1>1 DEF IInv, NothingPending, DataKept
<1>5. CutSoFar'
  <2>1. changes' # 0
    BY <1>1 DEF IInv, Types, TypeOK
  <2> QED
    BY <2>1 DEF CutSoFar
<1> QED
  BY <1>2, <1>3, <1>4, <1>5 DEF IInv

\* callbackOnChar replaces the low byte and keeps the others.
LEMMA CallbackOnCharStep ==
  ASSUME IInv, CallbackOnChar
  PROVE  IInv'
<1>1. PICK c \in Delimiters :
        SetOptions("ON_CHAR", (callbackOptions.value \div ByteSize) * ByteSize + c)
  BY DEF CallbackOnChar
<1> DEFINE v == callbackOptions.value \div ByteSize
           o == [type |-> "ON_CHAR", value |-> v * ByteSize + c]
<1>2. callbackOptions.value \in Nat /\ ByteSize \in Nat \ {0} /\ c \in 0..ByteSize - 1 /\ c \in Nat
  BY OptionsAssumption DEF OptionsAssumption, IInv, Types, ScriptOptions, Options
<1>3. v \in Nat
  BY <1>2
<1> HIDE DEF v
<1>4. v * ByteSize + c \in Nat /\ (v * ByteSize + c) % ByteSize = c
  BY <1>2, <1>3
<1>5. ScriptOptions(o)
  BY <1>4 DEF ScriptOptions, Options, OnChar
<1> QED
  BY <1>1, <1>5, SetOptionsStep DEF v

\* callbackOnLength refuses what is no length.
LEMMA CallbackOnLengthStep ==
  ASSUME IInv, CallbackOnLength
  PROVE  IInv'
<1>1. PICK n \in Lengths : SetOptions("ON_LENGTH", n)
  BY DEF CallbackOnLength
<1>2. ScriptOptions([type |-> "ON_LENGTH", value |-> n])
  BY OptionsAssumption DEF OptionsAssumption, ScriptOptions, Options, OnLength
<1> QED
  BY <1>1, <1>2, SetOptionsStep

-----------------------------------------------------------------------------
(* The steps of the read thread *)

\* What the steps below need of the types.
LEMMA IInvTypes ==
  ASSUME IInv
  PROVE  /\ line \in Seq(Char) /\ sent \in Seq(Seq(Char)) /\ input \in Seq(Char)
         /\ charsRead = Len(line) /\ Len(line) \in Nat /\ Len(input) \in Nat
         /\ ScriptOptions(cbo) /\ ScriptOptions(callbackOptions) /\ prevOptions = cbo
         /\ FlattenSeq(sent) \in Seq(Char)
<1>1. line \in Seq(Char) /\ sent \in Seq(Seq(Char)) /\ input \in Seq(Char)
  BY DEF IInv, Types, TypeOK
<1>2. FlattenSeq(sent) \in Seq(Char)
  BY <1>1, FlattenRun
<1>3. Len(line) \in Nat /\ Len(input) \in Nat
  BY <1>1
<1> QED
  BY <1>1, <1>2, <1>3 DEF IInv, Types, Counts

\* Equal options ask for the same delimiter.
LEMMA SameOptionsFacts ==
  ASSUME NEW a, NEW b, SameOptions(a, b)
  PROVE  a.type = b.type /\ (a.type = "ON_CHAR" => OnChar(a) = OnChar(b))
BY DEF SameOptions

\* A new pass cuts the pending line by the new options, if they differ.
LEMMA TakeOptionsStep ==
  ASSUME IInv, TakeOptions
  PROVE  /\ IInv'
         /\ ~SameOptions(prevOptions, callbackOptions) =>
              IsCut(callbackOptions, line, SubSeq(sent', Len(sent) + 1, Len(sent')), line')
<1>0. /\ line \in Seq(Char) /\ sent \in Seq(Seq(Char)) /\ input \in Seq(Char)
      /\ charsRead = Len(line) /\ Len(line) \in Nat /\ Len(input) \in Nat
      /\ ScriptOptions(cbo) /\ ScriptOptions(callbackOptions) /\ prevOptions = cbo
      /\ FlattenSeq(sent) \in Seq(Char)
  BY IInvTypes
<1>1. /\ pc = "snapshot" /\ pc' = "read"
      /\ cbo' = callbackOptions /\ prevOptions' = callbackOptions
      /\ UNCHANGED <<callbackOptions, changes, readOk, readChar, input, swallowed>>
  BY DEF TakeOptions, optionVars
<1>2. CASE SameOptions(prevOptions, callbackOptions)
  <2>1. UNCHANGED <<line, charsRead, sent>>
    BY <1>2 DEF TakeOptions
  <2>2. cbo.type = callbackOptions.type
        /\ (cbo.type = "ON_CHAR" => OnChar(cbo) = OnChar(callbackOptions))
    BY <1>0, <1>2, SameOptionsFacts
  <2>3. Types'
    BY <1>1, <2>1 DEF IInv, Types, TypeOK, ScriptOptions
  <2>4. Counts'
    BY <1>1, <2>1 DEF IInv, Counts
  <2>5. NothingPending' /\ DataKept'
    BY <1>1, <2>1, <2>2 DEF IInv, NothingPending, DataKept
  <2>6. CutSoFar'
    BY <1>1, <2>1, <2>2 DEF IInv, CutSoFar, CutText
  <2> QED
    BY <1>2, <2>3, <2>4, <2>5, <2>6 DEF IInv
<1>3. CASE ~SameOptions(prevOptions, callbackOptions)
  <2> DEFINE split == Resplit(callbackOptions, line, charsRead)
  <2>1. sent' = sent \o split.sent /\ line' = split.line /\ charsRead' = split.count
    BY <1>3 DEF TakeOptions
  <2>2. /\ split \in Split /\ IsCut(callbackOptions, line, split.sent, split.line)
        /\ split.count = Len(split.line) /\ split.count <= Len(line)
        /\ DataChars(FlattenSeq(split.sent) \o split.line) = DataChars(line)
        /\ callbackOptions.type = "ON_CHAR" => NoChar(split.line, OnChar(callbackOptions))
    BY <1>0, ResplitCuts
  <2> HIDE DEF split
  <2> DEFINE p == split.sent
             l == split.line
             f == FlattenSeq(p)
             g == FlattenSeq(sent)
  <2>3. p \in Seq(Seq(Char)) /\ l \in Seq(Char) /\ split.count \in Nat
    BY <2>2 DEF Split
  <2>4. sent' \in Seq(Seq(Char)) /\ Len(sent') = Len(sent) + Len(p)
    BY <1>0, <2>1, <2>3, ConcatProperties
  <2>5. f \in Seq(Char) /\ g \in Seq(Char) /\ FlattenSeq(sent') = g \o f
    <3>1. FlattenSeq(sent \o p) = g \o f
      <4> HIDE DEF p
      <4> QED
        BY <1>0, <2>3, FlattenConcat
    <3> QED
      BY <1>0, <2>1, <2>3, <3>1, FlattenRun
  <2>6. Types'
    <3>1. split.count <= MaxInput
      BY <1>0, <2>2, <2>3, OptionsAssumption DEF IInv, Counts, OptionsAssumption
    <3>2. charsRead' \in 0..MaxInput
      BY <2>1, <2>3, <3>1
    <3> QED
      BY <1>1, <2>1, <2>3, <2>4, <3>2 DEF IInv, Types, TypeOK, ScriptOptions
  <2>7. Counts'
    <3>1. Len(line') <= Len(input)
      BY <1>0, <2>1, <2>2, <2>3 DEF IInv, Counts
    <3>2. charsRead' = Len(line')
      BY <2>1, <2>2
    <3> QED
      BY <1>1, <3>1, <3>2 DEF IInv, Counts
  <2>8. NothingPending'
    BY <1>1, <2>1, <2>2 DEF NothingPending
  <2>9. DataKept'
    <3>1. FlattenSeq(sent') \o line' = g \o (f \o l)
      <4>1. (g \o f) \o l = g \o (f \o l)
        <5>1. f \in Seq(Char) /\ g \in Seq(Char) /\ l \in Seq(Char)
          BY <2>3, <2>5
        <5> HIDE DEF f, g, l
        <5> QED
          BY <5>1
      <4> QED
        BY <2>1, <2>5, <4>1
    <3>2. DataChars(g \o (f \o l)) = DataChars(g) \o DataChars(f \o l)
      <4> HIDE DEF f, g, l
      <4>1. f \o l \in Seq(Char)
        BY <2>3, <2>5, ConcatProperties
      <4> QED
        BY <2>5, <4>1, DataConcat
    <3>3. DataChars(g \o line) = DataChars(g) \o DataChars(line)
      BY <1>0, DataConcat
    <3>4. DataChars(g \o line) = DataChars(input)
      BY DEF IInv, DataKept
    <3> QED
      BY <1>1, <2>2, <3>1, <3>2, <3>3, <3>4 DEF DataKept
  <2>10. CutSoFar'
    <3>1. ASSUME changes = 0 PROVE FALSE
      <4>1. callbackOptions = prevOptions
        BY <1>0, <3>1 DEF IInv, CutSoFar
      <4>2. SameOptions(prevOptions, callbackOptions)
        BY <4>1 DEF SameOptions
      <4> QED
        BY <1>3, <4>2
    <3> QED
      BY <1>1, <3>1 DEF CutSoFar
  <2>11. SubSeq(sent', Len(sent) + 1, Len(sent')) = p
    <3>1. Len(sent) \in Nat /\ Len(p) \in Nat
      BY <1>0, <2>3
    <3>2. CASE p = <<>>
      <4>1. Len(p) = 0 /\ Len(sent') = Len(sent)
        BY <2>4, <3>1, <3>2
      <4>2. SubSeq(sent', Len(sent) + 1, Len(sent)) = <<>>
        BY <3>1, SubSeqEmpty
      <4> QED
        BY <3>2, <4>1, <4>2
    <3>3. CASE p # <<>>
      <4>1. Len(p) # 0
        BY <2>3, <3>3, EmptySeq
      <4> DEFINE m == Len(sent) + 1
                 n == Len(sent) + Len(p)
      <4>2. m \in Len(sent)+1..Len(sent)+Len(p) /\ n \in Len(sent)+1..Len(sent)+Len(p)
            /\ m - Len(sent) = 1 /\ n - Len(sent) = Len(p)
        BY <3>1, <4>1
      <4>3. SubSeq(sent \o p, m, n) = SubSeq(p, 1, Len(p))
        <5> HIDE DEF m, n, p
        <5>1. SubSeq(sent \o p, m, n) = SubSeq(p, m - Len(sent), n - Len(sent))
          BY <1>0, <2>3, <4>2, SubSeqOfConcat2
        <5> QED
          BY <4>2, <5>1
      <4>4. SubSeq(p, 1, Len(p)) = p
        BY <2>3, SubSeqFull
      <4> QED
        BY <2>1, <2>4, <4>3, <4>4
    <3> QED
      BY <3>2, <3>3
  <2> QED
    BY <2>1, <2>2, <2>6, <2>7, <2>8, <2>9, <2>10, <2>11 DEF IInv
<1> QED
  BY <1>2, <1>3

\* Another character joins the data exactly once.
LEMMA DataOneMore ==
  ASSUME NEW f \in Seq(Char), NEW l \in Seq(Char), NEW i \in Seq(Char), NEW c \in Char,
         DataChars(f \o l) = DataChars(i)
  PROVE  DataChars(f \o Append(l, c)) = DataChars(Append(i, c))
<1>1. f \o Append(l, c) = Append(f \o l, c) /\ f \o l \in Seq(Char)
  BY ConcatAppend, ConcatProperties
<1>2. DataChars(Append(f \o l, c)) =
        IF c \in Delimiters THEN DataChars(f \o l) ELSE Append(DataChars(f \o l), c)
  BY <1>1, DataAppend
<1>3. DataChars(Append(i, c)) =
        IF c \in Delimiters THEN DataChars(i) ELSE Append(DataChars(i), c)
  BY DataAppend
<1> QED
  BY <1>1, <1>2, <1>3

\* readOneChar times out.
LEMMA ReadNothingStep ==
  ASSUME IInv, pc = "read", pc' = "testChar", readOk' = FALSE,
         UNCHANGED <<readChar, line, charsRead, input, swallowed, callbackOptions, changes,
                     prevOptions, cbo, sent>>
  PROVE  IInv'
<1>1. Types'
  BY DEF IInv, Types, TypeOK, ScriptOptions
<1>2. Counts'
  BY DEF IInv, Counts, ReadDelimiter
<1>3. NothingPending' /\ DataKept'
  BY DEF IInv, NothingPending, DataKept
<1>4. CutSoFar'
  BY DEF IInv, CutSoFar, CutText, ReadDelimiter
<1> QED
  BY <1>1, <1>2, <1>3, <1>4 DEF IInv

\* readOneChar reads the delimiter, which does not join the line.
LEMMA ReadDelimiterStep ==
  ASSUME IInv, pc = "read", pc' = "testChar", NEW c \in Char, Len(input) < MaxInput,
         readOk' = TRUE, readChar' = c, input' = Append(input, c),
         cbo.type = "ON_CHAR", c = OnChar(cbo), swallowed' = swallowed + 1,
         UNCHANGED <<line, charsRead, callbackOptions, changes, prevOptions, cbo, sent>>
  PROVE  IInv'
<1>0. /\ line \in Seq(Char) /\ sent \in Seq(Seq(Char)) /\ input \in Seq(Char)
      /\ charsRead = Len(line) /\ Len(line) \in Nat /\ Len(input) \in Nat
      /\ ScriptOptions(cbo)
  BY IInvTypes
<1>1. input' \in Seq(Char) /\ Len(input') = Len(input) + 1 /\ c \in Delimiters
  BY <1>0, AppendProperties, ScriptOptionsFacts
<1>2. MaxInput \in Nat /\ swallowed \in Nat /\ swallowed <= Len(input) /\ Len(line) <= Len(input)
  BY OptionsAssumption DEF OptionsAssumption, IInv, Types, TypeOK, Counts
<1>3. swallowed' \in 0..MaxInput /\ swallowed' <= Len(input') /\ swallowed' > 0
      /\ Len(line) <= Len(input') /\ Len(input') <= MaxInput
  BY <1>0, <1>1, <1>2
<1>4. Types'
  BY <1>1, <1>3 DEF IInv, Types, TypeOK, ScriptOptions
<1>5. Counts'
  BY <1>0, <1>3 DEF Counts
<1>6. NothingPending'
  BY DEF IInv, NothingPending
<1>7. DataKept'
  <2>1. DataChars(Append(input, c)) = DataChars(input)
    BY <1>0, <1>1, DataAppend
  <2> QED
    BY <2>1 DEF IInv, DataKept
<1>8. CutSoFar'
  BY DEF IInv, CutSoFar, CutText, ReadDelimiter
<1> QED
  BY <1>4, <1>5, <1>6, <1>7, <1>8 DEF IInv

\* readOneChar reads another character, which does.
LEMMA ReadOtherStep ==
  ASSUME IInv, pc = "read", pc' = "testChar", NEW c \in Char, Len(input) < MaxInput,
         readOk' = TRUE, readChar' = c, input' = Append(input, c),
         ~(cbo.type = "ON_CHAR" /\ c = OnChar(cbo)),
         line' = Append(line, c), charsRead' = charsRead + 1,
         UNCHANGED <<swallowed, callbackOptions, changes, prevOptions, cbo, sent>>
  PROVE  IInv'
<1>0. /\ line \in Seq(Char) /\ sent \in Seq(Seq(Char)) /\ input \in Seq(Char)
      /\ charsRead = Len(line) /\ Len(line) \in Nat /\ Len(input) \in Nat
      /\ ScriptOptions(cbo) /\ FlattenSeq(sent) \in Seq(Char)
  BY IInvTypes
<1>1. input' \in Seq(Char) /\ Len(input') = Len(input) + 1
      /\ line' \in Seq(Char) /\ Len(line') = Len(line) + 1
  BY <1>0, AppendProperties
<1>2. MaxInput \in Nat /\ swallowed \in Nat /\ swallowed <= Len(input) /\ Len(line) <= Len(input)
  BY OptionsAssumption DEF OptionsAssumption, IInv, Types, TypeOK, Counts
<1>3. swallowed <= Len(input') /\ Len(line') <= Len(input') /\ Len(input') <= MaxInput
      /\ charsRead' \in 0..MaxInput /\ charsRead' = Len(line')
  BY <1>0, <1>1, <1>2
<1>4. Types'
  BY <1>1, <1>3 DEF IInv, Types, TypeOK, ScriptOptions
<1>5. Counts'
  BY <1>3 DEF Counts, ReadDelimiter
<1>6. NothingPending'
  BY <1>0, NoCharAppend DEF IInv, NothingPending
<1>7. DataKept'
  BY <1>0, DataOneMore DEF IInv, DataKept
<1>8. CutSoFar'
  <2> SUFFICES ASSUME changes = 0 PROVE CutSoFar'
    BY DEF CutSoFar
  <2> DEFINE e == FlattenSeq(Ended(sent, OnChar(cbo)))
  <2>1. /\ callbackOptions = cbo /\ cbo.type = "ON_CHAR"
        /\ NoCharIn(sent, OnChar(cbo)) /\ input = e \o line
    BY DEF IInv, CutSoFar, CutText
  <2>2. OnChar(cbo) \in Char /\ c # OnChar(cbo)
    BY <1>0, <2>1, ScriptOptionsFacts
  <2>3. e \in Seq(Char)
    BY <1>0, <2>2, EndedType, FlattenRun
  <2>4. e' = e
    OBVIOUS
  <2> HIDE DEF e
  <2>5. e \o Append(line, c) = Append(e \o line, c)
    BY <1>0, <2>3, ConcatAppend
  <2>6. input' = e \o line'
    BY <2>1, <2>5
  <2> QED
    BY <2>1, <2>2, <2>4, <2>6 DEF CutSoFar, CutText, ReadDelimiter, e
<1> QED
  BY <1>4, <1>5, <1>6, <1>7, <1>8 DEF IInv

\* readOneChar, all cases.
LEMMA ReadOneCharStep ==
  ASSUME IInv, ReadOneChar
  PROVE  IInv'
<1>1. pc = "read" /\ pc' = "testChar"
      /\ UNCHANGED <<callbackOptions, changes, prevOptions, cbo, sent>>
  BY DEF ReadOneChar, optionVars
<1>2. CASE readOk' = FALSE /\ UNCHANGED <<readChar, line, charsRead, input, swallowed>>
  <2>1. UNCHANGED <<readChar, line, charsRead, input, swallowed, callbackOptions, changes,
                    prevOptions, cbo, sent>>
    BY <1>1, <1>2
  <2>2. readOk' = FALSE
    BY <1>2
  <2> QED
    BY <1>1, <2>1, <2>2, ReadNothingStep, Zenon
<1>3. ASSUME NEW c \in Char,
             /\ Len(input) < MaxInput
             /\ readOk' = TRUE /\ readChar' = c /\ input' = Append(input, c)
             /\ IF cbo.type = "ON_CHAR" /\ c = OnChar(cbo)
                THEN swallowed' = swallowed + 1 /\ UNCHANGED <<line, charsRead>>
                ELSE line' = Append(line, c) /\ charsRead' = charsRead + 1 /\ UNCHANGED swallowed
      PROVE  IInv'
  <2>1. CASE cbo.type = "ON_CHAR" /\ c = OnChar(cbo)
    BY <1>1, <1>3, <2>1, ReadDelimiterStep
  <2>2. CASE ~(cbo.type = "ON_CHAR" /\ c = OnChar(cbo))
    BY <1>1, <1>3, <2>2, ReadOtherStep
  <2> QED
    BY <2>1, <2>2
<1> QED
  BY <1>2, <1>3 DEF ReadOneChar

-----------------------------------------------------------------------------
(* Sending the line, or not *)

\* A test that sends nothing.  With the options untouched no delimiter was read.
LEMMA KeepLineStep ==
  ASSUME IInv, KeepLine, pc \in {"testChar", "testLength"}, pc' \in {"testLength", "snapshot"},
         pc' = "snapshot" \/ pc = "testChar", pc = "testChar" => ~(ReadDelimiter /\ changes = 0),
         UNCHANGED <<callbackOptions, changes, prevOptions, cbo, readOk, readChar, input>>
  PROVE  IInv'
<1> USE DEF KeepLine
<1>1. Types'
  BY DEF IInv, Types, TypeOK, ScriptOptions
<1>2. Counts'
  BY DEF IInv, Counts, ReadDelimiter
<1>3. NothingPending' /\ DataKept'
  BY DEF IInv, NothingPending, DataKept
<1>4. CutSoFar'
  BY DEF IInv, CutSoFar, CutText, ReadDelimiter
<1> QED
  BY <1>1, <1>2, <1>3, <1>4 DEF IInv

\* A test that sends the line.  With the options untouched its delimiter was read.
LEMMA SendLineStep ==
  ASSUME IInv, SendLine, pc \in {"testChar", "testLength"}, pc' = "snapshot",
         changes = 0 => pc = "testChar" /\ ReadDelimiter,
         UNCHANGED <<callbackOptions, changes, prevOptions, cbo, readOk, readChar, input>>
  PROVE  IInv'
<1>0. /\ line \in Seq(Char) /\ sent \in Seq(Seq(Char)) /\ input \in Seq(Char)
      /\ charsRead = Len(line) /\ Len(line) \in Nat /\ Len(input) \in Nat
      /\ ScriptOptions(cbo) /\ FlattenSeq(sent) \in Seq(Char)
  BY IInvTypes
<1>1. /\ sent' = Append(sent, line) /\ line' = <<>> /\ charsRead' = 0
      /\ swallowed' = IF cbo.type = "ON_CHAR" /\ ReadDelimiter THEN swallowed - 1 ELSE swallowed
  BY DEF SendLine
<1>2. sent' \in Seq(Seq(Char)) /\ line' \in Seq(Char) /\ Len(line') = 0
  BY <1>0, <1>1, AppendProperties, EmptySeq
<1>3. MaxInput \in Nat /\ swallowed \in 0..MaxInput /\ swallowed <= Len(input)
      /\ (cbo.type = "ON_CHAR" /\ ReadDelimiter => swallowed > 0)
  BY OptionsAssumption DEF OptionsAssumption, IInv, Types, TypeOK, Counts
<1>4. swallowed' \in 0..MaxInput /\ swallowed' <= Len(input)
  BY <1>0, <1>1, <1>3
<1>5. Types'
  BY <1>1, <1>2, <1>3, <1>4 DEF IInv, Types, TypeOK, ScriptOptions
<1>6. Counts'
  BY <1>0, <1>1, <1>2, <1>4 DEF IInv, Counts
<1>7. NothingPending'
  BY <1>2 DEF NothingPending, NoChar
<1>8. DataKept'
  <2>1. FlattenSeq(sent') = FlattenSeq(sent) \o line
    BY <1>0, <1>1, FlattenAppend
  <2>2. FlattenSeq(sent') \in Seq(Char)
    BY <1>2, FlattenRun
  <2>3. FlattenSeq(sent') \o <<>> = FlattenSeq(sent')
    BY <2>2, ConcatEmptySeq
  <2> QED
    BY <1>1, <2>1, <2>3 DEF IInv, DataKept
<1>9. CutSoFar'
  <2> SUFFICES ASSUME changes = 0 PROVE CutSoFar'
    BY DEF CutSoFar
  <2> DEFINE c == OnChar(cbo)
             e == FlattenSeq(Ended(sent, c))
  <2>1. /\ callbackOptions = cbo /\ cbo.type = "ON_CHAR" /\ NoCharIn(sent, c)
        /\ input = Append(e \o line, c) /\ NoChar(line, c)
    BY DEF IInv, CutSoFar, CutText, NothingPending
  <2>2. c \in Char /\ c' = c
    BY <1>0, <2>1, ScriptOptionsFacts
  <2> DEFINE t == e \o line
  <2>3. t \in Seq(Char) /\ IsCutAt(c, t, sent, line)
    <3>1. e \in Seq(Char)
      BY <1>0, <2>2, EndedType, FlattenRun
    <3>2. t \in Seq(Char)
      BY <1>0, <3>1, ConcatProperties
    <3> QED
      BY <2>1, <3>2 DEF IsCutAt
  <2>4. input = Append(t, c)
    BY <2>1
  <2> HIDE DEF c, e, t
  <2>5. IsCutAt(c, input, Append(sent, line), <<>>)
    BY <1>0, <2>2, <2>3, <2>4, CutAfterDelimiter
  <2> QED
    BY <1>1, <2>1, <2>2, <2>5 DEF CutSoFar, CutText, IsCutAt, c
<1> QED
  BY <1>5, <1>6, <1>7, <1>8, <1>9 DEF IInv

\* With the options untouched the read thread tests for the delimiter it read.
LEMMA Untouched ==
  ASSUME IInv, changes = 0
  PROVE  callbackOptions.type = "ON_CHAR"
BY DEF IInv, CutSoFar

\* The first unlocked look at the type.
LEMMA TestCharStep ==
  ASSUME IInv, TestChar
  PROVE  IInv'
<1>1. pc = "testChar"
      /\ UNCHANGED <<callbackOptions, changes, prevOptions, cbo, readOk, readChar, input>>
  BY DEF TestChar, optionVars
<1>2. CASE callbackOptions.type = "ON_CHAR" /\ readOk /\ ReadDelimiter
  <2>1. pc' = "snapshot" /\ SendLine
    BY <1>2 DEF TestChar
  <2> QED
    BY <1>1, <1>2, <2>1, SendLineStep
<1>3. CASE callbackOptions.type = "ON_CHAR" /\ readOk /\ ~ReadDelimiter
  <2>1. pc' = "snapshot" /\ KeepLine
    BY <1>3 DEF TestChar
  <2> QED
    BY <1>1, <1>3, <2>1, KeepLineStep
<1>4. CASE ~(callbackOptions.type = "ON_CHAR" /\ readOk)
  <2>1. pc' = "testLength" /\ KeepLine
    BY <1>4 DEF TestChar
  <2>2. ~(ReadDelimiter /\ changes = 0)
    BY <1>4, Untouched DEF ReadDelimiter
  <2> QED
    BY <1>1, <2>1, <2>2, KeepLineStep
<1> QED
  BY <1>2, <1>3, <1>4

\* The second one, which sends nothing with the options untouched.
LEMMA TestLengthStep ==
  ASSUME IInv, TestLength
  PROVE  IInv'
<1>1. pc = "testLength" /\ pc' = "snapshot"
      /\ UNCHANGED <<callbackOptions, changes, prevOptions, cbo, readOk, readChar, input>>
  BY DEF TestLength, optionVars
<1>2. CASE callbackOptions.type = "ON_LENGTH" /\ charsRead >= OnLength(cbo)
  <2>1. SendLine /\ changes # 0
    BY <1>2, Untouched DEF TestLength
  <2> QED
    BY <1>1, <2>1, SendLineStep
<1>3. CASE ~(callbackOptions.type = "ON_LENGTH" /\ charsRead >= OnLength(cbo))
  <2>1. KeepLine
    BY <1>3 DEF TestLength
  <2> QED
    BY <1>1, <2>1, KeepLineStep
<1> QED
  BY <1>2, <1>3

\* Every step keeps the invariant.
LEMMA IInvStep == IInv /\ [Next]_vars => IInv'
<1> SUFFICES ASSUME IInv, [Next]_vars PROVE IInv'
  OBVIOUS
<1>1. CASE CallbackOnChar
  BY <1>1, CallbackOnCharStep
<1>2. CASE CallbackOnLength
  BY <1>2, CallbackOnLengthStep
<1>3. CASE TakeOptions
  BY <1>3, TakeOptionsStep
<1>4. CASE ReadOneChar
  BY <1>4, ReadOneCharStep
<1>5. CASE TestChar
  BY <1>5, TestCharStep
<1>6. CASE TestLength
  BY <1>6, TestLengthStep
<1>7. CASE UNCHANGED vars
  BY <1>7 DEF vars, IInv, Types, TypeOK, ScriptOptions, Counts, ReadDelimiter, NothingPending,
              DataKept, CutSoFar, CutText
<1> QED
  BY <1>1, <1>2, <1>3, <1>4, <1>5, <1>6, <1>7 DEF Next

-----------------------------------------------------------------------------
(* The theorems *)

\* The invariant holds however the commands fall between the steps of the read
\* thread.
THEOREM Invariant == Spec => []IInv
BY InitIInv, IInvStep, PTL DEF Spec

\* The types of the read loop: no chunk or line has anything but characters, and
\* the unsigned count never falls below zero.
THEOREM TypeCorrect == Spec => []TypeOK
<1>1. IInv => TypeOK
  BY DEF IInv, Types
<1> QED
  BY <1>1, Invariant, PTL

\* No race over the options loses, repeats or reorders a character that is no
\* delimiter, and charsRead counts the line.
THEOREM Conserved == Spec => []OtherCharsConserved
<1>1. IInv => OtherCharsConserved
  BY DEF IInv, Counts, DataKept, OtherCharsConserved
<1> QED
  BY <1>1, Invariant, PTL

\* The thread never waits under a delimiter with that delimiter in its line.
THEOREM DelimiterNeverPending == Spec => []NoDelimiterPending
<1>1. IInv => NoDelimiterPending
  BY DEF IInv, NothingPending, NoDelimiterPending
<1> QED
  BY <1>1, Invariant, PTL

\* Without commands the chunks are the input, cut at each delimiter.
THEOREM InputCut == Spec => []WholeInputCut
<1>1. IInv => WholeInputCut
  BY DEF IInv, CutSoFar, CutText, NothingPending, NoCharIn, Ended, WholeInputCut, IsCut
<1> QED
  BY <1>1, Invariant, PTL

\* The loops that cut the pending line anew give what the new options define.
THEOREM ResplitCut == Spec => ResplitIsCut
<1> DEFINE Cut == TakeOptions /\ ~SameOptions(prevOptions, callbackOptions) =>
                    IsCut(callbackOptions, line, SubSeq(sent', Len(sent) + 1, Len(sent')), line')
<1>1. IInv /\ [Next]_vars => [Cut]_vars
  BY TakeOptionsStep
<1> QED
  BY <1>1, Invariant, PTL DEF Spec, ResplitIsCut

-----------------------------------------------------------------------------
(* Where the documentation is right: scripts that use delimiters only, and  *)
(* scripts that set the options once.                                       *)

\* Every type is ON_CHAR, and only a delimiter just read awaits its chunk.
CharInv ==
  /\ callbackOptions.type = "ON_CHAR" /\ cbo.type = "ON_CHAR"
  /\ swallowed = IF pc = "testChar" /\ ReadDelimiter THEN 1 ELSE 0

\* Without a length to ask for, a delimiter waits for its chunk only between
\* readOneChar and the test.
LEMMA CharInvStep ==
  ASSUME Lengths = {}, CharInv, [Next]_vars
  PROVE  CharInv'
<1> USE DEF CharInv, ReadDelimiter
<1>1. CASE CallbackOnChar
  BY <1>1 DEF CallbackOnChar, SetOptions
<1>2. CASE CallbackOnLength
  BY <1>2 DEF CallbackOnLength
<1>3. CASE TakeOptions
  BY <1>3 DEF TakeOptions, optionVars
<1>4. CASE ReadOneChar
  <2>1. pc = "read" /\ pc' = "testChar" /\ UNCHANGED <<callbackOptions, cbo>>
    BY <1>4 DEF ReadOneChar, optionVars
  <2>2. CASE readOk' = FALSE /\ UNCHANGED swallowed
    <3>1. ~readOk'
      BY <2>2, Zenon
    <3> QED
      BY <2>1, <2>2, <3>1
  <2>3. ASSUME NEW c \in Char, readOk' = TRUE, readChar' = c,
               swallowed' = IF cbo.type = "ON_CHAR" /\ c = OnChar(cbo)
                            THEN swallowed + 1 ELSE swallowed
        PROVE  CharInv'
    <3>1. swallowed = 0
      BY <2>1
    <3>2. swallowed' = IF readChar' = OnChar(cbo) THEN 1 ELSE 0
      BY <2>3, <3>1
    <3> QED
      BY <2>1, <2>3, <3>2
  <2> QED
    BY <1>4, <2>2, <2>3 DEF ReadOneChar
<1>5. CASE TestChar
  BY <1>5 DEF TestChar, SendLine, KeepLine, optionVars
<1>6. CASE TestLength
  BY <1>6 DEF TestLength, SendLine, KeepLine, optionVars
<1>7. CASE UNCHANGED vars
  BY <1>7 DEF vars
<1> QED
  BY <1>1, <1>2, <1>3, <1>4, <1>5, <1>6, <1>7 DEF Next

\* What the documentation says of callbackOnChar holds for scripts that never call
\* callbackOnLength: each delimiter sends a chunk, whenever they change it.
THEOREM DelimiterAnswered ==
  ASSUME Lengths = {}
  PROVE  Spec => []DelimiterSendsChunk
<1>1. Init => CharInv
  BY DEF Init, CharInv
<1>2. CharInv /\ [Next]_vars => CharInv'
  BY CharInvStep
<1>3. CharInv => DelimiterSendsChunk
  BY DEF CharInv, DelimiterSendsChunk
<1> QED
  BY <1>1, <1>2, <1>3, PTL DEF Spec

\* With two changes of the options: the first told the thread its length, so it cannot
\* change away from that length and back.
LengthInv ==
  cbo.type = "ON_LENGTH" =>
    /\ changes # 0 /\ (callbackOptions # cbo => changes = 2)
    /\ charsRead <= OnLength(cbo)
    /\ pc = "read" \/ (pc = "snapshot" /\ callbackOptions = cbo) => charsRead < OnLength(cbo)

\* A complete chunk is only kept when the next pass will find other options.
LEMMA LengthInvStep ==
  ASSUME MaxChanges <= 2, IInv, LengthInv, [Next]_vars
  PROVE  LengthInv'
<1>0. /\ ScriptOptions(cbo) /\ ScriptOptions(callbackOptions) /\ prevOptions = cbo
      /\ charsRead \in Nat /\ changes \in 0..MaxChanges /\ MaxChanges \in Nat
      /\ pc \in {"snapshot", "read", "testChar", "testLength"}
  BY OptionsAssumption, IInvTypes DEF IInv, Types, TypeOK, OptionsAssumption
<1>1. ASSUME NEW type, NEW value, SetOptions(type, value) PROVE LengthInv'
  <2> SUFFICES ASSUME cbo.type = "ON_LENGTH" PROVE LengthInv'
    BY <1>1 DEF LengthInv, SetOptions
  <2>1. changes < MaxChanges /\ changes' = changes + 1 /\ UNCHANGED <<cbo, pc, charsRead>>
    BY <1>1 DEF SetOptions
  <2>2. changes = 1 /\ changes' = 2
    BY <1>0, <2>1 DEF LengthInv
  <2> QED
    BY <2>1, <2>2 DEF LengthInv
<1>2. CASE CallbackOnChar
  BY <1>1, <1>2 DEF CallbackOnChar
<1>3. CASE CallbackOnLength
  BY <1>1, <1>3 DEF CallbackOnLength
<1>4. CASE TakeOptions
  <2> SUFFICES ASSUME callbackOptions.type = "ON_LENGTH" PROVE LengthInv'
    BY <1>4 DEF LengthInv, TakeOptions
  <2>1. pc' = "read" /\ pc = "snapshot" /\ cbo' = callbackOptions
        /\ UNCHANGED <<callbackOptions, changes>>
    BY <1>4 DEF TakeOptions, optionVars
  <2>2. changes # 0
    BY Untouched
  <2>3. charsRead' < OnLength(callbackOptions)
    <3>1. CASE SameOptions(prevOptions, callbackOptions)
      <4>1. cbo.type = "ON_LENGTH" /\ callbackOptions = cbo /\ UNCHANGED charsRead
        BY <1>0, <1>4, <3>1, SameOptionsFacts DEF TakeOptions, SameOptions, OnLength, ScriptOptions,
           Options
      <4> QED
        BY <2>1, <4>1 DEF LengthInv
    <3>2. CASE ~SameOptions(prevOptions, callbackOptions)
      <4>1. IInv' /\ IsCut(callbackOptions, line, SubSeq(sent', Len(sent) + 1, Len(sent')), line')
        BY <1>4, <3>2, TakeOptionsStep
      <4>2. Len(line') < OnLength(callbackOptions)
        BY <4>1 DEF IsCut
      <4>3. charsRead' = Len(line')
        BY <4>1 DEF IInv, Counts
      <4> QED
        BY <4>2, <4>3
    <3> QED
      BY <3>1, <3>2
  <2>4. charsRead' \in Nat
    BY <1>4, TakeOptionsStep DEF IInv, Types, TypeOK
  <2>5. OnLength(callbackOptions) \in Nat \ {0}
    BY <1>0, ScriptOptionsFacts
  <2> QED
    BY <2>1, <2>2, <2>3, <2>4, <2>5 DEF LengthInv
<1>5. CASE ReadOneChar
  <2> SUFFICES ASSUME cbo.type = "ON_LENGTH" PROVE LengthInv'
    BY <1>5 DEF LengthInv, ReadOneChar
  <2>1. pc = "read" /\ pc' = "testChar" /\ UNCHANGED <<callbackOptions, changes, cbo>>
    BY <1>5 DEF ReadOneChar, optionVars
  <2>2. charsRead' \in {charsRead, charsRead + 1}
    BY <1>5 DEF ReadOneChar
  <2>3. OnLength(cbo) \in Nat \ {0}
    BY <1>0, ScriptOptionsFacts
  <2>4. charsRead' <= OnLength(cbo)
    BY <1>0, <2>1, <2>2, <2>3 DEF LengthInv
  <2> QED
    BY <2>1, <2>4 DEF LengthInv
<1>6. CASE TestChar
  <2> SUFFICES ASSUME cbo.type = "ON_LENGTH" PROVE LengthInv'
    BY <1>6 DEF LengthInv, TestChar
  <2>1. UNCHANGED <<callbackOptions, changes, cbo>>
    BY <1>6 DEF TestChar, optionVars
  <2>2. CASE callbackOptions = cbo
    <3>1. pc' = "testLength" /\ KeepLine
      BY <1>6, <2>2 DEF TestChar
    <3> QED
      BY <2>1, <3>1 DEF LengthInv, KeepLine
  <2>3. CASE callbackOptions # cbo
    <3>1. pc' # "read" /\ charsRead' \in {0, charsRead}
      BY <1>6 DEF TestChar, SendLine, KeepLine
    <3>2. charsRead' <= OnLength(cbo)
      BY <1>0, <3>1, ScriptOptionsFacts DEF LengthInv
    <3> QED
      BY <2>1, <2>3, <3>1, <3>2 DEF LengthInv
  <2> QED
    BY <2>2, <2>3
<1>7. CASE TestLength
  <2> SUFFICES ASSUME cbo.type = "ON_LENGTH" PROVE LengthInv'
    BY <1>7 DEF LengthInv, TestLength
  <2>1. pc' = "snapshot" /\ UNCHANGED <<callbackOptions, changes, cbo>>
    BY <1>7 DEF TestLength, optionVars
  <2>2. OnLength(cbo) \in Nat \ {0}
    BY <1>0, ScriptOptionsFacts
  <2>3. CASE callbackOptions # cbo
    <3>1. charsRead' \in {0, charsRead}
      BY <1>7 DEF TestLength, SendLine, KeepLine
    <3> QED
      BY <1>0, <2>1, <2>2, <2>3, <3>1 DEF LengthInv
  <2>4. CASE callbackOptions = cbo /\ charsRead >= OnLength(cbo)
    <3>1. charsRead' = 0
      BY <1>7, <2>4 DEF TestLength, SendLine
    <3> QED
      BY <2>1, <2>2, <3>1 DEF LengthInv
  <2>5. CASE callbackOptions = cbo /\ ~(charsRead >= OnLength(cbo))
    <3>1. charsRead' = charsRead /\ charsRead < OnLength(cbo)
      BY <1>0, <1>7, <2>2, <2>5 DEF TestLength, KeepLine
    <3> QED
      BY <2>1, <3>1 DEF LengthInv
  <2> QED
    BY <2>3, <2>4, <2>5
<1>8. CASE UNCHANGED vars
  BY <1>8 DEF vars, LengthInv
<1> QED
  BY <1>2, <1>3, <1>4, <1>5, <1>6, <1>7, <1>8 DEF Next

\* What the documentation says of callbackOnLength holds for scripts that set the
\* options twice at most: the thread never waits with a complete chunk.  The third command of
\* MCReadThreadLength.cfg is the one that changes back.
THEOREM ChunkCompleted ==
  ASSUME MaxChanges <= 2
  PROVE  Spec => []CompleteChunkSent
<1>1. Init => LengthInv
  BY DEF Init, LengthInv
<1>2. IInv /\ LengthInv /\ [Next]_vars => LengthInv'
  BY LengthInvStep
<1>3. LengthInv => CompleteChunkSent
  BY DEF LengthInv, CompleteChunkSent
<1> QED
  BY <1>1, <1>2, <1>3, Invariant, PTL DEF Spec
=============================================================================
