---------------------------- MODULE IOContextProofs ----------------------------
(***************************************************************************)
(* The shared io thread, for every number of instances and of threads.     *)
(***************************************************************************)
EXTENDS IOContext, FiniteSetTheorems, TLAPS

USE UsersAssumption DEF UsersAssumption

\* Instances that needIOContext counted and doneWithIOContext did not.
In == {u \in Users : upc[u] # "out"}

\* Threads that dispatch handlers.
Runners == {t \in Threads : tpc[t] = "run"}

\* The count is exact, and at most one call is between the creation of the thread
\* and the flag: the mutex.
UsersCounted == users = Cardinality(In)
MutexHeld    == \A u, v \in Users : upc[u] = "spawned" /\ upc[v] = "spawned" => u = v

\* As long as the context was never stopped, no thread has left run(), so the flag
\* that is cleared without the mutex is true to the threads: it is set whenever a
\* thread runs, but for the one whose creator still holds the mutex.
FlagIsTrue ==
  ~stopped =>
    /\ \A t \in Threads : tpc[t] # "left"
    /\ \A s, t \in Runners : s = t
    /\ running \/ ~MutexFree <=> Runners # {}
    /\ ~MutexFree => ~running
    /\ In # {} => Runners # {}

StopIsLast == stopped => emptied

IInv == TypeOK /\ UsersCounted /\ MutexHeld /\ FlagIsTrue /\ StopIsLast

\* The set of instances is finite, and counts as instances come and go.
LEMMA InFinite == IsFiniteSet(In) /\ Cardinality(In) \in Nat /\ Cardinality(In) <= Cardinality(Users)
<1>1. In \subseteq Users
  BY DEF In
<1> QED
  BY <1>1, FS_Subset, FS_CardinalityType

\* Nothing runs before the first instance.
LEMMA InitIInv == Init => IInv
<1> SUFFICES ASSUME Init PROVE IInv
  OBVIOUS
<1> USE DEF Init
<1>1. In = {} /\ Runners = {}
  BY DEF In, Runners
<1>2. TypeOK
  <2>1. Cardinality(Users) \in Nat
    BY FS_CardinalityType
  <2>2. users \in 0..Cardinality(Users)
    BY <2>1
  <2>3. /\ upc \in [Users -> {"out", "spawned", "in"}]
        /\ tpc \in [Threads -> {"gone", "run", "left"}] /\ pending \subseteq Users
    OBVIOUS
  <2>4. running \in BOOLEAN /\ stopped \in BOOLEAN /\ emptied \in BOOLEAN
    OBVIOUS
  <2> QED
    BY <2>2, <2>3, <2>4 DEF TypeOK
<1>3. UsersCounted
  BY <1>1, FS_EmptySet DEF UsersCounted
<1>4. MutexHeld /\ StopIsLast
  BY DEF MutexHeld, StopIsLast
<1>5. FlagIsTrue
  BY <1>1 DEF FlagIsTrue, MutexFree
<1> QED
  BY <1>2, <1>3, <1>4, <1>5 DEF IInv

\* needIOContext takes the flag under the mutex for what the threads do.
LEMMA NeedIInv == ASSUME IInv, NEW u \in Users, Need(u) PROVE IInv'
<1> USE DEF IInv, Need
<1>1. upc' \in [Users -> {"out", "spawned", "in"}] /\ upc'[u] # "out"
      /\ \A v \in Users \ {u} : upc'[v] = upc[v]
  BY DEF TypeOK
<1>2. In' = In \cup {u} /\ u \notin In
  BY <1>1 DEF In
<1>3. UsersCounted'
  BY <1>2, InFinite, FS_AddElement DEF UsersCounted
<1>4. In' \subseteq Users
  BY DEF In
<1>5. users' \in 0..Cardinality(Users)
  BY <1>3, <1>4, FS_Subset, FS_CardinalityType DEF UsersCounted
<1>6. tpc' \in [Threads -> {"gone", "run", "left"}]
  BY DEF TypeOK
<1>7. TypeOK'
  BY <1>1, <1>5, <1>6 DEF TypeOK, StartContext
<1>8. MutexHeld'
  BY <1>1 DEF MutexHeld, MutexFree
<1>9. StopIsLast'
  BY DEF StopIsLast, StartContext
<1>10. FlagIsTrue'
  <2>1. CASE running
    <3>1. upc'[u] = "in" /\ tpc' = tpc /\ stopped' = stopped /\ running' = running
      BY <2>1 DEF TypeOK
    <3>2. Runners' = Runners /\ MutexFree'
      BY <3>1, <1>1 DEF Runners, MutexFree
    <3> QED
      BY <3>1, <3>2, <2>1 DEF FlagIsTrue
  <2>2. CASE ~running
    <3>1. PICK t \in Threads : tpc[t] = "gone" /\ tpc' = [tpc EXCEPT ![t] = "run"]
      BY <2>2
    <3>2. Runners' = Runners \cup {t}
      BY <3>1 DEF Runners, TypeOK
    <3>3. upc'[u] = "spawned" /\ ~MutexFree' /\ stopped' = stopped /\ running' = running
      BY <2>2 DEF TypeOK, MutexFree, StartContext
    <3>4. ~stopped => Runners = {}
      BY <2>2 DEF FlagIsTrue
    <3>5. ~stopped => \A q \in Threads : tpc'[q] # "left"
      BY <3>1 DEF FlagIsTrue, TypeOK
    <3> QED
      BY <3>2, <3>3, <3>4, <3>5, <2>2 DEF FlagIsTrue
  <2> QED
    BY <2>1, <2>2
<1> QED
  BY <1>3, <1>7, <1>8, <1>9, <1>10

\* The flag follows the thread before the mutex is released.
LEMMA SetRunningIInv == ASSUME IInv, NEW u \in Users, SetRunning(u) PROVE IInv'
<1> USE DEF IInv, SetRunning
<1>1. upc' \in [Users -> {"out", "spawned", "in"}] /\ upc'[u] = "in"
      /\ \A v \in Users \ {u} : upc'[v] = upc[v]
  BY DEF TypeOK
<1>2. In' = In
  BY <1>1 DEF In
<1>3. TypeOK' /\ UsersCounted' /\ StopIsLast'
  BY <1>1, <1>2 DEF TypeOK, UsersCounted, StopIsLast
<1>4. MutexHeld'
  BY <1>1 DEF MutexHeld
<1>5. Runners' = Runners /\ MutexFree'
  BY <1>1 DEF Runners, MutexFree, MutexHeld
<1>6. FlagIsTrue'
  <2>1. ~MutexFree
    BY DEF MutexFree
  <2> QED
    BY <1>2, <1>5, <2>1 DEF FlagIsTrue
<1> QED
  BY <1>3, <1>4, <1>6

\* Only the last instance to leave stops the context.
LEMMA DoneIInv == ASSUME IInv, NEW u \in Users, Done(u) PROVE IInv'
<1> USE DEF IInv, Done
<1>1. upc' \in [Users -> {"out", "spawned", "in"}] /\ upc'[u] = "out"
      /\ \A v \in Users \ {u} : upc'[v] = upc[v]
  BY DEF TypeOK
<1>2. In' = In \ {u} /\ u \in In
  BY <1>1 DEF In
<1>3. UsersCounted' /\ Cardinality(In') = Cardinality(In) - 1
  BY <1>2, InFinite, FS_RemoveElement DEF UsersCounted
<1>4. In' \subseteq Users /\ IsFiniteSet(In') /\ Cardinality(In') \in Nat
  BY <1>2, InFinite, FS_Subset, FS_CardinalityType DEF In
<1>5. users' \in 0..Cardinality(Users)
  BY <1>3, <1>4, FS_Subset, FS_CardinalityType DEF UsersCounted
<1>6. running' \in BOOLEAN /\ stopped' \in BOOLEAN
  BY DEF TypeOK
<1>7. emptied' \in BOOLEAN
  BY DEF TypeOK
<1>8. TypeOK'
  BY <1>1, <1>5, <1>6, <1>7 DEF TypeOK
<1>9. MutexHeld' /\ MutexFree'
  BY <1>1 DEF MutexHeld, MutexFree
<1>10. stopped' <=> stopped \/ users' = 0
  BY DEF LastUser
<1>11. StopIsLast'
  BY <1>10 DEF StopIsLast
<1>12. FlagIsTrue'
  <2>1. Runners' = Runners
    BY DEF Runners
  <2>2. CASE LastUser
    BY <2>2 DEF FlagIsTrue
  <2>3. CASE ~LastUser
    <3>1. running' = running /\ stopped' = stopped /\ tpc' = tpc
      BY <2>3
    <3> QED
      BY <1>2, <1>9, <2>1, <3>1 DEF FlagIsTrue
  <2> QED
    BY <2>2, <2>3
<1> QED
  BY <1>3, <1>8, <1>9, <1>11, <1>12

\* The io thread leaves only a stopped context.
LEMMA IOThreadIInv == ASSUME IInv, NEW t \in Threads, IOThread(t) PROVE IInv'
<1> USE DEF IInv
<1>1. ASSUME NEW u \in Users, Dispatch(t, u) PROVE IInv'
  BY <1>1 DEF Dispatch, TypeOK, UsersCounted, In, MutexHeld, FlagIsTrue, Runners, MutexFree,
              StopIsLast
<1>2. CASE RunReturns(t)
  <2> USE <1>2 DEF RunReturns
  <2>1. TypeOK'
    BY DEF TypeOK
  <2>2. UsersCounted' /\ MutexHeld' /\ StopIsLast'
    BY DEF UsersCounted, In, MutexHeld, StopIsLast
  <2>3. FlagIsTrue'
    BY DEF FlagIsTrue
  <2> QED
    BY <2>1, <2>2, <2>3
<1>3. CASE ClearRunning(t)
  <2> USE <1>3 DEF ClearRunning
  <2>1. TypeOK'
    BY DEF TypeOK
  <2>2. UsersCounted' /\ MutexHeld' /\ StopIsLast'
    BY DEF UsersCounted, In, MutexHeld, StopIsLast
  <2>3. FlagIsTrue'
    BY DEF FlagIsTrue
  <2> QED
    BY <2>1, <2>2, <2>3
<1> QED
  BY <1>1, <1>2, <1>3 DEF IOThread

\* The invariant is inductive.
THEOREM Inductive == Spec => []IInv
<1>1. Init => IInv
  BY InitIInv
<1>2. IInv /\ [Next]_vars => IInv'
  <2> SUFFICES ASSUME IInv, [Next]_vars PROVE IInv'
    OBVIOUS
  <2>1. ASSUME NEW u \in Users, Submit(u) PROVE IInv'
    BY <2>1 DEF Submit, IInv, TypeOK, UsersCounted, In, MutexHeld, FlagIsTrue, Runners, MutexFree,
                StopIsLast
  <2>2. CASE UNCHANGED vars
    BY <2>2 DEF vars, IInv, TypeOK, UsersCounted, In, MutexHeld, FlagIsTrue, Runners, MutexFree,
                StopIsLast
  <2> QED
    BY <2>1, <2>2, NeedIInv, SetRunningIInv, DoneIInv, IOThreadIInv DEF Next
<1> QED
  BY <1>1, <1>2, PTL DEF Spec

\* The types declared in IOContext hold in every reachable state; ioContextUsers is
\* never negative.
THEOREM TypeCorrect == Spec => []TypeOK
<1>1. IInv => TypeOK
  BY DEF IInv
<1> QED
  BY <1>1, Inductive, PTL

\* However many instances come and go, and although the flag is cleared without the
\* mutex, handlers are never dispatched by two threads.
THEOREM SingleDispatcher == Spec => []OneDispatcher
<1>1. IInv => OneDispatcher
  BY DEF IInv, FlagIsTrue, Runners, OneDispatcher
<1> QED
  BY <1>1, Inductive, PTL

\* Until all instances have gone once, an instance has a thread for its handlers.
THEOREM DispatcherAlive == Spec => []DispatcherWhileUsed
<1>1. IInv => DispatcherWhileUsed
  <2> SUFFICES ASSUME IInv, users > 0, ~emptied
               PROVE  ~stopped /\ \E t \in Threads : tpc[t] = "run"
    BY DEF DispatcherWhileUsed
  <2>1. ~stopped
    BY DEF IInv, StopIsLast
  <2>2. In # {}
    BY FS_EmptySet DEF IInv, UsersCounted
  <2>3. Runners # {}
    BY <2>1, <2>2 DEF IInv, FlagIsTrue
  <2> QED
    BY <2>1, <2>3 DEF Runners
<1> QED
  BY <1>1, Inductive, PTL
=============================================================================
