--------------------------------- MODULE IOContext ---------------------------------
(***************************************************************************)
(* The io thread that all TCP instances share (boost_util.cpp).            *)
(*                                                                         *)
(* An instance calls needIOContext when it is created and doneWithIOContext *)
(* when it is destroyed, on the game thread or, for an accepted connection, *)
(* on the io thread.  Both hold ioContextMutex; the io thread clears       *)
(* ioContextRunning without it when run() returns.  io_context is          *)
(* external: once stop() was called every run() returns, until restart(),  *)
(* which the program never calls.  The work object keeps run() from        *)
(* returning before stop().                                                *)
(***************************************************************************)
EXTENDS Integers, FiniteSets

CONSTANTS
  Users,     \* TCP instances
  Threads    \* identities of io threads

ASSUME UsersAssumption == IsFiniteSet(Users)

VARIABLES
  upc,       \* "out", "spawned" (inside needIOContext, mutex held), "in"
  users,     \* ioContextUsers
  running,   \* ioContextRunning
  tpc,       \* "gone", "run" (in ioContext.run()), "left" (run() returned)
  stopped,   \* the io_context was stopped
  pending,   \* instances waiting for a handler of theirs to run
  emptied    \* history: the last user has left at least once

vars == <<upc, users, running, tpc, stopped, pending, emptied>>

TypeOK ==
  /\ upc \in [Users -> {"out", "spawned", "in"}]
  /\ users \in 0..Cardinality(Users) /\ running \in BOOLEAN
  /\ tpc \in [Threads -> {"gone", "run", "left"}]
  /\ stopped \in BOOLEAN /\ pending \subseteq Users /\ emptied \in BOOLEAN

Init ==
  /\ upc = [u \in Users |-> "out"] /\ users = 0 /\ running = FALSE
  /\ tpc = [t \in Threads |-> "gone"]
  /\ stopped = FALSE /\ pending = {} /\ emptied = FALSE

MutexFree == \A u \in Users : upc[u] # "spawned"

\* MUTANT of StartContext: a stopped io_context is restarted for the new thread.
StartContextRestarts == stopped' = FALSE

StartContext == UNCHANGED stopped

\* needIOContext up to the creation of the thread, which may run at once.
Need(u) ==
  /\ MutexFree /\ upc[u] = "out"
  /\ users' = users + 1
  /\ IF running
     THEN upc' = [upc EXCEPT ![u] = "in"] /\ UNCHANGED <<tpc, stopped>>
     ELSE /\ \E t \in Threads : tpc[t] = "gone" /\ tpc' = [tpc EXCEPT ![t] = "run"]
          /\ upc' = [upc EXCEPT ![u] = "spawned"]
          /\ StartContext
  /\ UNCHANGED <<running, pending, emptied>>

\* MUTANT of SetRunning: the flag is not set.
SetRunningForgotten(u) ==
  /\ upc[u] = "spawned" /\ upc' = [upc EXCEPT ![u] = "in"]
  /\ UNCHANGED <<users, running, tpc, stopped, pending, emptied>>

SetRunning(u) ==
  /\ upc[u] = "spawned"
  /\ running' = TRUE
  /\ upc' = [upc EXCEPT ![u] = "in"]
  /\ UNCHANGED <<users, tpc, stopped, pending, emptied>>

\* MUTANT of LastUser: tested before the decrement.
LastUserEarly == users <= 2

LastUser == users - 1 = 0

\* MUTANT of Done: an instance that leaves is not counted out.
DoneKeepsCount(u) ==
  /\ MutexFree /\ upc[u] = "in"
  /\ upc' = [upc EXCEPT ![u] = "out"]
  /\ UNCHANGED <<users, running, tpc, stopped, pending, emptied>>

Done(u) ==
  /\ MutexFree /\ upc[u] = "in"
  /\ upc' = [upc EXCEPT ![u] = "out"]
  /\ users' = users - 1
  /\ emptied' = (emptied \/ users' = 0)
  /\ IF LastUser THEN stopped' = TRUE /\ running' = FALSE ELSE UNCHANGED <<stopped, running>>
  /\ UNCHANGED <<tpc, pending>>

\* An instance starts an asynchronous accept or connect, which will complete.
Submit(u) ==
  /\ upc[u] = "in" /\ u \notin pending
  /\ pending' = pending \cup {u}
  /\ UNCHANGED <<upc, users, running, tpc, stopped, emptied>>

\* run() calls the handler of a completed operation.
Dispatch(t, u) ==
  /\ tpc[t] = "run" /\ ~stopped
  /\ u \in pending /\ pending' = pending \ {u}
  /\ UNCHANGED <<upc, users, running, tpc, stopped, emptied>>

RunReturns(t) ==
  /\ tpc[t] = "run" /\ stopped
  /\ tpc' = [tpc EXCEPT ![t] = "left"]
  /\ UNCHANGED <<upc, users, running, stopped, pending, emptied>>

ClearRunning(t) ==
  /\ tpc[t] = "left"
  /\ running' = FALSE
  /\ tpc' = [tpc EXCEPT ![t] = "gone"]
  /\ UNCHANGED <<upc, users, stopped, pending, emptied>>

IOThread(t) == (\E u \in Users : Dispatch(t, u)) \/ RunReturns(t) \/ ClearRunning(t)

Next ==
  \/ \E u \in Users : Need(u) \/ SetRunning(u) \/ Done(u) \/ Submit(u)
  \/ \E t \in Threads : IOThread(t)

Spec == Init /\ [][Next]_vars

\* A call of needIOContext that began goes on, the io thread is scheduled, and the
\* queue of due handlers is first-in first-out.
FairSpec ==
  /\ Spec
  /\ \A u \in Users : WF_vars(SetRunning(u))
  /\ \A t \in Threads : WF_vars(RunReturns(t)) /\ WF_vars(ClearRunning(t))
  /\ \A t \in Threads, u \in Users : WF_vars(Dispatch(t, u))

-----------------------------------------------------------------------------
(* Properties *)

\* Handlers never run beside each other: the accept handler relies on it when it
\* uses the registry and the socket.  The flag that decides whether to start a
\* thread is also cleared without the mutex.
OneDispatcher ==
  \A s, t \in Threads : tpc[s] = "run" /\ tpc[t] = "run" /\ ~stopped => s = t

\* As long as there was always a user, an instance has a thread to run its handlers.
DispatcherWhileUsed ==
  users > 0 /\ ~emptied => ~stopped /\ \E t \in Threads : tpc[t] = "run"

\* And a handler that is due is run, while there was always a user.
HandlersRun == \A u \in Users : u \in pending ~> (u \notin pending \/ emptied)

-----------------------------------------------------------------------------
(* A statement of the documentation that the code does not keep *)

\* connectAsync: "On success or failure, the extension will call the callback".
EveryHandlerRuns == \A u \in Users : u \in pending ~> u \notin pending
=============================================================================
