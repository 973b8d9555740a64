---------------------------- MODULE ReadWriteHandler ----------------------------
(***************************************************************************)
(* The threads and the write queue of ReadWriteHandler.h, the class every  *)
(* communication method uses to read from and write to its handle.         *)
(*                                                                         *)
(* Three kinds of thread meet here: the game thread, which runs the        *)
(* commands of the scripts one at a time; the read thread, which turns     *)
(* incoming characters into callbacks; and the write thread, which walks a *)
(* linked list of BufferedWrite nodes that the game thread appends to.     *)
(*                                                                         *)
(* The nodes are numbers: node 0 is the dummy the constructor allocates    *)
(* and node m > 0 holds the m-th message submitted.  Freed memory keeps    *)
(* its last contents, and touching it may also put the program outside     *)
(* defined behaviour, recorded in `fault'.  How a read thread cuts its     *)
(* input into chunks is the subject of ReadThread.tla; here a read yields  *)
(* a complete chunk or it does not.                                        *)
(***************************************************************************)
EXTENDS Integers, Sequences

CONSTANTS
  Writers,     \* identities of write threads
  Readers,     \* identities of read threads
  NoThread,    \* the null std::thread pointer
  MaxMsgs,     \* bound: messages submitted with the write command
  MaxChunks,   \* bound: chunks the read threads complete
  ArmaCap      \* entries of Arma's callback buffer (100 in the game)

ASSUME ThreadsAssumption == NoThread \notin Writers \cup Readers
ASSUME BoundsAssumption  == MaxMsgs \in Nat /\ MaxChunks \in Nat /\ ArmaCap \in Nat \ {0}

VARIABLES
  gpc,              \* where the game thread is inside a command, or "idle"
  fault,            \* "none", or why execution left defined behaviour
  handleOpen,       \* *handle is a usable handle (owned by the comm method)
  usingReadThread, readThread,   \* the flag and pointer of the read thread
  rpc,              \* control state of each read thread
  chunks,           \* number of chunks completed so far
  inbox,            \* entries waiting in Arma's callback buffer
  usingWriteThread, useWriteThread, writeThread,
  wpc,              \* control state of each write thread
  held,             \* the node whose nextLock the thread's unique_lock is for
  prev,             \* the local prev of writeThreadFunction
  next,             \* BufferedWrite::next of each node
  freed,            \* nodes that were deleted
  toWrite, lastWrite,            \* head and tail of the list
  submitted,        \* messages passed to write so far
  queued,           \* those of them that went to the list
  written           \* messages handed to writeString on an open handle, in order

gameVars   == <<gpc, fault>>
readVars   == <<usingReadThread, readThread, rpc, chunks, inbox>>
threadVars == <<usingWriteThread, useWriteThread, writeThread>>
writerVars == <<wpc, held, prev>>
listVars   == <<next, freed, toWrite, lastWrite>>
dataVars   == <<submitted, queued, written>>
rwhVars    == <<gameVars, handleOpen, readVars, threadVars, writerVars, listVars, dataVars>>

Node   == 0..MaxMsgs
NoNode == -1

Faults    == {"none", "badPointer", "nullJoin", "exception"}
GameSteps == {"idle", "notify", "move", "joinWrite", "joinRead", "stopped"}
WriteSteps == {"gone", "write", "lock", "test", "wait", "advance", "free", "drain", "drainWrite"}
ReadSteps  == {"gone", "read", "send", "check"}

GameTypeOK ==
  gpc \in GameSteps /\ fault \in Faults /\ handleOpen \in BOOLEAN
ReadTypeOK ==
  /\ usingReadThread \in BOOLEAN /\ readThread \in Readers \cup {NoThread}
  /\ rpc \in [Readers -> ReadSteps]
  /\ chunks \in 0..MaxChunks /\ inbox \in 0..ArmaCap
WriterTypeOK ==
  /\ usingWriteThread \in BOOLEAN /\ useWriteThread \in BOOLEAN
  /\ writeThread \in Writers \cup {NoThread}
  /\ wpc \in [Writers -> WriteSteps]
  /\ held \in [Writers -> Node \cup {NoNode}]
  /\ prev \in [Writers -> Node \cup {NoNode}]
ListTypeOK ==
  /\ next \in [Node -> Node \cup {NoNode}]
  /\ freed \subseteq Node
  /\ toWrite \in Node \cup {NoNode} /\ lastWrite \in Node
DataTypeOK ==
  /\ submitted \in 0..MaxMsgs /\ queued \subseteq 1..submitted
  /\ written \in Seq(1..MaxMsgs)

HandlerTypeOK == GameTypeOK /\ ReadTypeOK /\ WriterTypeOK /\ ListTypeOK /\ DataTypeOK

HandlerInit ==
  /\ gpc = "idle" /\ fault = "none" /\ handleOpen = FALSE
  /\ usingReadThread = TRUE /\ readThread = NoThread
  /\ rpc = [r \in Readers |-> "gone"] /\ chunks = 0 /\ inbox = 0
  /\ usingWriteThread = FALSE /\ useWriteThread = FALSE /\ writeThread = NoThread
  /\ wpc = [t \in Writers |-> "gone"]
  /\ held = [t \in Writers |-> NoNode] /\ prev = [t \in Writers |-> NoNode]
  /\ next = [n \in Node |-> NoNode] /\ freed = {}
  /\ toWrite = 0 /\ lastWrite = 0
  /\ submitted = 0 /\ queued = {} /\ written = <<>>

-----------------------------------------------------------------------------
(* Parts shared by the steps *)

Running == fault = "none"
Idle    == Running /\ gpc = "idle"

LiveWriters == {t \in Writers : wpc[t] # "gone"}
LiveReaders == {r \in Readers : rpc[r] # "gone"}

\* A write thread keeps the nextLock of the node it is at while it tests `next'
\* and while it drains; wait_for gives the lock up.  The game thread takes and
\* releases it within one step.
Locked(n) == \E t \in Writers : wpc[t] \in {"test", "drain", "drainWrite"} /\ held[t] = n

\* writeString: the bytes reach the device only through an open handle.
Deliver(m) == written' = IF handleOpen THEN Append(written, m) ELSE written

\* What the thread is about to dereference.
WriterTouches(t) ==
  CASE wpc[t] \in {"write", "lock", "advance"} -> {toWrite}
    [] wpc[t] \in {"test", "wait", "drain", "drainWrite"} -> {toWrite, held[t]}
    [] wpc[t] = "free" -> {prev[t]}
    [] OTHER -> {}
GameTouches == IF gpc \in {"notify", "move"} THEN {lastWrite} ELSE {}

-----------------------------------------------------------------------------
(* write(), run by the game thread *)

\* Appends a node behind lastWrite, under its lock; notifying and moving the
\* tail happen after the lock was released.
QueueWrite ==
  /\ Idle /\ usingWriteThread /\ submitted < MaxMsgs
  /\ ~Locked(lastWrite)
  /\ next' = [next EXCEPT ![lastWrite] = submitted + 1]
  /\ submitted' = submitted + 1
  /\ queued' = queued \cup {submitted + 1}
  /\ gpc' = "notify"
  /\ UNCHANGED <<fault, handleOpen, readVars, threadVars, writerVars, freed, toWrite,
                 lastWrite, written>>

\* MUTANT of NotifyTail: write() returns without moving the tail.
NotifyForgetsTail ==
  /\ Running /\ gpc = "notify" /\ gpc' = "idle"
  /\ UNCHANGED <<fault, handleOpen, readVars, threadVars, writerVars, listVars, dataVars>>

\* Waiting writers re-test on a timeout as well, so the notification itself
\* changes no state.
NotifyTail ==
  /\ Running /\ gpc = "notify"
  /\ gpc' = "move"
  /\ UNCHANGED <<fault, handleOpen, readVars, threadVars, writerVars, listVars, dataVars>>

MoveTail ==
  /\ Running /\ gpc = "move"
  /\ lastWrite' = next[lastWrite]
  /\ gpc' = "idle"
  /\ UNCHANGED <<fault, handleOpen, readVars, threadVars, writerVars, next, freed, toWrite,
                 dataVars>>

\* Without a write thread the message is written at once.
DirectWrite ==
  /\ Idle /\ ~usingWriteThread /\ submitted < MaxMsgs
  /\ submitted' = submitted + 1
  /\ Deliver(submitted + 1)
  /\ UNCHANGED <<gameVars, handleOpen, readVars, threadVars, writerVars, listVars, queued>>

-----------------------------------------------------------------------------
(* Starting and stopping threads, run by the game thread *)

SpawnWriter ==
  \E t \in Writers \ LiveWriters :
    /\ writeThread' = t /\ wpc' = [wpc EXCEPT ![t] = "write"]
    /\ usingWriteThread' = TRUE

SpawnReader ==
  \E r \in Readers \ LiveReaders :
    /\ readThread' = r /\ rpc' = [rpc EXCEPT ![r] = "read"]
    /\ usingReadThread' = TRUE

\* startThreads(): every handler has useReadThread; a write thread is started
\* whenever one was ever enabled, whether or not one is running.
StartThreads ==
  /\ SpawnReader
  /\ IF useWriteThread THEN SpawnWriter ELSE UNCHANGED <<usingWriteThread, writeThread, wpc>>
  /\ UNCHANGED <<chunks, inbox, useWriteThread, held, prev, listVars, dataVars>>

\* MUTANT of AlreadyThreaded: enabling twice starts a second thread.
NeverThreaded == FALSE

AlreadyThreaded == usingWriteThread

EnableWriteThread ==
  /\ Idle
  /\ useWriteThread' = TRUE
  /\ IF AlreadyThreaded THEN UNCHANGED <<usingWriteThread, writeThread, wpc>> ELSE SpawnWriter
  /\ UNCHANGED <<gameVars, handleOpen, readVars, held, prev, listVars, dataVars>>

\* The second half of stopThreads().  The flag of the read thread starts as
\* TRUE although no read thread exists before the first startThreads().
StopReader ==
  IF usingReadThread
  THEN /\ usingReadThread' = FALSE
       /\ IF readThread = NoThread
          THEN fault' = "nullJoin" /\ UNCHANGED gpc
          ELSE gpc' = "joinRead" /\ UNCHANGED fault
  ELSE gpc' = "stopped" /\ UNCHANGED <<fault, usingReadThread>>

\* stopThreads() up to its first join.
StopThreads ==
  /\ IF usingWriteThread
     THEN usingWriteThread' = FALSE /\ gpc' = "joinWrite" /\ UNCHANGED <<fault, usingReadThread>>
     ELSE StopReader /\ UNCHANGED usingWriteThread
  /\ UNCHANGED <<handleOpen, readThread, rpc, chunks, inbox, useWriteThread, writeThread,
                 writerVars, listVars, dataVars>>

JoinWriter ==
  /\ Running /\ gpc = "joinWrite" /\ writeThread \notin LiveWriters
  /\ writeThread' = NoThread
  /\ StopReader
  /\ UNCHANGED <<handleOpen, readThread, rpc, chunks, inbox, usingWriteThread, useWriteThread,
                 writerVars, listVars, dataVars>>

\* MUTANT of ReaderEnded: the read thread is told to stop but not joined.
ReaderDetached == TRUE

ReaderEnded == readThread \notin LiveReaders

JoinReader ==
  /\ Running /\ gpc = "joinRead" /\ ReaderEnded
  /\ readThread' = NoThread /\ gpc' = "stopped"
  /\ UNCHANGED <<fault, handleOpen, usingReadThread, rpc, chunks, inbox, threadVars, writerVars,
                 listVars, dataVars>>

-----------------------------------------------------------------------------
(* writeThreadFunction() *)

WriterAt(t, step) == Running /\ wpc[t] = step /\ toWrite # NoNode
Goto(t, step) == wpc' = [wpc EXCEPT ![t] = step]

\* The dummy carries no message; the node a thread starts at is written again
\* when an earlier thread stopped behind it.
WriteHead(t) ==
  /\ WriterAt(t, "write")
  /\ IF toWrite = 0 THEN UNCHANGED written ELSE Deliver(toWrite)
  /\ Goto(t, "lock")
  /\ UNCHANGED <<gameVars, handleOpen, readVars, threadVars, held, prev, listVars, submitted,
                 queued>>

LockNode(t) ==
  /\ WriterAt(t, "lock") /\ ~Locked(toWrite)
  /\ held' = [held EXCEPT ![t] = toWrite]
  /\ Goto(t, "test")
  /\ UNCHANGED <<gameVars, handleOpen, readVars, threadVars, prev, listVars, dataVars>>

\* Leaving the loop releases the lock and ends the unique_lock.
TestNext(t) ==
  /\ WriterAt(t, "test")
  /\ \/ next[toWrite] = NoNode /\ Goto(t, "wait") /\ UNCHANGED held
     \/ next[toWrite] # NoNode /\ Goto(t, "advance") /\ held' = [held EXCEPT ![t] = NoNode]
  /\ UNCHANGED <<gameVars, handleOpen, readVars, threadVars, prev, listVars, dataVars>>

\* MUTANT of Wake: a stopped thread ends without looking at the rest of the list.
WakeEnds(t) ==
  /\ WriterAt(t, "wait") /\ ~Locked(held[t])
  /\ Goto(t, IF usingWriteThread THEN "test" ELSE "gone")
  /\ UNCHANGED <<gameVars, handleOpen, readVars, threadVars, held, prev, listVars, dataVars>>

\* MUTANT of Wake: no timeout, and the notification is lost.
WakeMissed(t) ==
  /\ WriterAt(t, "wait") /\ ~Locked(held[t]) /\ ~usingWriteThread
  /\ Goto(t, "drain")
  /\ UNCHANGED <<gameVars, handleOpen, readVars, threadVars, held, prev, listVars, dataVars>>

\* wait_for returns on a notification, after one second, or spuriously.
Wake(t) ==
  /\ WriterAt(t, "wait") /\ ~Locked(held[t])
  /\ Goto(t, IF usingWriteThread THEN "test" ELSE "drain")
  /\ UNCHANGED <<gameVars, handleOpen, readVars, threadVars, held, prev, listVars, dataVars>>

\* Draining deletes each node it leaves, the locked one included.
DrainNode(t) ==
  /\ WriterAt(t, "drain") /\ next[toWrite] # NoNode
  /\ freed' = freed \cup {toWrite}
  /\ toWrite' = next[toWrite]
  /\ Goto(t, "drainWrite")
  /\ UNCHANGED <<gameVars, handleOpen, readVars, threadVars, held, prev, next, lastWrite,
                 dataVars>>

DrainWrite(t) ==
  /\ WriterAt(t, "drainWrite")
  /\ IF toWrite = 0 THEN UNCHANGED written ELSE Deliver(toWrite)
  /\ Goto(t, "drain")
  /\ UNCHANGED <<gameVars, handleOpen, readVars, threadVars, held, prev, listVars, submitted,
                 queued>>

\* The list is empty: the lock is released and the thread ends, leaving
\* toWrite at a node whose message was written.
DrainExit(t) ==
  /\ WriterAt(t, "drain") /\ next[toWrite] = NoNode
  /\ held' = [held EXCEPT ![t] = NoNode]
  /\ Goto(t, "gone")
  /\ UNCHANGED <<gameVars, handleOpen, readVars, threadVars, prev, listVars, dataVars>>

\* MUTANT of Advance: toWrite moves on before prev is taken from it.
AdvanceSwapped(t) ==
  /\ WriterAt(t, "advance")
  /\ prev' = [prev EXCEPT ![t] = next[toWrite]]
  /\ toWrite' = next[toWrite]
  /\ Goto(t, "free")
  /\ UNCHANGED <<gameVars, handleOpen, readVars, threadVars, held, next, freed, lastWrite,
                 dataVars>>

Advance(t) ==
  /\ WriterAt(t, "advance")
  /\ prev' = [prev EXCEPT ![t] = toWrite]
  /\ toWrite' = next[toWrite]
  /\ Goto(t, "free")
  /\ UNCHANGED <<gameVars, handleOpen, readVars, threadVars, held, next, freed, lastWrite,
                 dataVars>>

\* MUTANT of FreePrev: the thread waits for the node after the new head at once.
FreePrevSkips(t) ==
  /\ Running /\ wpc[t] = "free"
  /\ freed' = freed \cup {prev[t]}
  /\ prev' = [prev EXCEPT ![t] = NoNode]
  /\ Goto(t, "lock")
  /\ UNCHANGED <<gameVars, handleOpen, readVars, threadVars, held, next, toWrite,
                 lastWrite, dataVars>>

FreePrev(t) ==
  /\ Running /\ wpc[t] = "free"
  /\ freed' = freed \cup {prev[t]}
  /\ prev' = [prev EXCEPT ![t] = NoNode]
  /\ Goto(t, "write")
  /\ UNCHANGED <<gameVars, handleOpen, readVars, threadVars, held, next, toWrite,
                 lastWrite, dataVars>>

WriterStep(t) ==
  \/ WriteHead(t) \/ LockNode(t) \/ TestNext(t) \/ Wake(t) \/ Advance(t) \/ FreePrev(t)
  \/ DrainNode(t) \/ DrainWrite(t) \/ DrainExit(t)

\* A thread dereferences null or freed memory and defined behaviour ends.  The
\* steps above also model the outcome where freed memory still holds its last
\* contents.
BadAccess ==
  /\ Running
  /\ \E n \in GameTouches \cup UNION {WriterTouches(t) : t \in Writers} :
       n \in freed \cup {NoNode}
  /\ fault' = "badPointer"
  /\ UNCHANGED <<gpc, handleOpen, readVars, threadVars, writerVars, listVars, dataVars>>

-----------------------------------------------------------------------------
(* readThreadFunction() and the game's side of the callback buffer *)

\* Serial reads time out, so a pass of the loop ends with or without a chunk.
ReadPass(r) ==
  /\ Running /\ rpc[r] = "read"
  /\ \/ chunks < MaxChunks /\ chunks' = chunks + 1 /\ rpc' = [rpc EXCEPT ![r] = "send"]
     \/ UNCHANGED chunks /\ rpc' = [rpc EXCEPT ![r] = "check"]
  /\ UNCHANGED <<gameVars, handleOpen, usingReadThread, readThread, inbox, threadVars,
                 writerVars, listVars, dataVars>>

\* MUTANT of Accepted: the result of callback is ignored.
AlwaysAccepted == TRUE

\* callback does not return -1.
Accepted == inbox < ArmaCap

\* send(): retried until Arma's buffer accepts the entry, whatever the flag says.
SendChunk(r) ==
  /\ Running /\ rpc[r] = "send" /\ Accepted
  /\ inbox' = inbox + 1
  /\ rpc' = [rpc EXCEPT ![r] = "check"]
  /\ UNCHANGED <<gameVars, handleOpen, usingReadThread, readThread, chunks, threadVars,
                 writerVars, listVars, dataVars>>

\* MUTANT of StopRequested: the loop never looks at the flag.
NeverStops == FALSE

StopRequested == ~usingReadThread

CheckExit(r) ==
  /\ Running /\ rpc[r] = "check"
  /\ rpc' = [rpc EXCEPT ![r] = IF StopRequested THEN "gone" ELSE "read"]
  /\ UNCHANGED <<gameVars, handleOpen, usingReadThread, readThread, chunks, inbox, threadVars,
                 writerVars, listVars, dataVars>>

ReaderStep(r) == ReadPass(r) \/ SendChunk(r) \/ CheckExit(r)

\* Arma's scripts run on the game thread: the buffer empties only between
\* commands.
HandleCallback ==
  /\ Idle /\ inbox > 0
  /\ inbox' = inbox - 1
  /\ UNCHANGED <<gameVars, handleOpen, usingReadThread, readThread, rpc, chunks, threadVars,
                 writerVars, listVars, dataVars>>
=============================================================================
