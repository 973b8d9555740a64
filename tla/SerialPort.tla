------------------------------- MODULE SerialPort -------------------------------
(***************************************************************************)
(* One serial port instance: the commands of serial.cpp that open, close   *)
(* and use the port, the destroy command of dllmain.cpp, and the threads   *)
(* of the instance's ReadWriteHandler running beside them.                 *)
(***************************************************************************)
EXTENDS ReadWriteHandler, SequencesExt

CONSTANTS
  MaxConnects,   \* bound: successful openings of the port
  MaxEarly       \* bound: enableThreadedWrites commands while the port is closed

ASSUME SerialAssumption == MaxConnects \in Nat /\ MaxEarly \in Nat

VARIABLES
  destroyed,   \* the instance was deleted by the destroy command
  connects,    \* openings so far
  earlies,     \* history: enableThreadedWrites commands while the port was closed
  early        \* history: write threads those commands started

portVars == <<destroyed, connects, earlies, early>>
vars     == <<rwhVars, portVars>>

PortTypeOK ==
  /\ destroyed \in BOOLEAN /\ connects \in 0..MaxConnects
  /\ earlies \in 0..MaxEarly /\ early \subseteq Writers
TypeOK == HandlerTypeOK /\ PortTypeOK

Init == HandlerInit /\ destroyed = FALSE /\ connects = 0 /\ earlies = 0 /\ early = {}

-----------------------------------------------------------------------------
(* The commands; a destroyed instance is no longer reachable by scripts. *)

Command == Idle /\ ~destroyed

Write == ~destroyed /\ (QueueWrite \/ DirectWrite) /\ UNCHANGED portVars

\* History: which write threads were started on a closed port.  The identity of
\* a thread that ended may be used again.
RecordStart ==
  LET started == LiveWriters' \ LiveWriters
  IN  early' = IF handleOpen' THEN early \ started ELSE early \cup started

\* Opening can succeed and configuring the port still fail: the command then
\* returns with the handle open and no thread started.
Connect ==
  /\ Command /\ ~handleOpen /\ connects < MaxConnects
  /\ connects' = connects + 1 /\ handleOpen' = TRUE
  /\ \/ StartThreads
     \/ UNCHANGED <<readVars, threadVars, writerVars, listVars, dataVars>>
  /\ RecordStart
  /\ UNCHANGED <<gameVars, destroyed, earlies>>

\* The command may come before connect as well as after it.
EnableThreadedWrites ==
  /\ ~destroyed /\ EnableWriteThread
  /\ \/ handleOpen /\ UNCHANGED earlies
     \/ ~handleOpen /\ earlies < MaxEarly /\ earlies' = earlies + 1
  /\ RecordStart
  /\ UNCHANGED <<destroyed, connects>>

\* Closing a port that is not open only reports an error, after the threads
\* were stopped.
Disconnect == Command /\ StopThreads /\ UNCHANGED portVars

ClosePort ==
  /\ Running /\ gpc = "stopped"
  /\ handleOpen' = FALSE /\ gpc' = "idle"
  /\ UNCHANGED <<fault, readVars, threadVars, writerVars, listVars, dataVars, portVars>>

Destroy ==
  /\ Command /\ ~handleOpen
  /\ destroyed' = TRUE
  /\ UNCHANGED <<rwhVars, connects, earlies, early>>

\* The handle the threads use is a member of the instance that destroy deletes;
\* the handler, its list and its threads are not deleted with it.
UseAfterDestroy ==
  /\ Running /\ destroyed /\ toWrite # 0
  /\ \E t \in Writers : wpc[t] \in {"write", "drainWrite"}
  /\ fault' = "badPointer"
  /\ UNCHANGED <<gpc, handleOpen, readVars, threadVars, writerVars, listVars, dataVars>>

\* isUsingWriteThread answers with a member of SerialPort that nothing assigns.
IsUsingWriteThread == FALSE

-----------------------------------------------------------------------------
(* The specification *)

GameContinues ==
  \/ (NotifyTail \/ MoveTail \/ JoinWriter \/ JoinReader) /\ UNCHANGED portVars
  \/ ClosePort

Receive      == HandleCallback /\ UNCHANGED portVars
WriteThread(t) == WriterStep(t) /\ UNCHANGED portVars
ReadThread(r)  == ReaderStep(r) /\ UNCHANGED portVars
Undefined    == (BadAccess \/ UseAfterDestroy) /\ UNCHANGED portVars

Next ==
  \/ Write \/ Connect \/ EnableThreadedWrites \/ Disconnect \/ Destroy
  \/ GameContinues \/ Receive \/ Undefined
  \/ \E t \in Writers : WriteThread(t)
  \/ \E r \in Readers : ReadThread(r)

Spec == Init /\ [][Next]_vars

\* A command that started runs on, std::threads are scheduled, wait_for has a
\* timeout of one second and reads of a serial port have one of milliseconds.
\* Scripts are free to issue no further command; Arma empties its buffer.
Fairness ==
  /\ WF_vars(GameContinues) /\ WF_vars(Receive)
  /\ \A t \in Writers : WF_vars(WriteThread(t))
  /\ \A r \in Readers : WF_vars(ReadThread(r))

FairSpec == Spec /\ Fairness

-----------------------------------------------------------------------------
(* Properties *)

\* Scripts that ask for threaded writes only while the port is open.
EnabledOpen == earlies = 0

\* stopThreads joins the one thread writeThread names.  Although write threads
\* are started from two places and stopped in a third, whatever the scripts do
\* no other is live, except one that enableThreadedWrites started on a closed
\* port: connect is the only way to a second consumer of the list.
StraysAreEarly == \A t \in LiveWriters : t = writeThread \/ t \in early

\* Whatever the scripts do, no thread that was started on the open port is left
\* when the port is closed, so that closing it or deleting the instance leaves at
\* most those write threads that enableThreadedWrites started on a closed port.
ThreadsEndWithPort == ~handleOpen => LiveReaders = {} /\ LiveWriters \subseteq early

\* Whenever no write thread is left, everything that was ever queued has been
\* written: disconnect flushes before it closes the handle.  (A write thread on a
\* closed port takes messages off the list that reach no device.)
FlushedWhenStopped == EnabledOpen /\ LiveWriters = {} => queued \subseteq ToSet(written)

\* The write thread never holds on to a deleted node as its place in the list,
\* and never deletes a node twice, while it is the only one.
HeadNeverFreed ==
  EnabledOpen => \A t \in LiveWriters :
    toWrite \notin freed /\ (wpc[t] = "free" => prev[t] \notin freed)

\* Between commands the tail the next write appends to is allocated, however
\* far the write thread, the only one, has come.
TailLiveBetweenCommands == EnabledOpen /\ gpc = "idle" => lastWrite \notin freed

\* Messages leave in the order of submission and a repetition is only ever the
\* last message, once for each restart of the write thread: the list, its locks
\* and its threads implement the outbox, until the scripts ask for
\* threaded writes on a closed port.
Out == INSTANCE Outbox WITH
  mayReplay <- \E t \in LiveWriters : wpc[t] = "write" /\ toWrite \in ToSet(written),
  voided    <- ~EnabledOpen
ImplementsOutbox == Out!Spec

\* A command the game thread has begun returns, unless defined behaviour ended or
\* Arma's callback buffer is full, which only the game thread could empty.
CommandReturns ==
  gpc # "idle" ~> (gpc = "idle" \/ ~Running \/ inbox = ArmaCap \/ ~EnabledOpen)

\* A queued message is written eventually, whatever the scripts do next, asking
\* for threaded writes on a closed port excepted.
QueuedIsWritten ==
  \A m \in 1..MaxMsgs : m \in queued ~> (m \in ToSet(written) \/ ~Running \/ ~EnabledOpen)

-----------------------------------------------------------------------------
(* Statements of comments and documentation that the code does not keep *)

\* BufferedWrite.h is made for one consumer: at no time do two write threads walk
\* the list.
AtMostOneWriter == \A s, t \in LiveWriters : s = t

\* destroy asks that the port be disconnected, so that nothing of the instance is
\* left at work when it is deleted.
NothingOutlivesDestroy == destroyed => LiveWriters \cup LiveReaders = {}

\* README: threaded writes leave "no chance of a double-write".
NoDoubleWrite == IsInjective(written)

\* write() notifies and reads the tail after it released the lock; the list is
\* designed for a writing and a reading thread to share, so the tail the game
\* thread is still using should be allocated.
TailLiveInWrite == gpc \in {"notify", "move"} => lastWrite \notin freed

\* The comment in writeThreadFunction: the drain loop "is not currently used
\* since write threads can't be turned off".
DrainNeverUsed == \A t \in Writers : wpc[t] # "drain"

\* isUsingWriteThread tells "whether this serial port is using a thread for writes".
UsingThreadAnswered == gpc = "idle" => (IsUsingWriteThread <=> usingWriteThread)

\* The disconnect command returns "a success or failure message", also when a read
\* thread waits for room in Arma's callback buffer.
DisconnectReturns == gpc # "idle" ~> (gpc = "idle" \/ ~Running)

\* And when no read thread was ever started.
DisconnectAnswers == fault # "nullJoin"
=============================================================================
