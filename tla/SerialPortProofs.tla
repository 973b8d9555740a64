------------------------ MODULE SerialPortProofs ------------------------
(***************************************************************************)
(* A serial port instance, for every number of messages, threads, chunks   *)
(* and openings.  Types and the life of the threads for all scripts, the   *)
(* list and what leaves it until scripts ask for threaded writes on a      *)
(* closed port.                                                            *)
(***************************************************************************)
EXTENDS SerialPort, TLAPS

USE ThreadsAssumption, BoundsAssumption, SerialAssumption
    DEF ThreadsAssumption, BoundsAssumption, SerialAssumption

-----------------------------------------------------------------------------
(* Types *)

\* The types, and the two places where a pointer that may be null is not.
PointerOK ==
  /\ gpc \in {"notify", "move"} => next[lastWrite] # NoNode
  /\ \A t \in Writers : wpc[t] = "free" => prev[t] # NoNode
TypeInv == TypeOK /\ PointerOK

\* The constructor's values have the declared types.
LEMMA InitTypeInv == Init => TypeInv
<1> SUFFICES ASSUME Init PROVE TypeInv
  OBVIOUS
<1> USE DEF Init, HandlerInit
<1>1. GameTypeOK
  BY DEF GameTypeOK, GameSteps, Faults
<1>2. ReadTypeOK
  BY DEF ReadTypeOK, ReadSteps
<1>3. WriterTypeOK
  BY DEF WriterTypeOK, WriteSteps
<1>4. ListTypeOK
  BY DEF ListTypeOK, Node, NoNode
<1>5. DataTypeOK
  BY DEF DataTypeOK
<1>6. PointerOK
  BY DEF PointerOK
<1>7. PortTypeOK
  <2>1. destroyed \in BOOLEAN /\ early \subseteq Writers
    OBVIOUS
  <2>2. connects \in 0..MaxConnects /\ earlies \in 0..MaxEarly
    OBVIOUS
  <2> QED
    BY <2>1, <2>2 DEF PortTypeOK
<1> QED
  BY <1>1, <1>2, <1>3, <1>4, <1>5, <1>6, <1>7 DEF TypeInv, TypeOK, HandlerTypeOK

\* Delivering a message keeps the history a sequence of messages.
LEMMA DeliverType ==
  ASSUME written \in Seq(1..MaxMsgs), NEW m \in 1..MaxMsgs, Deliver(m)
  PROVE  written' \in Seq(1..MaxMsgs)
<1>1. CASE handleOpen
  <2>1. written' = Append(written, m)
    BY <1>1 DEF Deliver
  <2> QED
    BY <2>1
<1>2. CASE ~handleOpen
  BY <1>2 DEF Deliver
<1> QED
  BY <1>1, <1>2

\* The history names write threads only.
LEMMA RecordType ==
  ASSUME early \subseteq Writers, RecordStart PROVE early' \subseteq Writers
BY DEF RecordStart, LiveWriters

\* Each command of the game thread preserves the types.
LEMMA GameTypeInv ==
  ASSUME TypeInv,
         \/ Write \/ Connect \/ EnableThreadedWrites \/ Disconnect \/ Destroy
         \/ GameContinues \/ Receive \/ Undefined
  PROVE  TypeInv'
<1> USE DEF TypeInv, TypeOK, HandlerTypeOK, PointerOK
<1>10. ASSUME UNCHANGED portVars PROVE PortTypeOK'
  BY <1>10 DEF portVars, PortTypeOK
<1>1. CASE Write /\ QueueWrite
  <2> USE <1>1 DEF Write, QueueWrite, Idle
  <2>1. GameTypeOK'
    BY DEF GameTypeOK, GameSteps
  <2>2. ReadTypeOK'
    BY DEF ReadTypeOK, readVars
  <2>3. WriterTypeOK'
    BY DEF WriterTypeOK, writerVars, threadVars
  <2>4. ListTypeOK' /\ next'[lastWrite] = submitted + 1
    BY DEF ListTypeOK, DataTypeOK, Node, NoNode
  <2>5. DataTypeOK'
    <3>1. submitted \in 0..MaxMsgs /\ submitted < MaxMsgs /\ queued \subseteq 1..submitted
      BY DEF DataTypeOK
    <3>2. 1..submitted \subseteq 1..submitted + 1 /\ submitted + 1 \in 1..submitted + 1
      BY <3>1
    <3>3. /\ submitted' = submitted + 1 /\ queued' = queued \cup {submitted + 1}
          /\ written' = written /\ written \in Seq(1..MaxMsgs)
      BY DEF DataTypeOK
    <3>4. submitted' \in 0..MaxMsgs
      BY ONLY <3>1, <3>3, BoundsAssumption DEF BoundsAssumption
    <3>5. queued' \subseteq 1..submitted'
      BY ONLY <3>1, <3>2, <3>3
    <3> QED
      BY ONLY <3>3, <3>4, <3>5 DEF DataTypeOK
  <2>6. PointerOK'
    BY <2>4 DEF WriterTypeOK, writerVars, DataTypeOK, NoNode
  <2> QED
    BY <2>1, <2>2, <2>3, <2>4, <2>5, <2>6, <1>10
<1>2. CASE Write /\ DirectWrite
  <2> USE <1>2 DEF Write, DirectWrite, Idle
  <2>1. GameTypeOK' /\ ReadTypeOK' /\ WriterTypeOK' /\ ListTypeOK' /\ PointerOK'
    BY DEF GameTypeOK, gameVars, ReadTypeOK, readVars, WriterTypeOK, writerVars, threadVars,
           ListTypeOK, listVars
  <2>2. DataTypeOK'
    BY DeliverType DEF DataTypeOK
  <2> QED
    BY <2>1, <2>2, <1>10
<1>3. CASE Connect
  <2> USE <1>3 DEF Connect
  <2>1. GameTypeOK' /\ ListTypeOK' /\ DataTypeOK'
    BY DEF GameTypeOK, gameVars, ListTypeOK, DataTypeOK, StartThreads, listVars, dataVars
  <2>5. PortTypeOK'
    BY RecordType DEF PortTypeOK
  <2>2. ReadTypeOK'
    BY DEF ReadTypeOK, StartThreads, SpawnReader, ReadSteps, readVars
  <2>3. WriterTypeOK'
    BY DEF WriterTypeOK, StartThreads, SpawnWriter, WriteSteps, threadVars, writerVars
  <2>4. PointerOK'
    BY DEF WriterTypeOK, StartThreads, SpawnWriter, Command, Idle, gameVars, listVars, writerVars
  <2> QED
    BY <2>1, <2>2, <2>3, <2>4, <2>5
<1>4. CASE EnableThreadedWrites
  <2> USE <1>4 DEF EnableThreadedWrites, EnableWriteThread
  <2>1. GameTypeOK' /\ ListTypeOK' /\ DataTypeOK' /\ ReadTypeOK'
    BY DEF GameTypeOK, gameVars, ListTypeOK, DataTypeOK, listVars, dataVars, ReadTypeOK, readVars
  <2>2. WriterTypeOK'
    BY DEF WriterTypeOK, SpawnWriter, WriteSteps
  <2>3. PointerOK'
    BY DEF WriterTypeOK, SpawnWriter, Idle, gameVars, listVars
  <2>4. PortTypeOK'
    BY RecordType DEF PortTypeOK
  <2> QED
    BY <2>1, <2>2, <2>3, <2>4
<1>5. CASE Disconnect
  <2> USE <1>5 DEF Disconnect, StopThreads, StopReader
  <2>1. GameTypeOK' /\ ReadTypeOK' /\ WriterTypeOK'
    BY DEF GameTypeOK, GameSteps, Faults, ReadTypeOK, WriterTypeOK, writerVars
  <2>2. ListTypeOK' /\ DataTypeOK'
    BY DEF ListTypeOK, DataTypeOK, listVars, dataVars
  <2>3. PointerOK'
    BY DEF Command, Idle, writerVars, listVars
  <2> QED
    BY <2>1, <2>2, <2>3, <1>10
<1>6. CASE Destroy
  BY <1>6 DEF Destroy, rwhVars, gameVars, readVars, threadVars, writerVars, listVars, dataVars,
              PortTypeOK, GameTypeOK, ReadTypeOK, WriterTypeOK, ListTypeOK, DataTypeOK
<1>7. CASE GameContinues
  <2> USE DEF GameContinues, readVars, threadVars, writerVars, listVars, dataVars
  <2>1. CASE NotifyTail
    <3> USE <2>1 DEF NotifyTail
    <3>1. GameTypeOK' /\ ReadTypeOK' /\ WriterTypeOK'
      BY DEF GameTypeOK, GameSteps, ReadTypeOK, WriterTypeOK
    <3>2. ListTypeOK' /\ DataTypeOK' /\ PointerOK'
      BY DEF ListTypeOK, DataTypeOK
    <3>3. UNCHANGED portVars
      BY <1>7 DEF ClosePort
    <3> QED
      BY <3>1, <3>2, <3>3, <1>10
  <2>2. CASE MoveTail
    <3> USE <2>2 DEF MoveTail
    <3>1. GameTypeOK' /\ ReadTypeOK' /\ WriterTypeOK'
      BY DEF GameTypeOK, GameSteps, ReadTypeOK, WriterTypeOK
    <3>2. ListTypeOK' /\ DataTypeOK'
      BY DEF ListTypeOK, DataTypeOK
    <3>3. PointerOK'
      OBVIOUS
    <3>4. UNCHANGED portVars
      BY <1>7 DEF ClosePort
    <3> QED
      BY <3>1, <3>2, <3>3, <3>4, <1>10
  <2>3. CASE JoinWriter
    <3> USE <2>3 DEF JoinWriter, StopReader
    <3>1. GameTypeOK' /\ ReadTypeOK' /\ WriterTypeOK'
      BY DEF GameTypeOK, GameSteps, Faults, ReadTypeOK, WriterTypeOK
    <3>2. ListTypeOK' /\ DataTypeOK'
      BY DEF ListTypeOK, DataTypeOK
    <3>3. PointerOK'
      OBVIOUS
    <3>4. UNCHANGED portVars
      BY <1>7 DEF ClosePort
    <3> QED
      BY <3>1, <3>2, <3>3, <3>4, <1>10
  <2>4. CASE JoinReader
    <3> USE <2>4 DEF JoinReader
    <3>1. GameTypeOK' /\ ReadTypeOK' /\ WriterTypeOK'
      BY DEF GameTypeOK, GameSteps, ReadTypeOK, WriterTypeOK
    <3>2. ListTypeOK' /\ DataTypeOK' /\ PointerOK'
      BY DEF ListTypeOK, DataTypeOK
    <3>3. UNCHANGED portVars
      BY <1>7 DEF ClosePort
    <3> QED
      BY <3>1, <3>2, <3>3, <1>10
  <2>5. CASE ClosePort
    BY <2>5, <1>10 DEF ClosePort, GameTypeOK, GameSteps, ReadTypeOK, WriterTypeOK, ListTypeOK,
                DataTypeOK
  <2> QED
    BY <1>7, <2>1, <2>2, <2>3, <2>4, <2>5
<1>8. CASE Receive
  BY <1>8, <1>10 DEF Receive, HandleCallback, gameVars, threadVars, writerVars, listVars, dataVars,
              GameTypeOK, ReadTypeOK, WriterTypeOK, ListTypeOK, DataTypeOK
<1>9. CASE Undefined
  BY <1>9, <1>10 DEF Undefined, BadAccess, UseAfterDestroy, Faults, readVars, threadVars,
     writerVars, listVars, dataVars,
              GameTypeOK, ReadTypeOK, WriterTypeOK, ListTypeOK, DataTypeOK
<1> QED
  BY <1>1, <1>2, <1>3, <1>4, <1>5, <1>6, <1>7, <1>8, <1>9 DEF Write

\* Each step of a write thread preserves the types.
LEMMA WriterTypeInv ==
  ASSUME TypeInv, NEW t \in Writers, WriteThread(t) PROVE TypeInv'
<1> USE DEF TypeInv, TypeOK, HandlerTypeOK, WriteThread
<1>2. ASSUME UNCHANGED <<gameVars, handleOpen, readVars, portVars>>
      PROVE  GameTypeOK' /\ ReadTypeOK' /\ PortTypeOK'
  BY <1>2 DEF GameTypeOK, ReadTypeOK, gameVars, readVars, portVars, PortTypeOK
<1>3. ASSUME UNCHANGED dataVars PROVE DataTypeOK'
  BY <1>3 DEF DataTypeOK, dataVars
<1>4. ASSUME UNCHANGED listVars PROVE ListTypeOK'
  BY <1>4 DEF ListTypeOK, listVars
<1>5. ASSUME UNCHANGED <<threadVars, held, prev>>, NEW step \in WriteSteps, Goto(t, step)
      PROVE  WriterTypeOK'
  BY <1>5 DEF WriterTypeOK, threadVars, Goto
<1>6. ASSUME UNCHANGED <<gameVars, listVars, prev>>, NEW step \in WriteSteps, step # "free",
             Goto(t, step)
      PROVE  PointerOK'
  BY <1>6 DEF PointerOK, gameVars, listVars, Goto, WriterTypeOK
<1>7. CASE WriteHead(t) \/ DrainWrite(t)
  <2>1. toWrite # 0 => toWrite \in 1..MaxMsgs
    BY <1>7 DEF WriteHead, DrainWrite, WriterAt, ListTypeOK, Node, NoNode
  <2>2. DataTypeOK'
    BY <1>7, <2>1, DeliverType DEF WriteHead, DrainWrite, DataTypeOK
  <2> QED
    BY <1>7, <2>2, <1>2, <1>4, <1>5, <1>6 DEF WriteHead, DrainWrite, WriteSteps
<1>8. CASE LockNode(t)
  <2>1. WriterTypeOK'
    BY <1>8 DEF LockNode, WriterTypeOK, ListTypeOK, threadVars, Goto, WriteSteps
  <2> QED
    BY <1>8, <2>1, <1>2, <1>3, <1>4, <1>6 DEF LockNode, WriteSteps
<1>9. CASE TestNext(t)
  <2>1. WriterTypeOK'
    BY <1>9 DEF TestNext, WriterTypeOK, threadVars, Goto, WriteSteps
  <2> QED
    BY <1>9, <2>1, <1>2, <1>3, <1>4, <1>6 DEF TestNext, WriteSteps
<1>10. CASE Wake(t)
  BY <1>10, <1>2, <1>3, <1>4, <1>5, <1>6 DEF Wake, WriteSteps
<1>11. CASE DrainExit(t)
  <2>1. WriterTypeOK'
    BY <1>11 DEF DrainExit, WriterTypeOK, threadVars, Goto, WriteSteps
  <2> QED
    BY <1>11, <2>1, <1>2, <1>3, <1>4, <1>6 DEF DrainExit, WriteSteps
<1>12. CASE DrainNode(t)
  <2> USE <1>12 DEF DrainNode, WriterAt
  <2>1. ListTypeOK'
    BY DEF ListTypeOK
  <2>2. WriterTypeOK'
    BY <1>5 DEF WriteSteps
  <2>3. PointerOK'
    BY DEF PointerOK, gameVars, Goto, WriterTypeOK
  <2> QED
    BY <2>1, <2>2, <2>3, <1>2, <1>3
<1>13. CASE Advance(t)
  <2> USE <1>13 DEF Advance, WriterAt
  <2>1. ListTypeOK'
    BY DEF ListTypeOK
  <2>2. WriterTypeOK'
    BY DEF WriterTypeOK, ListTypeOK, threadVars, Goto, WriteSteps
  <2>3. PointerOK'
    BY DEF PointerOK, gameVars, Goto, WriterTypeOK
  <2> QED
    BY <2>1, <2>2, <2>3, <1>2, <1>3
<1>14. CASE FreePrev(t)
  <2> USE <1>14 DEF FreePrev
  <2>1. prev[t] \in Node
    BY DEF PointerOK, WriterTypeOK
  <2>2. ListTypeOK'
    BY <2>1 DEF ListTypeOK
  <2>3. WriterTypeOK'
    BY DEF WriterTypeOK, threadVars, Goto, WriteSteps
  <2>4. PointerOK'
    BY DEF PointerOK, gameVars, Goto, WriterTypeOK
  <2> QED
    BY <2>2, <2>3, <2>4, <1>2, <1>3
<1> QED
  BY <1>7, <1>8, <1>9, <1>10, <1>11, <1>12, <1>13, <1>14 DEF WriterStep

\* Each step of a read thread preserves the types.
LEMMA ReaderTypeInv ==
  ASSUME TypeInv, NEW r \in Readers, ReadThread(r) PROVE TypeInv'
<1> USE DEF TypeInv, TypeOK, HandlerTypeOK, ReadThread
<1>1. ReadTypeOK'
  <2>1. CASE ReadPass(r)
    BY <2>1 DEF ReadPass, ReadTypeOK, ReadSteps
  <2>2. CASE SendChunk(r)
    BY <2>2 DEF SendChunk, Accepted, ReadTypeOK, ReadSteps
  <2>3. CASE CheckExit(r)
    BY <2>3 DEF CheckExit, ReadTypeOK, ReadSteps
  <2> QED
    BY <2>1, <2>2, <2>3 DEF ReaderStep
<1>2. UNCHANGED <<gameVars, handleOpen, threadVars, writerVars, listVars, dataVars,
                  portVars>>
  BY DEF ReaderStep, ReadPass, SendChunk, CheckExit
<1> QED
  BY <1>1, <1>2 DEF gameVars, threadVars, writerVars, listVars, dataVars, GameTypeOK,
     WriterTypeOK, ListTypeOK, DataTypeOK, PointerOK, portVars, PortTypeOK

\* Every variable keeps its type whatever the threads do: among others, the
\* tail the game thread appends to is never null.
THEOREM TypeCorrect == Spec => []TypeOK
<1>1. Init => TypeInv
  BY InitTypeInv
<1>2. TypeInv /\ [Next]_vars => TypeInv'
  <2>1. ASSUME TypeInv, UNCHANGED vars PROVE TypeInv'
    BY <2>1 DEF vars, rwhVars, gameVars, readVars, threadVars, writerVars, listVars, dataVars,
       TypeInv, TypeOK, HandlerTypeOK, PointerOK, GameTypeOK, ReadTypeOK, WriterTypeOK,
       ListTypeOK, DataTypeOK, portVars, PortTypeOK
  <2> QED
    BY <2>1, GameTypeInv, WriterTypeInv, ReaderTypeInv DEF Next
<1>3. TypeInv => TypeOK
  BY DEF TypeInv
<1> QED
  BY <1>1, <1>2, <1>3, PTL DEF Spec

-----------------------------------------------------------------------------
(* The inductive invariants *)

\* Whatever the scripts do: a write thread that was not started on a closed port
\* is the one writeThread names, and lives while the port is open.
ThreadInv ==
  /\ \A t \in LiveWriters \ early :
       t = writeThread /\ handleOpen = TRUE /\ (usingWriteThread = TRUE \/ gpc = "joinWrite")
  /\ gpc \in {"joinWrite", "joinRead", "stopped"} => usingWriteThread = FALSE

\* While threaded writes are enabled on the open port only, the only live write
\* thread is the one writeThread points to; it is joined
\* before the handle is closed, and it drains only after it was told to stop.
WriterInv ==
  /\ \A t \in LiveWriters :
       t = writeThread /\ handleOpen = TRUE /\ (usingWriteThread = TRUE \/ gpc = "joinWrite")
  /\ usingWriteThread = TRUE => writeThread \in LiveWriters
  /\ gpc \in {"joinWrite", "joinRead", "stopped"} => usingWriteThread = FALSE
  /\ gpc \in {"notify", "move"} => usingWriteThread = TRUE
  /\ \A t \in Writers : wpc[t] \in {"drain", "drainWrite"} => usingWriteThread = FALSE

\* The same for the read thread.
ReaderInv ==
  /\ \A r \in LiveReaders :
       r = readThread /\ handleOpen = TRUE /\ (usingReadThread = TRUE \/ gpc = "joinRead")
  /\ gpc \in {"joinRead", "stopped"} => usingReadThread = FALSE

Appending == gpc \in {"notify", "move"}

\* The list runs upwards from the deleted nodes through the head to the tail,
\* which the write thread can pass only while write() is moving it.
ListInv ==
  /\ toWrite # NoNode
  /\ \A n \in freed : n < toWrite
  /\ \A t \in Writers : wpc[t] = "free" => prev[t] < toWrite /\ \A n \in freed : n < prev[t]
  /\ \A t \in Writers : wpc[t] = "advance" => next[toWrite] # NoNode
  /\ \A n \in Node : next[n] # NoNode =>
       /\ n < next[n] /\ next[n] <= submitted
       /\ next[n] <= lastWrite \/ (Appending /\ n = lastWrite)
  /\ ~Appending => next[lastWrite] = NoNode
  /\ lastWrite <= submitted
  /\ toWrite <= lastWrite \/ (Appending /\ toWrite = next[lastWrite])

Allocated == queued \cup {0}

\* Steps of a write thread at which the message of the head is not written yet.
HeadUnwritten == \E t \in LiveWriters : wpc[t] \in {"free", "write", "drainWrite"}

\* No queued message is skipped by the list, and all those before the head, as
\* well as the head once the write thread is past writing it, are written.
FlushInv ==
  /\ toWrite \in Allocated /\ lastWrite \in Allocated
  /\ \A n \in Node : next[n] # NoNode => next[n] \in queued
  /\ \A m \in queued : m <= lastWrite \/ (Appending /\ m = next[lastWrite])
  /\ \A n \in Allocated, m \in queued : n < m => next[n] # NoNode /\ next[n] <= m
  /\ \A m \in queued : m \in ToSet(written) \/ m > toWrite \/ (m = toWrite /\ HeadUnwritten)

\* Without a write thread nothing queued is left.
Drained == LiveWriters = {} => queued \subseteq ToSet(written)

IInv == TypeInv /\ WriterInv /\ ReaderInv /\ ListInv /\ FlushInv /\ Drained

\* The invariant holds before the first command.
LEMMA InitIInv == Init => IInv
<1> SUFFICES ASSUME Init PROVE IInv
  OBVIOUS
<1> USE DEF Init, HandlerInit
<1>1. TypeInv
  BY InitTypeInv
<1>2. WriterInv
  BY DEF WriterInv, LiveWriters
<1>3. ReaderInv
  BY DEF ReaderInv, LiveReaders
<1>4. ListInv
  BY DEF ListInv, Appending, Node, NoNode
<1>5. FlushInv /\ Drained
  BY DEF FlushInv, Allocated, Drained
<1> QED
  BY <1>1, <1>2, <1>3, <1>4, <1>5 DEF IInv

-----------------------------------------------------------------------------
(* Threads *)

\* Starting a write thread while none is live leaves exactly that one live.
LEMMA SpawnWriterLive ==
  ASSUME TypeInv, LiveWriters = {}, SpawnWriter
  PROVE  /\ writeThread' \in Writers /\ LiveWriters' = {writeThread'}
         /\ wpc' = [wpc EXCEPT ![writeThread'] = "write"] /\ usingWriteThread' = TRUE
BY DEF TypeInv, TypeOK, HandlerTypeOK, WriterTypeOK, LiveWriters, SpawnWriter, WriteSteps

\* A closed port has no live read thread.
LEMMA NoReaderWhenClosed ==
  ASSUME ReaderInv, handleOpen = FALSE PROVE LiveReaders = {}
BY DEF ReaderInv

\* A step after which threaded writes were never enabled on a closed port is none
\* that enables them there.
LEMMA EnabledWhenOpen ==
  ASSUME TypeInv, Next, EnabledOpen'
  PROVE  EnabledOpen /\ (EnableThreadedWrites => handleOpen = TRUE)
<1>1. earlies \in Nat /\ handleOpen \in BOOLEAN
  BY DEF TypeInv, TypeOK, HandlerTypeOK, GameTypeOK, PortTypeOK
<1>2. earlies' = earlies \/ earlies' = earlies + 1
  BY DEF Next, Write, Connect, EnableThreadedWrites, Disconnect, Destroy, GameContinues,
     ClosePort, Receive, Undefined, WriteThread, ReadThread, portVars
<1>3. EnableThreadedWrites => handleOpen = TRUE \/ earlies' = earlies + 1
  BY <1>1 DEF EnableThreadedWrites
<1> QED
  BY <1>1, <1>2, <1>3 DEF EnabledOpen

\* Starting a write thread on the open port leaves it the only one that may have
\* been started there, and on the closed port the history names it.
LEMMA SpawnRecorded ==
  ASSUME TypeInv, LiveWriters \subseteq early, SpawnWriter, RecordStart
  PROVE  /\ usingWriteThread' = TRUE
         /\ \A t \in LiveWriters' \ early' : t = writeThread' /\ handleOpen'
<1>1. wpc \in [Writers -> WriteSteps]
  BY DEF TypeInv, TypeOK, HandlerTypeOK, WriterTypeOK
<1>2. /\ writeThread' \in Writers /\ writeThread' \notin LiveWriters
      /\ wpc' = [wpc EXCEPT ![writeThread'] = "write"] /\ usingWriteThread' = TRUE
  BY DEF SpawnWriter
<1>3. LiveWriters' = LiveWriters \cup {writeThread'}
  BY <1>1, <1>2 DEF LiveWriters
<1>4. LiveWriters' \ LiveWriters = {writeThread'}
  BY <1>2, <1>3
<1>5. early' = IF handleOpen' THEN early \ {writeThread'} ELSE early \cup {writeThread'}
  BY <1>4 DEF RecordStart
<1> QED
  BY <1>2, <1>3, <1>5

\* Without a start the history stays as it is.
LEMMA NoStartRecorded ==
  ASSUME TypeInv, wpc' = wpc, RecordStart PROVE early' = early
BY DEF RecordStart, LiveWriters, TypeInv, TypeOK, PortTypeOK

\* Every step of the port keeps the threads started on the open port within its life.
LEMMA ThreadInvStep ==
  ASSUME TypeInv, ThreadInv, Next PROVE ThreadInv'
<1>1. /\ usingWriteThread \in BOOLEAN /\ handleOpen \in BOOLEAN /\ gpc \in GameSteps
      /\ wpc \in [Writers -> WriteSteps]
  BY DEF TypeInv, TypeOK, HandlerTypeOK, WriterTypeOK, GameTypeOK
<1>2. ASSUME UNCHANGED <<wpc, writeThread, usingWriteThread, handleOpen, early>>,
             gpc' = gpc \/ gpc \notin {"joinWrite", "joinRead", "stopped"},
             gpc' = gpc \/ gpc' \notin {"joinWrite", "joinRead", "stopped"}
      PROVE  ThreadInv'
  BY <1>2 DEF ThreadInv, LiveWriters
<1>3. CASE Write
  BY <1>2, <1>3 DEF Write, QueueWrite, DirectWrite, Idle, gameVars, threadVars, writerVars,
     portVars
<1>4. CASE Connect
  <2>1. LiveWriters \subseteq early
    BY <1>1, <1>4 DEF Connect, ThreadInv
  <2>2. gpc' = "idle" /\ handleOpen' = TRUE /\ RecordStart
    BY <1>4 DEF Connect, Command, Idle, gameVars
  <2>3. CASE StartThreads /\ useWriteThread
    <3>1. SpawnWriter
      BY <2>3 DEF StartThreads
    <3> QED
      BY <3>1, <2>1, <2>2, SpawnRecorded DEF ThreadInv
  <2>4. CASE ~(StartThreads /\ useWriteThread)
    <3>1. UNCHANGED wpc
      BY <1>4, <2>4 DEF Connect, StartThreads, writerVars
    <3>2. LiveWriters' \subseteq early'
      BY <3>1, <2>1, <2>2, NoStartRecorded DEF LiveWriters
    <3> QED
      BY <3>2, <2>2 DEF ThreadInv
  <2> QED
    BY <2>3, <2>4
<1>5. CASE EnableThreadedWrites
  <2>1. gpc = "idle" /\ gpc' = "idle" /\ handleOpen' = handleOpen /\ RecordStart
    BY <1>5 DEF EnableThreadedWrites, EnableWriteThread, Idle, gameVars
  <2>2. CASE usingWriteThread
    <3>1. UNCHANGED <<wpc, writeThread, usingWriteThread>>
      BY <1>5, <2>2 DEF EnableThreadedWrites, EnableWriteThread, AlreadyThreaded
    <3> QED
      BY <3>1, <2>1, <1>2, NoStartRecorded
  <2>3. CASE ~usingWriteThread
    <3>1. LiveWriters \subseteq early /\ SpawnWriter
      BY <1>5, <2>1, <2>3 DEF EnableThreadedWrites, EnableWriteThread, AlreadyThreaded, ThreadInv
    <3> QED
      BY <3>1, <2>1, <1>1, SpawnRecorded DEF ThreadInv
  <2> QED
    BY <2>2, <2>3
<1>6. CASE Disconnect
  <2>1. /\ gpc = "idle" /\ UNCHANGED <<wpc, writeThread, handleOpen, early>>
        /\ usingWriteThread' = FALSE
    BY <1>6, <1>1 DEF Disconnect, StopThreads, Command, Idle, writerVars, portVars
  <2>2. usingWriteThread = TRUE => gpc' = "joinWrite"
    BY <1>6 DEF Disconnect, StopThreads
  <2> QED
    BY <1>1, <2>1, <2>2 DEF ThreadInv, LiveWriters
<1>7. CASE GameContinues
  <2>1. CASE NotifyTail \/ MoveTail
    BY <1>2, <1>7, <2>1 DEF GameContinues, NotifyTail, MoveTail, ClosePort, threadVars, writerVars,
       portVars
\* Once the thread writeThread names has ended, none started on the open port is left.
  <2>2. CASE JoinWriter
    <3>1. usingWriteThread = FALSE /\ LiveWriters \subseteq early
      BY <2>2, <1>1 DEF JoinWriter, ThreadInv
    <3>2. UNCHANGED <<wpc, usingWriteThread, early>>
      BY <1>7, <2>2 DEF GameContinues, ClosePort, JoinWriter, writerVars, portVars
    <3> QED
      BY <3>1, <3>2 DEF ThreadInv, LiveWriters
  <2>3. CASE JoinReader \/ ClosePort
    <3>1. usingWriteThread = FALSE /\ LiveWriters \subseteq early
      BY <2>3, <1>1 DEF JoinReader, ClosePort, ThreadInv
    <3>2. UNCHANGED <<wpc, usingWriteThread, early>>
      BY <1>7, <2>3 DEF GameContinues, ClosePort, JoinReader, threadVars, writerVars, portVars
    <3> QED
      BY <3>1, <3>2 DEF ThreadInv, LiveWriters
  <2> QED
    BY <1>7, <2>1, <2>2, <2>3 DEF GameContinues
<1>8. ASSUME NEW t \in Writers, WriteThread(t) PROVE ThreadInv'
  <2>1. UNCHANGED <<writeThread, usingWriteThread, handleOpen, gpc, early>>
    BY <1>8 DEF WriteThread, WriterStep, WriteHead, LockNode, TestNext, Wake, DrainNode,
       DrainWrite, DrainExit, Advance, FreePrev, gameVars, threadVars, portVars
  <2>2. t \in LiveWriters
    BY <1>8 DEF WriteThread, WriterStep, WriteHead, LockNode, TestNext, Wake, DrainNode,
       DrainWrite, DrainExit, Advance, FreePrev, WriterAt, LiveWriters
  <2>3. PICK step \in WriteSteps : wpc' = [wpc EXCEPT ![t] = step]
    BY <1>8 DEF WriteThread, WriterStep, WriteHead, LockNode, TestNext, Wake, DrainNode,
       DrainWrite, DrainExit, Advance, FreePrev, WriteSteps, Goto
  <2>4. LiveWriters' \subseteq LiveWriters
    BY <1>1, <2>2, <2>3 DEF LiveWriters
  <2> QED
    BY <2>1, <2>4 DEF ThreadInv
<1>9. CASE Destroy \/ Receive \/ Undefined \/ \E r \in Readers : ReadThread(r)
  BY <1>9, <1>2 DEF Destroy, Receive, Undefined, ReadThread, HandleCallback, BadAccess,
     UseAfterDestroy, ReaderStep, ReadPass, SendChunk, CheckExit, rwhVars, gameVars, threadVars,
     writerVars, portVars
<1> QED
  BY <1>3, <1>4, <1>5, <1>6, <1>7, <1>8, <1>9 DEF Next

\* A closed port has no live thread.
LEMMA NoThreadWhenClosed ==
  ASSUME WriterInv, ReaderInv, handleOpen = FALSE
  PROVE  LiveWriters = {} /\ LiveReaders = {} /\ usingWriteThread # TRUE
BY DEF WriterInv, ReaderInv

\* Every step keeps the write thread unique and within the life of the handle.
LEMMA WriterInvStep ==
  ASSUME TypeInv, WriterInv, ReaderInv, EnabledOpen', Next PROVE WriterInv'
<1> DEFINE Threads == <<wpc, writeThread, usingWriteThread>>
<1>1. /\ usingWriteThread \in BOOLEAN /\ handleOpen \in BOOLEAN /\ gpc \in GameSteps
      /\ wpc \in [Writers -> WriteSteps] /\ writeThread \in Writers \cup {NoThread}
  BY DEF TypeInv, TypeOK, HandlerTypeOK, WriterTypeOK, GameTypeOK
<1>2. ASSUME UNCHANGED <<wpc, writeThread, usingWriteThread, handleOpen, gpc>> PROVE WriterInv'
  BY <1>2 DEF WriterInv, LiveWriters
<1>3. CASE Write
  <2>1. CASE QueueWrite
    BY <2>1, <1>1 DEF QueueWrite, Idle, WriterInv, LiveWriters, threadVars, writerVars
  <2>2. CASE DirectWrite
    BY <2>2, <1>2 DEF DirectWrite, gameVars, threadVars, writerVars
  <2> QED
    BY <1>3, <2>1, <2>2 DEF Write
<1>4. CASE Connect
  <2>1. LiveWriters = {} /\ usingWriteThread = FALSE
    BY <1>4, <1>1, NoThreadWhenClosed DEF Connect
  <2>2. CASE StartThreads /\ useWriteThread
    <3>1. SpawnWriter
      BY <2>2 DEF StartThreads
    <3>2. /\ writeThread' \in Writers /\ LiveWriters' = {writeThread'}
          /\ wpc' = [wpc EXCEPT ![writeThread'] = "write"] /\ usingWriteThread' = TRUE
      BY <2>1, <3>1, SpawnWriterLive
    <3>3. handleOpen' = TRUE /\ gpc' = "idle"
      BY <1>4 DEF Connect, Command, Idle, gameVars
    <3>4. \A t \in Writers : wpc'[t] \in {"gone", "write"}
      BY <2>1, <3>2, <1>1 DEF LiveWriters
    <3> QED
      BY <3>2, <3>3, <3>4 DEF WriterInv
  <2>3. CASE ~(StartThreads /\ useWriteThread)
    <3>1. UNCHANGED Threads
      BY <1>4, <2>3 DEF Connect, StartThreads, threadVars, writerVars
    <3>2. gpc' = "idle"
      BY <1>4 DEF Connect, Command, Idle, gameVars
    <3> QED
      BY <2>1, <3>1, <3>2 DEF WriterInv, LiveWriters
  <2> QED
    BY <2>2, <2>3
<1>5. CASE EnableThreadedWrites
  <2>1. handleOpen = TRUE /\ handleOpen' = TRUE /\ gpc = "idle" /\ gpc' = "idle"
    BY <1>5, <1>1, EnabledWhenOpen DEF EnableThreadedWrites, EnableWriteThread, Idle, gameVars
  <2>2. CASE usingWriteThread
    BY <1>5, <2>1, <2>2, <1>2 DEF EnableThreadedWrites, EnableWriteThread, AlreadyThreaded
  <2>3. CASE ~usingWriteThread
    <3>1. LiveWriters = {} /\ SpawnWriter
      BY <1>5, <2>1, <2>3 DEF EnableThreadedWrites, EnableWriteThread, AlreadyThreaded, WriterInv
    <3>2. /\ writeThread' \in Writers /\ LiveWriters' = {writeThread'}
          /\ wpc' = [wpc EXCEPT ![writeThread'] = "write"] /\ usingWriteThread' = TRUE
      BY <3>1, SpawnWriterLive
    <3>3. \A t \in Writers : wpc'[t] \in {"gone", "write"}
      BY <3>1, <3>2, <1>1 DEF LiveWriters
    <3> QED
      BY <2>1, <3>2, <3>3 DEF WriterInv
  <2> QED
    BY <2>2, <2>3
<1>6. CASE Disconnect
  <2>1. gpc = "idle" /\ UNCHANGED <<wpc, writeThread, handleOpen>> /\ usingWriteThread' = FALSE
    BY <1>6, <1>1 DEF Disconnect, StopThreads, Command, Idle, writerVars
  <2>2. usingWriteThread = TRUE => gpc' = "joinWrite"
    BY <1>6 DEF Disconnect, StopThreads
  <2>3. usingWriteThread = FALSE => gpc' \in {"idle", "joinRead", "stopped"}
    BY <1>6, <2>1 DEF Disconnect, StopThreads, StopReader
  <2> QED
    BY <1>1, <2>1, <2>2, <2>3 DEF WriterInv, LiveWriters
<1>7. CASE GameContinues
  <2>1. CASE NotifyTail
    BY <2>1 DEF NotifyTail, WriterInv, LiveWriters, threadVars, writerVars
  <2>2. CASE MoveTail
    BY <2>2 DEF MoveTail, WriterInv, LiveWriters, threadVars, writerVars
  <2>3. CASE JoinWriter
    <3>1. gpc = "joinWrite" /\ usingWriteThread = FALSE /\ LiveWriters = {}
      BY <2>3, <1>1 DEF JoinWriter, WriterInv
    <3>2. UNCHANGED <<wpc, usingWriteThread>> /\ gpc' \in {"joinWrite", "joinRead", "stopped"}
      BY <2>3 DEF JoinWriter, StopReader, writerVars
    <3> QED
      BY <3>1, <3>2 DEF WriterInv, LiveWriters
  <2>4. CASE JoinReader
    BY <2>4 DEF JoinReader, WriterInv, LiveWriters, threadVars, writerVars
  <2>5. CASE ClosePort
    <3>1. gpc = "stopped" /\ usingWriteThread = FALSE /\ LiveWriters = {}
      BY <2>5 DEF ClosePort, WriterInv
    <3>2. UNCHANGED <<wpc, usingWriteThread>> /\ gpc' = "idle"
      BY <2>5 DEF ClosePort, threadVars, writerVars
    <3> QED
      BY <3>1, <3>2 DEF WriterInv, LiveWriters
  <2> QED
    BY <1>7, <2>1, <2>2, <2>3, <2>4, <2>5 DEF GameContinues
<1>8. ASSUME NEW t \in Writers, WriteThread(t) PROVE WriterInv'
  <2>1. UNCHANGED <<writeThread, usingWriteThread, handleOpen, gpc>>
    BY <1>8 DEF WriteThread, WriterStep, WriteHead, LockNode, TestNext, Wake, DrainNode,
       DrainWrite, DrainExit, Advance, FreePrev, gameVars, threadVars
  <2>2. t \in LiveWriters
    BY <1>8 DEF WriteThread, WriterStep, WriteHead, LockNode, TestNext, Wake, DrainNode,
       DrainWrite, DrainExit, Advance, FreePrev, WriterAt, LiveWriters
  <2>3. PICK step \in WriteSteps :
          /\ wpc' = [wpc EXCEPT ![t] = step]
          /\ step \in {"gone", "drain", "drainWrite"} => usingWriteThread = FALSE
    BY <1>8, <1>1 DEF WriteThread, WriterStep, WriteHead, LockNode, TestNext, Wake, DrainNode,
       DrainWrite, DrainExit, Advance, FreePrev, WriterAt, WriteSteps, WriterInv, Goto
  <2> QED
    BY <1>1, <2>1, <2>2, <2>3 DEF WriterInv, LiveWriters
<1>9. CASE Destroy \/ Receive \/ Undefined \/ \E r \in Readers : ReadThread(r)
  BY <1>9, <1>2 DEF Destroy, Receive, Undefined, ReadThread, HandleCallback, BadAccess,
     UseAfterDestroy, ReaderStep,
     ReadPass, SendChunk, CheckExit, rwhVars, gameVars, threadVars, writerVars
<1> QED
  BY <1>3, <1>4, <1>5, <1>6, <1>7, <1>8, <1>9 DEF Next

\* Every step keeps the read thread unique and within the life of the handle.
LEMMA ReaderInvStep ==
  ASSUME TypeInv, ReaderInv, Next PROVE ReaderInv'
<1>1. /\ usingReadThread \in BOOLEAN /\ handleOpen \in BOOLEAN
      /\ rpc \in [Readers -> ReadSteps] /\ readThread \in Readers \cup {NoThread}
  BY DEF TypeInv, TypeOK, HandlerTypeOK, ReadTypeOK, GameTypeOK
<1>2. ASSUME UNCHANGED <<rpc, readThread, usingReadThread, handleOpen>>,
             gpc \notin {"joinRead", "stopped"}, gpc' \notin {"joinRead", "stopped"}
      PROVE  ReaderInv'
  BY <1>2 DEF ReaderInv, LiveReaders
<1>2a. ASSUME UNCHANGED <<rpc, readThread, usingReadThread, handleOpen, gpc>> PROVE ReaderInv'
  BY <1>2a DEF ReaderInv, LiveReaders
<1>3. CASE Write \/ EnableThreadedWrites \/ Destroy \/ Receive \/ Undefined
           \/ \E t \in Writers : WriteThread(t)
  <2>1. CASE Write
    BY <2>1, <1>2 DEF Write, QueueWrite, DirectWrite, Idle, gameVars, readVars
  <2>2. CASE EnableThreadedWrites
    BY <2>2, <1>2a DEF EnableThreadedWrites, EnableWriteThread, gameVars, readVars
  <2>3. CASE Destroy \/ Undefined
    BY <2>3, <1>2a DEF Destroy, Undefined, BadAccess, UseAfterDestroy, rwhVars, gameVars, readVars
  <2>4. CASE Receive
    BY <2>4, <1>2a DEF Receive, HandleCallback, gameVars
  <2>5. ASSUME NEW t \in Writers, WriteThread(t) PROVE ReaderInv'
    <3>1. UNCHANGED <<gameVars, handleOpen, readVars>>
      BY <2>5 DEF WriteThread, WriterStep, WriteHead, LockNode, TestNext, Wake, DrainNode,
         DrainWrite, DrainExit, Advance, FreePrev
    <3> QED
      BY <3>1, <1>2a DEF gameVars, readVars
  <2> QED
    BY <1>3, <2>1, <2>2, <2>3, <2>4, <2>5
<1>4. CASE Connect
  <2>1. LiveReaders = {} /\ gpc' = "idle" /\ handleOpen' = TRUE
    BY <1>4, <1>1, NoReaderWhenClosed DEF Connect, Command, Idle, gameVars
  <2>2. CASE StartThreads
    BY <1>1, <2>1, <2>2 DEF StartThreads, SpawnReader, ReaderInv, LiveReaders
  <2>3. CASE UNCHANGED readVars
    BY <2>1, <2>3 DEF readVars, ReaderInv, LiveReaders
  <2> QED
    BY <1>4, <2>2, <2>3 DEF Connect
\* Whenever the reader's half of stopThreads runs, the reader is at rest or joined.
<1>5. ASSUME StopReader, gpc # "joinRead", UNCHANGED <<rpc, readThread, handleOpen>>
      PROVE  ReaderInv'
  <2>1. CASE usingReadThread /\ readThread = NoThread
    BY <2>1, <1>5, <1>1 DEF ReaderInv, LiveReaders, StopReader
  <2>2. CASE usingReadThread /\ readThread # NoThread
    BY <2>2, <1>5, <1>1 DEF ReaderInv, LiveReaders, StopReader
  <2>3. CASE ~usingReadThread
    <3>1. gpc' = "stopped" /\ usingReadThread' = FALSE /\ usingReadThread = FALSE
      BY <2>3, <1>5, <1>1 DEF StopReader
    <3>2. LiveReaders' = {}
      BY <3>1, <1>5, <1>1 DEF ReaderInv, LiveReaders
    <3> QED
      BY <3>1, <3>2, <1>5, <1>1 DEF ReaderInv, LiveReaders
  <2> QED
    BY <2>1, <2>2, <2>3
<1>6. CASE Disconnect
  <2>1. CASE usingWriteThread
    BY <1>6, <2>1, <1>2 DEF Disconnect, StopThreads, Command, Idle
  <2>2. CASE ~usingWriteThread
    BY <1>6, <2>2, <1>5 DEF Disconnect, StopThreads, Command, Idle
  <2> QED
    BY <2>1, <2>2
<1>7. CASE GameContinues
  <2>1. CASE NotifyTail \/ MoveTail
    BY <2>1, <1>2 DEF NotifyTail, MoveTail, readVars
  <2>2. CASE JoinWriter
    BY <2>2, <1>5 DEF JoinWriter
  <2>3. CASE JoinReader
    BY <2>3, <1>1 DEF JoinReader, ReaderEnded, ReaderInv, LiveReaders
  <2>4. CASE ClosePort
    BY <2>4, <1>1 DEF ClosePort, ReaderInv, LiveReaders, readVars
  <2> QED
    BY <1>7, <2>1, <2>2, <2>3, <2>4 DEF GameContinues
<1>8. ASSUME NEW r \in Readers, ReadThread(r) PROVE ReaderInv'
  <2>1. UNCHANGED <<readThread, usingReadThread, handleOpen, gpc>>
    BY <1>8 DEF ReadThread, ReaderStep, ReadPass, SendChunk, CheckExit, gameVars
  <2>2. r \in LiveReaders
    BY <1>8 DEF ReadThread, ReaderStep, ReadPass, SendChunk, CheckExit, LiveReaders
  <2>3. PICK step \in ReadSteps : rpc' = [rpc EXCEPT ![r] = step]
    BY <1>8 DEF ReadThread, ReaderStep, ReadPass, SendChunk, CheckExit, ReadSteps
  <2> QED
    BY <1>1, <2>1, <2>2, <2>3 DEF ReaderInv, LiveReaders
<1> QED
  BY <1>3, <1>4, <1>6, <1>7, <1>8 DEF Next

-----------------------------------------------------------------------------
(* The list *)

\* Every step keeps the order of the list.
LEMMA ListInvStep ==
  ASSUME TypeInv, WriterInv, ListInv, Next PROVE ListInv'
<1>1. /\ next \in [Node -> Node \cup {NoNode}] /\ freed \subseteq Node
      /\ toWrite \in Node /\ lastWrite \in Node /\ submitted \in 0..MaxMsgs
      /\ wpc \in [Writers -> WriteSteps] /\ prev \in [Writers -> Node \cup {NoNode}]
  BY DEF TypeInv, TypeOK, HandlerTypeOK, WriterTypeOK, ListTypeOK, DataTypeOK, ListInv
\* No other write thread is at a step that matters here.
<1>2. \A s, t \in Writers : wpc[s] # "gone" /\ wpc[t] # "gone" => s = t
  BY DEF WriterInv, LiveWriters
<1>3. ASSUME UNCHANGED <<toWrite, freed, prev, next, lastWrite, submitted>>, Appending' = Appending,
             \A t \in Writers : wpc'[t] \in {"free", "advance"} => wpc'[t] = wpc[t]
      PROVE  ListInv'
  BY <1>3 DEF ListInv
<1>4. CASE Write
  <2>1. CASE QueueWrite
    <3>1. /\ ~Appending /\ Appending' /\ next' = [next EXCEPT ![lastWrite] = submitted + 1]
          /\ submitted' = submitted + 1 /\ submitted < MaxMsgs
          /\ UNCHANGED <<toWrite, freed, prev, wpc, lastWrite>>
      BY <2>1 DEF QueueWrite, Idle, Appending, writerVars
    <3>2. /\ next'[lastWrite] = submitted + 1 /\ submitted + 1 \in Node
          /\ \A n \in Node : n # lastWrite => next'[n] = next[n]
      BY <3>1, <1>1 DEF Node
    <3>3. ASSUME NEW n \in Node, next'[n] # NoNode
          PROVE  /\ n < next'[n] /\ next'[n] <= submitted'
                 /\ next'[n] <= lastWrite \/ n = lastWrite
      <4>1. CASE n = lastWrite
        BY <4>1, <3>1, <3>2, <1>1 DEF ListInv, Node
      <4>2. CASE n # lastWrite
        <5>1. n < next[n] /\ next[n] <= submitted /\ next[n] <= lastWrite /\ next'[n] = next[n]
          BY <4>2, <3>1, <3>2, <3>3 DEF ListInv
        <5>2. next[n] \in Node
          BY <1>1, <5>1, <3>3
        <5> QED
          BY <5>1, <5>2, <3>1, <1>1 DEF Node
      <4> QED
        BY <4>1, <4>2
    <3>4. \A t \in Writers : wpc[t] = "advance" => next'[toWrite] # NoNode
      BY <3>2, <1>1 DEF ListInv, Node, NoNode
    <3>5. lastWrite <= submitted' /\ toWrite <= lastWrite
      BY <3>1, <1>1 DEF ListInv, Node
    <3> QED
      BY <3>1, <3>3, <3>4, <3>5 DEF ListInv
  <2>2. CASE DirectWrite
    BY <2>2, <1>1 DEF DirectWrite, ListInv, Appending, gameVars, writerVars, listVars, Node
  <2> QED
    BY <1>4, <2>1, <2>2 DEF Write
<1>5. CASE Connect \/ EnableThreadedWrites
  <2>1. UNCHANGED <<toWrite, freed, prev, next, lastWrite, submitted, gpc>>
    BY <1>5 DEF Connect, StartThreads, EnableThreadedWrites, EnableWriteThread, gameVars,
       writerVars, listVars, dataVars
  <2>2. \A t \in Writers : wpc'[t] = wpc[t] \/ wpc'[t] = "write"
    BY <1>5, <1>1 DEF Connect, StartThreads, EnableThreadedWrites, EnableWriteThread,
       SpawnWriter, writerVars
  <2> QED
    BY <2>1, <2>2, <1>3 DEF Appending
<1>6. CASE Disconnect \/ Destroy \/ Receive \/ Undefined \/ \E r \in Readers : ReadThread(r)
  <2>1. UNCHANGED <<toWrite, freed, prev, next, lastWrite, submitted, wpc>>
    BY <1>6 DEF Disconnect, StopThreads, Destroy, Receive, HandleCallback, Undefined, BadAccess,
       UseAfterDestroy,
       ReadThread, ReaderStep, ReadPass, SendChunk, CheckExit, rwhVars, writerVars, listVars,
       dataVars
  <2>2. Appending' = Appending
    BY <1>6 DEF Disconnect, StopThreads, StopReader, Command, Idle, Destroy, Receive,
       HandleCallback, Undefined, BadAccess, UseAfterDestroy, ReadThread, ReaderStep, ReadPass,
       SendChunk,
       CheckExit, rwhVars, gameVars, Appending
  <2> QED
    BY <2>1, <2>2, <1>3
<1>7. CASE GameContinues
  <2>1. CASE NotifyTail
    BY <2>1, <1>3 DEF NotifyTail, Appending, writerVars, listVars, dataVars
  <2>2. CASE MoveTail
    <3>1. /\ Appending /\ ~Appending' /\ lastWrite' = next[lastWrite]
          /\ UNCHANGED <<toWrite, freed, prev, next, wpc, submitted>>
      BY <2>2 DEF MoveTail, Appending, writerVars, dataVars
    <3>2. next[lastWrite] \in Node /\ lastWrite < next[lastWrite]
      BY <3>1, <1>1 DEF TypeInv, PointerOK, Appending, ListInv
    <3>3. next[lastWrite] <= submitted
      BY <3>1, <3>2, <1>1 DEF TypeInv, PointerOK, Appending, ListInv
    <3> QED
      BY <3>1, <3>2, <3>3, <1>1 DEF ListInv, Node
  <2>3. CASE JoinWriter \/ JoinReader \/ ClosePort
    <3>1. UNCHANGED <<toWrite, freed, prev, next, lastWrite, submitted, wpc>>
      BY <2>3 DEF JoinWriter, JoinReader, ClosePort, writerVars, listVars, dataVars
    <3>2. Appending' = Appending
      BY <2>3 DEF JoinWriter, JoinReader, ClosePort, StopReader, Appending
    <3> QED
      BY <3>1, <3>2, <1>3
  <2> QED
    BY <1>7, <2>1, <2>2, <2>3 DEF GameContinues
<1>8. ASSUME NEW t \in Writers, WriteThread(t) PROVE ListInv'
  <2>1. UNCHANGED <<next, lastWrite, submitted, gpc>> /\ Appending' = Appending
    BY <1>8 DEF WriteThread, WriterStep, WriteHead, LockNode, TestNext, Wake, DrainNode,
       DrainWrite, DrainExit, Advance, FreePrev, gameVars, listVars, dataVars, Appending
  <2>2. \A s \in Writers : s # t => wpc[s] = "gone" /\ wpc'[s] = "gone"
    BY <1>8, <1>1, <1>2 DEF WriteThread, WriterStep, WriteHead, LockNode, TestNext, Wake,
       DrainNode, DrainWrite, DrainExit, Advance, FreePrev, WriterAt, Goto
  <2>3. CASE WriteHead(t) \/ LockNode(t) \/ Wake(t) \/ DrainWrite(t) \/ DrainExit(t)
    <3>1. UNCHANGED <<toWrite, freed, prev>>
      BY <2>3 DEF WriteHead, LockNode, Wake, DrainWrite, DrainExit, listVars
    <3>2. wpc'[t] \notin {"free", "advance"}
      BY <2>3, <1>1 DEF WriteHead, LockNode, Wake, DrainWrite, DrainExit, Goto
    <3> QED
      BY <3>1, <3>2, <2>1, <2>2, <1>3
  <2>4. CASE TestNext(t)
    <3>1. UNCHANGED <<toWrite, freed, prev>>
      BY <2>4 DEF TestNext, listVars
    <3>2. wpc'[t] # "free" /\ (wpc'[t] = "advance" => next[toWrite] # NoNode)
      BY <2>4, <1>1 DEF TestNext, Goto
    <3> QED
      BY <3>1, <3>2, <2>1, <2>2 DEF ListInv
\* The head moves to the next node, which the tail is at or beyond or moving to.
  <2>5. CASE Advance(t) \/ DrainNode(t)
    <3>1. next[toWrite] # NoNode /\ toWrite' = next[toWrite]
      BY <2>5 DEF Advance, DrainNode, WriterAt, ListInv
    <3>2. toWrite' \in Node /\ toWrite < toWrite'
      BY <3>1, <1>1 DEF ListInv
    <3>3. toWrite' <= lastWrite \/ (Appending /\ toWrite' = next[lastWrite])
      BY <3>1, <1>1 DEF ListInv
    <3>4. CASE Advance(t)
      <4>1. freed' = freed /\ prev'[t] = toWrite /\ wpc'[t] = "free"
        BY <3>4, <1>1 DEF Advance, Goto
      <4>2. \A n \in freed : n < toWrite /\ n \in Node
        BY <1>1 DEF ListInv
      <4>3. ASSUME NEW n \in freed PROVE n < toWrite'
        <5>1. n < toWrite /\ n \in Node
          BY <4>2
        <5> QED
          BY <5>1, <3>2, <1>1 DEF Node
      <4>4. toWrite' # NoNode
        BY <3>2 DEF Node, NoNode
      <4> QED
        BY <4>1, <4>2, <4>3, <4>4, <3>1, <3>2, <3>3, <2>1, <2>2 DEF ListInv
    <3>5. CASE DrainNode(t)
      <4>1. freed' = freed \cup {toWrite} /\ wpc'[t] = "drainWrite"
        BY <3>5, <1>1 DEF DrainNode, Goto
      <4>2. ASSUME NEW n \in freed PROVE n < toWrite'
        <5>1. n < toWrite /\ n \in Node
          BY <1>1 DEF ListInv
        <5> QED
          BY <5>1, <3>2, <1>1 DEF Node
      <4>3. \A n \in freed' : n < toWrite'
        BY <4>1, <4>2, <3>2
      <4>4. toWrite' # NoNode
        BY <3>2 DEF Node, NoNode
      <4> QED
        BY <4>1, <4>3, <4>4, <3>2, <3>3, <2>1, <2>2 DEF ListInv
    <3> QED
      BY <2>5, <3>4, <3>5
  <2>6. CASE FreePrev(t)
    <3>1. freed' = freed \cup {prev[t]} /\ prev[t] < toWrite /\ toWrite' = toWrite
          /\ wpc'[t] = "write"
      BY <2>6, <1>1 DEF FreePrev, Goto, ListInv
    <3> QED
      BY <3>1, <2>1, <2>2 DEF ListInv
  <2> QED
    BY <1>8, <2>3, <2>4, <2>5, <2>6 DEF WriteThread, WriterStep
<1> QED
  BY <1>4, <1>5, <1>6, <1>7, <1>8 DEF Next

-----------------------------------------------------------------------------
(* Flushing *)

\* Delivering adds to what was written, and on an open handle it adds m.
LEMMA DeliverSet ==
  ASSUME written \in Seq(1..MaxMsgs), NEW m \in 1..MaxMsgs, Deliver(m)
  PROVE  /\ ToSet(written) \subseteq ToSet(written')
         /\ handleOpen = TRUE => m \in ToSet(written')
<1>1. CASE handleOpen
  <2>1. written' = Append(written, m)
    BY <1>1 DEF Deliver
  <2>2. /\ Len(written') = Len(written) + 1 /\ written'[Len(written) + 1] = m
        /\ \A i \in 1..Len(written) : written'[i] = written[i]
        /\ DOMAIN written = 1..Len(written) /\ DOMAIN written' = 1..Len(written) + 1
        /\ Len(written) \in Nat
    BY <2>1
  <2>3. \A i \in DOMAIN written : i \in DOMAIN written' /\ written'[i] = written[i]
    BY <2>2
  <2>4. Len(written) + 1 \in DOMAIN written'
    BY <2>2
  <2> QED
    BY <2>2, <2>3, <2>4 DEF ToSet
<1>2. CASE ~handleOpen
  BY <1>2 DEF Deliver
<1> QED
  BY <1>1, <1>2

\* Every step keeps the queued messages on the list or written.
LEMMA FlushInvStep ==
  ASSUME TypeInv, WriterInv, ListInv, FlushInv, Next PROVE FlushInv'
<1>1. /\ next \in [Node -> Node \cup {NoNode}] /\ freed \subseteq Node
      /\ toWrite \in Node /\ lastWrite \in Node /\ submitted \in 0..MaxMsgs
      /\ queued \subseteq 1..submitted /\ queued \subseteq Node
      /\ wpc \in [Writers -> WriteSteps] /\ written \in Seq(1..MaxMsgs)
  BY DEF TypeInv, TypeOK, HandlerTypeOK, WriterTypeOK, ListTypeOK, DataTypeOK, ListInv, Node
<1>2. \A s, t \in Writers : wpc[s] # "gone" /\ wpc[t] # "gone" => s = t
  BY DEF WriterInv, LiveWriters
<1>3. ASSUME UNCHANGED <<toWrite, lastWrite, next, queued>>, Appending' = Appending,
             HeadUnwritten => HeadUnwritten', ToSet(written) \subseteq ToSet(written')
      PROVE  FlushInv'
  BY <1>3 DEF FlushInv, Allocated
<1>4. CASE Write
  <2>1. CASE QueueWrite
    <3> DEFINE new == submitted + 1
    <3>1. /\ ~Appending /\ Appending' /\ next' = [next EXCEPT ![lastWrite] = new]
          /\ queued' = queued \cup {new} /\ submitted < MaxMsgs
          /\ UNCHANGED <<toWrite, lastWrite, written, wpc>>
      BY <2>1 DEF QueueWrite, Idle, Appending, writerVars
    <3>2. /\ next'[lastWrite] = new /\ new \in Node /\ new # NoNode
          /\ \A n \in Node : n # lastWrite => next'[n] = next[n]
          /\ \A n \in Allocated : n < new /\ n <= lastWrite /\ n \in Node
      BY <3>1, <1>1 DEF Node, NoNode, Allocated, FlushInv, ListInv
    <3> HIDE DEF new
    <3>3. toWrite \in Allocated' /\ lastWrite \in Allocated'
      BY <3>1 DEF FlushInv, Allocated
    <3>4. \A n \in Node : next'[n] # NoNode => next'[n] \in queued'
      BY <3>1, <3>2 DEF FlushInv
    <3>5. \A m \in queued' : m <= lastWrite \/ m = next'[lastWrite]
      BY <3>1, <3>2 DEF Allocated
    <3>6. ASSUME NEW n \in Allocated', NEW m \in queued', n < m
          PROVE  next'[n] # NoNode /\ next'[n] <= m
      <4>1. n \in Allocated
        BY <3>1, <3>2, <3>6, <1>1 DEF Allocated, Node
      <4>2. CASE n = lastWrite
        <5>1. m = new
          BY <4>2, <3>1, <3>2, <3>6, <1>1 DEF Allocated, Node
        <5> QED
          BY <5>1, <4>2, <3>2, <1>1 DEF Node
      <4>3. CASE n # lastWrite /\ m \in queued
        BY <4>1, <4>3, <3>2, <3>6 DEF FlushInv
      <4>4. CASE n # lastWrite /\ m = new
        <5>1. lastWrite \in queued /\ n < lastWrite
          <6>1. n <= lastWrite /\ n \in Node /\ lastWrite \in Allocated
            BY <4>1, <3>2 DEF FlushInv
          <6>2. n < lastWrite /\ lastWrite # 0
            BY <6>1, <4>4, <1>1 DEF Node
          <6> QED
            BY <6>1, <6>2 DEF Allocated
        <5>2. next[n] # NoNode /\ next[n] <= lastWrite /\ next[n] \in Node /\ next'[n] = next[n]
          BY <5>1, <4>1, <4>4, <3>2, <1>1 DEF FlushInv
        <5> QED
          BY <5>2, <4>4, <3>2, <5>1, <1>1 DEF Allocated, Node
      <4> QED
        BY <4>2, <4>3, <4>4, <3>1
    <3>7. new > toWrite
      BY <3>2, <1>1 DEF FlushInv, Allocated, Node
    <3>8. HeadUnwritten' = HeadUnwritten
      BY <3>1 DEF HeadUnwritten, LiveWriters
    <3> QED
      BY <3>1, <3>3, <3>4, <3>5, <3>6, <3>7, <3>8 DEF FlushInv
  <2>2. CASE DirectWrite
    <3>1. submitted + 1 \in 1..MaxMsgs /\ Deliver(submitted + 1)
      BY <2>2, <1>1 DEF DirectWrite
    <3> QED
      BY <3>1, <2>2, <1>1, <1>3, DeliverSet DEF DirectWrite, gameVars, writerVars, listVars,
         Appending, HeadUnwritten, LiveWriters
  <2> QED
    BY <1>4, <2>1, <2>2 DEF Write
<1>5. CASE Connect \/ EnableThreadedWrites
  <2>1. UNCHANGED <<toWrite, lastWrite, next, queued, written, gpc>>
    BY <1>5 DEF Connect, StartThreads, EnableThreadedWrites, EnableWriteThread, gameVars,
       listVars, dataVars
  <2>2. \A t \in LiveWriters : wpc'[t] = wpc[t]
    BY <1>5, <1>1 DEF Connect, StartThreads, EnableThreadedWrites, EnableWriteThread,
       SpawnWriter, writerVars, LiveWriters
  <2>3. HeadUnwritten => HeadUnwritten'
    BY <2>2 DEF HeadUnwritten, LiveWriters
  <2> QED
    BY <2>1, <2>3, <1>3 DEF Appending
<1>6. CASE Disconnect \/ Destroy \/ Receive \/ Undefined \/ \E r \in Readers : ReadThread(r)
  <2>1. UNCHANGED <<toWrite, lastWrite, next, queued, written, wpc>>
    BY <1>6 DEF Disconnect, StopThreads, Destroy, Receive, HandleCallback, Undefined, BadAccess,
       UseAfterDestroy,
       ReadThread, ReaderStep, ReadPass, SendChunk, CheckExit, rwhVars, writerVars, listVars,
       dataVars
  <2>2. Appending' = Appending
    BY <1>6 DEF Disconnect, StopThreads, StopReader, Command, Idle, Destroy, Receive,
       HandleCallback, Undefined, BadAccess, UseAfterDestroy, ReadThread, ReaderStep, ReadPass,
       SendChunk,
       CheckExit, rwhVars, gameVars, Appending
  <2> QED
    BY <2>1, <2>2, <1>3 DEF HeadUnwritten, LiveWriters
<1>7. CASE GameContinues
  <2>1. CASE NotifyTail
    BY <2>1, <1>3 DEF NotifyTail, Appending, writerVars, listVars, dataVars, HeadUnwritten,
       LiveWriters
  <2>2. CASE MoveTail
    <3>1. /\ Appending /\ ~Appending' /\ lastWrite' = next[lastWrite]
          /\ UNCHANGED <<toWrite, next, wpc, queued, written>>
      BY <2>2 DEF MoveTail, Appending, writerVars, dataVars
    <3>2. next[lastWrite] \in queued /\ lastWrite < next[lastWrite] /\ next[lastWrite] \in Node
      BY <3>1, <1>1 DEF TypeInv, PointerOK, Appending, ListInv, FlushInv
    <3>3. \A m \in queued : m <= lastWrite'
      BY <3>1, <3>2, <1>1 DEF FlushInv, Node
    <3>4. HeadUnwritten' = HeadUnwritten
      BY <3>1 DEF HeadUnwritten, LiveWriters
    <3> QED
      BY <3>1, <3>2, <3>3, <3>4 DEF FlushInv, Allocated
  <2>3. CASE JoinWriter \/ JoinReader \/ ClosePort
    <3>1. UNCHANGED <<toWrite, lastWrite, next, queued, written, wpc>>
      BY <2>3 DEF JoinWriter, JoinReader, ClosePort, writerVars, listVars, dataVars
    <3>2. Appending' = Appending
      BY <2>3 DEF JoinWriter, JoinReader, ClosePort, StopReader, Appending
    <3> QED
      BY <3>1, <3>2, <1>3 DEF HeadUnwritten, LiveWriters
  <2> QED
    BY <1>7, <2>1, <2>2, <2>3 DEF GameContinues
<1>8. ASSUME NEW t \in Writers, WriteThread(t) PROVE FlushInv'
  <2>1. UNCHANGED <<next, lastWrite, submitted, queued, gpc>> /\ Appending' = Appending
    BY <1>8 DEF WriteThread, WriterStep, WriteHead, LockNode, TestNext, Wake, DrainNode,
       DrainWrite, DrainExit, Advance, FreePrev, gameVars, listVars, dataVars, Appending
  <2>2. wpc[t] # "gone" /\ handleOpen = TRUE
    BY <1>8 DEF WriteThread, WriterStep, WriteHead, LockNode, TestNext, Wake, DrainNode,
       DrainWrite, DrainExit, Advance, FreePrev, WriterAt, WriterInv, LiveWriters
  <2>3. HeadUnwritten <=> wpc[t] \in {"free", "write", "drainWrite"}
    BY <1>2, <2>2 DEF HeadUnwritten, LiveWriters
\* After writing, the head is among what was written.
  <2>4. CASE WriteHead(t) \/ DrainWrite(t)
    <3>1. UNCHANGED toWrite
      BY <2>4 DEF WriteHead, DrainWrite, listVars
    <3>2. CASE toWrite = 0
      <4>1. written' = written
        BY <2>4, <3>2 DEF WriteHead, DrainWrite
      <4>2. \A m \in queued : m # toWrite
        BY <3>2, <1>1
      <4> QED
        BY <4>1, <4>2, <3>1, <2>1 DEF FlushInv, Allocated
    <3>3. CASE toWrite # 0
      <4>1. Deliver(toWrite) /\ toWrite \in 1..MaxMsgs
        BY <2>4, <3>3, <1>1 DEF WriteHead, DrainWrite, Node
      <4>2. ToSet(written) \subseteq ToSet(written') /\ toWrite \in ToSet(written')
        BY <4>1, <2>2, <1>1, DeliverSet
      <4> QED
        BY <4>2, <3>1, <2>1 DEF FlushInv, Allocated
    <3> QED
      BY <3>2, <3>3
  <2>5. CASE LockNode(t) \/ TestNext(t) \/ Wake(t) \/ DrainExit(t)
    <3>1. UNCHANGED <<toWrite, written>>
      BY <2>5 DEF LockNode, TestNext, Wake, DrainExit, listVars, dataVars
    <3>2. ~HeadUnwritten
      BY <2>3, <2>5 DEF LockNode, TestNext, Wake, DrainExit, WriterAt
    <3> QED
      BY <3>1, <3>2, <2>1, <1>3
\* The node the head moves to is the least queued one behind it.
  <2>6. CASE Advance(t) \/ DrainNode(t)
    <3>1. next[toWrite] # NoNode /\ toWrite' = next[toWrite] /\ written' = written
      BY <2>6 DEF Advance, DrainNode, WriterAt, ListInv, dataVars
    <3>2. ~HeadUnwritten
      BY <2>3, <2>6 DEF Advance, DrainNode, WriterAt
    <3>3. HeadUnwritten'
      BY <2>6, <1>1 DEF Advance, DrainNode, Goto, HeadUnwritten, LiveWriters
    <3>4. toWrite' \in queued /\ toWrite' \in Node
      BY <3>1, <1>1 DEF FlushInv
    <3>5. ASSUME NEW m \in queued, m \notin ToSet(written) PROVE m > toWrite' \/ m = toWrite'
      <4>1. m > toWrite
        BY <3>2, <3>5 DEF FlushInv
      <4>2. toWrite' <= m
        BY <4>1, <3>1, <1>1 DEF FlushInv
      <4> QED
        BY <4>2, <3>4, <1>1 DEF Node
    <3> QED
      BY <3>1, <3>3, <3>4, <3>5, <2>1 DEF FlushInv, Allocated
  <2>7. CASE FreePrev(t)
    <3>1. UNCHANGED <<toWrite, written>>
      BY <2>7 DEF FreePrev, dataVars
    <3>2. HeadUnwritten'
      BY <2>7, <1>1 DEF FreePrev, Goto, HeadUnwritten, LiveWriters
    <3> QED
      BY <3>1, <3>2, <2>1, <1>3
  <2> QED
    BY <1>8, <2>4, <2>5, <2>6, <2>7 DEF WriteThread, WriterStep
<1> QED
  BY <1>4, <1>5, <1>6, <1>7, <1>8 DEF Next

\* The write thread that ends has come to the end of the list, so that nothing
\* queued is left; and no message is queued while there is no write thread.
LEMMA FlushedStep ==
  ASSUME TypeInv, WriterInv, ListInv, FlushInv, Drained, Next
  PROVE  Drained'
<1> SUFFICES ASSUME LiveWriters' = {} PROVE queued' \subseteq ToSet(written')
  BY DEF Drained
<1>1. /\ wpc \in [Writers -> WriteSteps] /\ written \in Seq(1..MaxMsgs) /\ toWrite \in Node
      /\ queued \subseteq Node /\ submitted \in 0..MaxMsgs /\ usingWriteThread \in BOOLEAN
  BY DEF TypeInv, TypeOK, HandlerTypeOK, WriterTypeOK, ListTypeOK, DataTypeOK, ListInv, Node
<1>2. CASE LiveWriters = {}
  <2>1. usingWriteThread = FALSE /\ queued \subseteq ToSet(written)
    BY <1>1, <1>2 DEF WriterInv, Drained
  <2>2. \A t \in Writers : ~WriteThread(t)
    BY <1>2 DEF LiveWriters, WriteThread, WriterStep, WriteHead, LockNode, TestNext, Wake,
       DrainNode, DrainWrite, DrainExit, Advance, FreePrev, WriterAt
  <2>3. CASE Write
    <3>1. DirectWrite
      BY <2>1, <2>3 DEF Write, QueueWrite
    <3>2. submitted + 1 \in 1..MaxMsgs /\ Deliver(submitted + 1) /\ queued' = queued
      BY <3>1, <1>1 DEF DirectWrite
    <3> QED
      BY <2>1, <3>2, <1>1, DeliverSet
  <2>4. CASE Connect \/ EnableThreadedWrites \/ Disconnect \/ Destroy \/ GameContinues
    <3>1. UNCHANGED dataVars
      BY <2>4 DEF Connect, StartThreads, EnableThreadedWrites, EnableWriteThread, Disconnect,
         StopThreads, Destroy, GameContinues, NotifyTail, MoveTail, JoinWriter, JoinReader,
         ClosePort, rwhVars, dataVars
    <3> QED
      BY <3>1, <2>1 DEF dataVars
  <2>5. CASE Receive \/ Undefined \/ \E r \in Readers : ReadThread(r)
    <3>1. UNCHANGED dataVars
      BY <2>5 DEF Receive, HandleCallback, Undefined, BadAccess, UseAfterDestroy, ReadThread,
         ReaderStep, ReadPass,
         SendChunk, CheckExit
    <3> QED
      BY <3>1, <2>1 DEF dataVars
  <2> QED
    BY <2>2, <2>3, <2>4, <2>5 DEF Next
<1>3. CASE LiveWriters # {}
  <2>1. PICK t \in Writers : WriteThread(t)
    BY <1>1, <1>3 DEF LiveWriters, Next, Write, QueueWrite, DirectWrite, Connect, StartThreads,
       SpawnWriter, EnableThreadedWrites, EnableWriteThread, Disconnect, StopThreads, Destroy,
       GameContinues, NotifyTail, MoveTail, JoinWriter, JoinReader, ClosePort, Receive,
       HandleCallback, Undefined, BadAccess, UseAfterDestroy, ReadThread, ReaderStep, ReadPass,
       SendChunk,
       CheckExit, rwhVars, writerVars
  <2>2. DrainExit(t)
    <3>1. wpc'[t] = "gone"
      BY DEF LiveWriters
    <3> QED
      BY <2>1, <3>1, <1>1 DEF WriteThread, WriterStep, WriteHead, LockNode, TestNext, Wake,
         DrainNode, DrainWrite, Advance, FreePrev, Goto
  <2>3. wpc[t] = "drain" /\ next[toWrite] = NoNode /\ UNCHANGED dataVars
    BY <2>2 DEF DrainExit, WriterAt
  <2>4. ~HeadUnwritten
    BY <2>3 DEF HeadUnwritten, LiveWriters, WriterInv
  <2>5. \A m \in queued : ~(m > toWrite)
    BY <2>3, <1>1 DEF FlushInv, Node
  <2> QED
    BY <2>3, <2>4, <2>5 DEF FlushInv, dataVars
<1> QED
  BY <1>2, <1>3

-----------------------------------------------------------------------------
(* The theorems *)

\* Types and threads, whatever the scripts do.
AllScripts == TypeInv /\ ThreadInv /\ ReaderInv

\* The invariant of all scripts is inductive.
THEOREM ThreadsInductive == Spec => []AllScripts
<1>1. Init => AllScripts
  BY InitIInv DEF Init, HandlerInit, IInv, AllScripts, ThreadInv, LiveWriters
<1>2. AllScripts /\ [Next]_vars => AllScripts'
  <2> SUFFICES ASSUME AllScripts, [Next]_vars PROVE AllScripts'
    OBVIOUS
  <2>1. CASE Next
    BY <2>1, GameTypeInv, WriterTypeInv, ReaderTypeInv, ThreadInvStep, ReaderInvStep
       DEF AllScripts, Next
  <2>2. CASE UNCHANGED vars
    <3> USE <2>2 DEF vars, rwhVars, gameVars, readVars, threadVars, writerVars, listVars, dataVars,
        portVars
    <3>1. TypeInv'
      BY DEF AllScripts, TypeInv, TypeOK, HandlerTypeOK, PointerOK, GameTypeOK, ReadTypeOK,
         WriterTypeOK, ListTypeOK, DataTypeOK, PortTypeOK
    <3>2. ThreadInv' /\ ReaderInv'
      BY DEF AllScripts, ThreadInv, ReaderInv, LiveWriters, LiveReaders
    <3> QED
      BY <3>1, <3>2 DEF AllScripts
  <2> QED
    BY <2>1, <2>2
<1> QED
  BY <1>1, <1>2, PTL DEF Spec

\* The invariant of the list is inductive until threaded writes are enabled on a
\* closed port.
THEOREM Inductive == Spec => [](EnabledOpen => IInv)
<1>1. Init => IInv
  BY InitIInv
<1>2. AllScripts /\ (EnabledOpen => IInv) /\ [Next]_vars => (EnabledOpen => IInv)'
  <2> SUFFICES ASSUME AllScripts, EnabledOpen => IInv, [Next]_vars, EnabledOpen' PROVE IInv'
    OBVIOUS
  <2>1. CASE Next
    <3>0. IInv
      BY <2>1, EnabledWhenOpen DEF AllScripts
    <3>1. TypeInv'
      BY <2>1, <3>0, GameTypeInv, WriterTypeInv, ReaderTypeInv DEF IInv, Next
    <3>2. WriterInv' /\ ReaderInv'
      BY <2>1, <3>0, WriterInvStep, ReaderInvStep DEF IInv
    <3>3. ListInv' /\ FlushInv' /\ Drained'
      BY <2>1, <3>0, ListInvStep, FlushInvStep, FlushedStep DEF IInv
    <3> QED
      BY <3>1, <3>2, <3>3 DEF IInv
  <2>2. CASE UNCHANGED vars
    <3> USE <2>2 DEF vars, rwhVars, gameVars, readVars, threadVars, writerVars, listVars, dataVars,
        portVars
    <3>0. IInv
      BY DEF EnabledOpen
    <3>1. TypeInv'
      BY <3>0 DEF IInv, TypeInv, TypeOK, HandlerTypeOK, PointerOK, GameTypeOK, ReadTypeOK,
         WriterTypeOK, ListTypeOK, DataTypeOK, PortTypeOK
    <3>2. WriterInv' /\ ReaderInv'
      BY <3>0 DEF IInv, WriterInv, ReaderInv, LiveWriters, LiveReaders
    <3>3. ListInv' /\ FlushInv' /\ Drained'
      BY <3>0 DEF IInv, ListInv, Appending, FlushInv, Allocated, HeadUnwritten, Drained,
         LiveWriters
    <3> QED
      BY <3>1, <3>2, <3>3 DEF IInv
  <2> QED
    BY <2>1, <2>2
<1> QED
  BY <1>1, <1>2, ThreadsInductive, PTL DEF Spec

\* Whatever the scripts do, a write thread that nobody would join was started by
\* enableThreadedWrites on a closed port: connect and the commands on the open port
\* never start a second consumer of the list beside their own.
THEOREM NoOtherStray == Spec => []StraysAreEarly
<1>1. AllScripts => StraysAreEarly
  BY DEF AllScripts, ThreadInv, StraysAreEarly
<1> QED
  BY <1>1, ThreadsInductive, PTL

\* Whatever the scripts do, no thread started on the open port outlives the handle
\* it reads from or writes to.
THEOREM ThreadsEnd == Spec => []ThreadsEndWithPort
<1>1. AllScripts => ThreadsEndWithPort
  BY DEF AllScripts, TypeInv, TypeOK, HandlerTypeOK, GameTypeOK, ThreadInv, ReaderInv,
     ThreadsEndWithPort
<1> QED
  BY <1>1, ThreadsInductive, PTL

\* The list of BufferedWrite nodes never has two consumers, as its design asks,
\* until threaded writes are enabled on a closed port.
THEOREM OneWriter == Spec => [](EnabledOpen => AtMostOneWriter)
<1>1. (EnabledOpen => IInv) => (EnabledOpen => AtMostOneWriter)
  BY DEF IInv, WriterInv, AtMostOneWriter
<1> QED
  BY <1>1, Inductive, PTL

\* Disconnecting flushes: without a write thread nothing queued is unwritten.
THEOREM Flushed == Spec => []FlushedWhenStopped
<1>1. (EnabledOpen => IInv) => FlushedWhenStopped
  BY DEF IInv, Drained, FlushedWhenStopped
<1> QED
  BY <1>1, Inductive, PTL

\* The write thread neither stands on a deleted node nor deletes one twice.
THEOREM HeadSafe == Spec => []HeadNeverFreed
<1>1. (EnabledOpen => IInv) => HeadNeverFreed
  <2> SUFFICES ASSUME IInv, NEW t \in LiveWriters
               PROVE  toWrite \notin freed /\ (wpc[t] = "free" => prev[t] \notin freed)
    BY DEF HeadNeverFreed
  <2>1. freed \subseteq Node /\ \A n \in Node : ~(n < n)
    BY DEF IInv, TypeInv, TypeOK, HandlerTypeOK, ListTypeOK, Node
  <2> QED
    BY <2>1 DEF IInv, ListInv, LiveWriters
<1> QED
  BY <1>1, Inductive, PTL

\* Between commands the game thread's tail is a node that was not deleted.
THEOREM TailSafe == Spec => []TailLiveBetweenCommands
<1>1. (EnabledOpen => IInv) => TailLiveBetweenCommands
  <2> SUFFICES ASSUME IInv, gpc = "idle", lastWrite \in freed PROVE FALSE
    BY DEF TailLiveBetweenCommands
  <2>1. lastWrite \in Node /\ toWrite \in Node
    BY DEF IInv, TypeInv, TypeOK, HandlerTypeOK, ListTypeOK, ListInv
  <2>2. lastWrite < toWrite /\ toWrite <= lastWrite
    BY DEF IInv, ListInv, Appending
  <2> QED
    BY <2>1, <2>2 DEF Node
<1> QED
  BY <1>1, Inductive, PTL

-----------------------------------------------------------------------------
(* The order of transmission *)

\* Only submitted messages leave, none behind the head does, and the head has
\* not when a thread has just moved there.
OutboxInv ==
  /\ ToSet(written) \subseteq 1..submitted
  /\ \A m \in queued : m > toWrite => m \notin ToSet(written)
  /\ \A t \in Writers : wpc[t] \in {"free", "drainWrite"} => toWrite \notin ToSet(written)

\* The set of what was written grows by the delivered message.
LEMMA DeliverAdds ==
  ASSUME written \in Seq(1..MaxMsgs), NEW m \in 1..MaxMsgs, Deliver(m)
  PROVE  ToSet(written') \subseteq ToSet(written) \cup {m}
<1>1. CASE handleOpen
  <2>1. written' = Append(written, m)
    BY <1>1 DEF Deliver
  <2>2. /\ Len(written') = Len(written) + 1 /\ written'[Len(written) + 1] = m
        /\ \A i \in 1..Len(written) : written'[i] = written[i]
        /\ DOMAIN written = 1..Len(written) /\ DOMAIN written' = 1..Len(written) + 1
        /\ Len(written) \in Nat
    BY <2>1
  <2>3. \A i \in 1..Len(written) + 1 : i = Len(written) + 1 \/ i \in 1..Len(written)
    BY <2>2
  <2> QED
    BY <2>2, <2>3 DEF ToSet
<1>2. CASE ~handleOpen
  BY <1>2 DEF Deliver
<1> QED
  BY <1>1, <1>2

\* Every step keeps that order.
LEMMA OutboxInvStep ==
  ASSUME IInv, OutboxInv, Next PROVE OutboxInv'
<1>1. /\ toWrite \in Node /\ submitted \in 0..MaxMsgs /\ queued \subseteq 1..submitted
      /\ wpc \in [Writers -> WriteSteps] /\ written \in Seq(1..MaxMsgs)
      /\ toWrite <= submitted
  BY DEF IInv, TypeInv, TypeOK, HandlerTypeOK, WriterTypeOK, ListTypeOK, DataTypeOK, ListInv,
     FlushInv, Allocated, Node
<1>2. ASSUME UNCHANGED <<toWrite, queued, submitted, written>>,
             \A t \in Writers : wpc'[t] \in {"free", "drainWrite"} => wpc'[t] = wpc[t]
      PROVE  OutboxInv'
  BY <1>2 DEF OutboxInv
<1>3. CASE Write
  <2>1. CASE QueueWrite
    <3>1. /\ submitted' = submitted + 1 /\ queued' = queued \cup {submitted + 1}
          /\ UNCHANGED <<toWrite, written, wpc>>
      BY <2>1 DEF QueueWrite, writerVars
    <3>2. submitted + 1 \notin ToSet(written) /\ 1..submitted \subseteq 1..submitted + 1
      BY <1>1 DEF OutboxInv
    <3> QED
      BY <3>1, <3>2 DEF OutboxInv
  <2>2. CASE DirectWrite
    <3>1. submitted' = submitted + 1 /\ UNCHANGED <<toWrite, wpc, queued>>
      BY <2>2 DEF DirectWrite, writerVars, listVars
    <3>2. ToSet(written') \subseteq ToSet(written) \cup {submitted + 1}
      <4>1. submitted + 1 \in 1..MaxMsgs /\ Deliver(submitted + 1)
        BY <2>2, <1>1 DEF DirectWrite
      <4> QED
        BY <4>1, <1>1, DeliverAdds
    <3>3. /\ toWrite # submitted + 1 /\ submitted + 1 \notin queued
          /\ 1..submitted \subseteq 1..submitted + 1 /\ submitted + 1 \in 1..submitted + 1
      BY <1>1 DEF Node
    <3> QED
      BY <3>1, <3>2, <3>3 DEF OutboxInv
  <2> QED
    BY <1>3, <2>1, <2>2 DEF Write
<1>4. CASE Connect \/ EnableThreadedWrites
  <2>1. UNCHANGED <<toWrite, queued, submitted, written>>
    BY <1>4 DEF Connect, StartThreads, EnableThreadedWrites, EnableWriteThread, listVars, dataVars
  <2>2. \A t \in Writers : wpc'[t] = wpc[t] \/ wpc'[t] = "write"
    BY <1>4, <1>1 DEF Connect, StartThreads, EnableThreadedWrites, EnableWriteThread,
       SpawnWriter, writerVars
  <2> QED
    BY <2>1, <2>2, <1>2
<1>5. CASE \/ Disconnect \/ Destroy \/ GameContinues \/ Receive \/ Undefined
           \/ \E r \in Readers : ReadThread(r)
  <2>1. UNCHANGED <<toWrite, queued, submitted, written, wpc>>
    BY <1>5 DEF Disconnect, StopThreads, Destroy, GameContinues, NotifyTail, MoveTail,
       JoinWriter, JoinReader, ClosePort, Receive, HandleCallback, Undefined, BadAccess,
       UseAfterDestroy,
       ReadThread, ReaderStep, ReadPass, SendChunk, CheckExit, rwhVars, writerVars, listVars,
       dataVars
  <2> QED
    BY <2>1, <1>2
<1>6. ASSUME NEW t \in Writers, WriteThread(t) PROVE OutboxInv'
  <2>1. UNCHANGED <<queued, submitted>>
    BY <1>6 DEF WriteThread, WriterStep, WriteHead, LockNode, TestNext, Wake, DrainNode,
       DrainWrite, DrainExit, Advance, FreePrev, dataVars
  <2>2. \A s \in Writers \ {t} : wpc[s] = "gone" /\ wpc'[s] = "gone"
    <3>1. wpc[t] # "gone"
      BY <1>6 DEF WriteThread, WriterStep, WriteHead, LockNode, TestNext, Wake, DrainNode,
         DrainWrite, DrainExit, Advance, FreePrev, WriterAt
    <3>2. \A s \in Writers \ {t} : wpc[s] = "gone"
      BY <3>1 DEF IInv, WriterInv, LiveWriters
    <3>3. \A s \in Writers \ {t} : wpc'[s] = wpc[s]
      BY <1>6, <1>1 DEF WriteThread, WriterStep, WriteHead, LockNode, TestNext, Wake, DrainNode,
         DrainWrite, DrainExit, Advance, FreePrev, Goto
    <3> QED
      BY <3>2, <3>3
  <2>3. CASE WriteHead(t) \/ DrainWrite(t)
    <3>1. toWrite' = toWrite /\ wpc'[t] \in {"lock", "drain"}
      BY <2>3, <1>1 DEF WriteHead, DrainWrite, Goto, listVars
    <3>2. ToSet(written') \subseteq ToSet(written) \cup ({toWrite} \cap 1..submitted)
      <4>1. CASE toWrite = 0
        BY <2>3, <4>1 DEF WriteHead, DrainWrite
      <4>2. CASE toWrite # 0
        <5>1. Deliver(toWrite) /\ toWrite \in 1..MaxMsgs /\ toWrite \in 1..submitted
          BY <2>3, <4>2, <1>1 DEF WriteHead, DrainWrite, Node
        <5> QED
          BY <5>1, <1>1, DeliverAdds
      <4> QED
        BY <4>1, <4>2
    <3>3. \A m \in queued : m > toWrite => m # toWrite
      BY <1>1 DEF Node
    <3> QED
      BY <3>1, <3>2, <3>3, <2>1, <2>2 DEF OutboxInv
  <2>4. CASE LockNode(t) \/ TestNext(t) \/ Wake(t) \/ DrainExit(t) \/ FreePrev(t)
    <3>1. UNCHANGED <<toWrite, written>>
      BY <2>4 DEF LockNode, TestNext, Wake, DrainExit, FreePrev, listVars, dataVars
    <3>2. wpc'[t] \notin {"free", "drainWrite"}
      BY <2>4, <1>1 DEF LockNode, TestNext, Wake, DrainExit, FreePrev, Goto
    <3> QED
      BY <3>1, <3>2, <2>1, <2>2, <1>2
  <2>5. CASE Advance(t) \/ DrainNode(t)
    <3>1. next[toWrite] # NoNode /\ toWrite' = next[toWrite] /\ written' = written
      BY <2>5 DEF Advance, DrainNode, WriterAt, IInv, ListInv, dataVars
    <3>2. toWrite' \in queued /\ toWrite' > toWrite /\ toWrite' \in Node
      <4>1. toWrite' \in queued /\ toWrite < toWrite'
        BY <3>1, <1>1 DEF IInv, FlushInv, ListInv
      <4> QED
        BY <4>1, <1>1 DEF Node
    <3>3. toWrite' \notin ToSet(written)
      BY <3>2 DEF OutboxInv
    <3>4. \A m \in queued : m > toWrite' => m > toWrite
      BY <3>2, <1>1 DEF Node
    <3> QED
      BY <3>1, <3>3, <3>4, <2>1 DEF OutboxInv
  <2> QED
    BY <1>6, <2>3, <2>4, <2>5 DEF WriteThread, WriterStep
<1> QED
  BY <1>3, <1>4, <1>5, <1>6 DEF Next

-----------------------------------------------------------------------------
(* The list implements the outbox *)

\* A write thread is about to write a message that was written before.
Repeating == \E t \in LiveWriters : wpc[t] = "write" /\ toWrite \in ToSet(written)

\* What the outbox calls sent and pending.
LEMMA OutSets == Out!Sent = ToSet(written) /\ Out!Pending = queued \ ToSet(written)
BY DEF Out!Pending, Out!Sent, Out!ToSet, ToSet

\* A bound that a set contains is the one Max or Min chooses.
LEMMA MaxIs ==
  ASSUME NEW S \in SUBSET Nat, NEW m \in S, \A n \in S : n <= m PROVE Out!Max(S) = m
<1>1. \A x \in S : (\A y \in S : x >= y) <=> x = m
  OBVIOUS
<1> QED
  BY <1>1 DEF Out!Max

LEMMA MinIs ==
  ASSUME NEW S \in SUBSET Nat, NEW m \in S, \A n \in S : m <= n PROVE Out!Min(S) = m
<1>1. \A x \in S : (\A y \in S : x =< y) <=> x = m
  OBVIOUS
<1> QED
  BY <1>1 DEF Out!Min

\* Only the head, what was written and the threads tell a repetition.
LEMMA ReplayUnchanged ==
  ASSUME UNCHANGED <<toWrite, written, wpc>> PROVE Repeating' = Repeating
BY DEF Repeating, LiveWriters

\* Until the promise is void, every step of the port is a step of the outbox or
\* changes nothing of it.
LEMMA OutboxStep ==
  ASSUME IInv, OutboxInv, OutboxInv', EnabledOpen, EnabledOpen', Next
  PROVE  [Out!Next]_(Out!vars)
<1>1. /\ toWrite \in Node /\ submitted \in 0..MaxMsgs /\ queued \subseteq 1..submitted
      /\ wpc \in [Writers -> WriteSteps] /\ written \in Seq(1..MaxMsgs)
      /\ usingWriteThread \in BOOLEAN /\ handleOpen \in BOOLEAN /\ toWrite \in queued \cup {0}
  BY DEF IInv, TypeInv, TypeOK, HandlerTypeOK, GameTypeOK, WriterTypeOK, ListTypeOK, DataTypeOK,
     ListInv, FlushInv, Allocated, Node
<1> DEFINE Quiet == UNCHANGED <<submitted, queued, written>> /\ Repeating' = Repeating
<1>2. ASSUME Quiet PROVE Out!vars' = Out!vars
  BY <1>2 DEF Out!vars, Repeating
<1>3. CASE Write
  <2>1. CASE QueueWrite
    <3>1. /\ submitted < MaxMsgs /\ submitted' = submitted + 1
          /\ queued' = queued \cup {submitted + 1}
          /\ UNCHANGED <<toWrite, written, wpc>>
      BY <2>1 DEF QueueWrite, writerVars
    <3>2. Out!Queue
      BY <3>1, ReplayUnchanged DEF Out!Queue, Out!Submit, Repeating
    <3> QED
      BY <3>2 DEF Out!Next, Out!Kept
  <2>2. CASE DirectWrite
    <3>1. /\ submitted < MaxMsgs /\ submitted' = submitted + 1 /\ UNCHANGED <<queued, wpc>>
          /\ usingWriteThread = FALSE /\ gpc = "idle" /\ Deliver(submitted + 1)
      BY <2>2, <1>1 DEF DirectWrite, Idle, writerVars
    <3>2. LiveWriters = {} /\ LiveWriters' = {}
      BY <3>1 DEF IInv, WriterInv, LiveWriters
    <3>3. Repeating' = Repeating
      BY <3>2 DEF Repeating
    <3>4. Out!Pending = {}
      BY <3>2, OutSets DEF IInv, Drained
    <3>5. Out!Direct \/ Out!Discard
      BY <3>1, <3>3, <3>4 DEF Out!Direct, Out!Discard, Out!Submit, Deliver, Repeating
    <3> QED
      BY <3>5 DEF Out!Next, Out!Kept
  <2> QED
    BY <1>3, <2>1, <2>2 DEF Write
<1>4. CASE Connect \/ EnableThreadedWrites
  <2>1. UNCHANGED <<toWrite, submitted, queued, written>>
    BY <1>4 DEF Connect, StartThreads, EnableThreadedWrites, EnableWriteThread, listVars, dataVars
  <2>2. CASE wpc' = wpc
    BY <2>1, <2>2, <1>2, ReplayUnchanged
  <2>3. CASE wpc' # wpc
    <3>1. LiveWriters = {} /\ SpawnWriter
      BY <1>4, <2>3, <1>1, EnabledWhenOpen, NoThreadWhenClosed DEF Connect, StartThreads,
         EnableThreadedWrites,
         EnableWriteThread, AlreadyThreaded, Idle, IInv, WriterInv, writerVars
    <3>2. ~Repeating /\ Out!Pending = {}
      BY <3>1, OutSets DEF Repeating, IInv, Drained
    <3>3. CASE toWrite \in ToSet(written)
      <4>1. queued # {}
        BY <3>3, <1>1 DEF OutboxInv
      <4>2. Repeating'
        BY <3>1, <3>3, <2>1, <1>1, SpawnWriterLive DEF Repeating, IInv
      <4>3. Out!Restart
        BY <4>1, <4>2, <3>2, <2>1 DEF Out!Restart, Repeating
      <4> QED
        BY <4>3 DEF Out!Next, Out!Kept
    <3>4. CASE toWrite \notin ToSet(written)
      <4>1. ~Repeating'
        BY <3>4, <2>1 DEF Repeating
      <4> QED
        BY <4>1, <3>2, <2>1, <1>2 DEF Repeating
    <3> QED
      BY <3>3, <3>4
  <2> QED
    BY <2>2, <2>3
<1>5. CASE \/ Disconnect \/ Destroy \/ GameContinues \/ Receive \/ Undefined
           \/ \E r \in Readers : ReadThread(r)
  <2>1. UNCHANGED <<toWrite, queued, submitted, written, wpc>>
    BY <1>5 DEF Disconnect, StopThreads, Destroy, GameContinues, NotifyTail, MoveTail,
       JoinWriter, JoinReader, ClosePort, Receive, HandleCallback, Undefined, BadAccess,
       UseAfterDestroy,
       ReadThread, ReaderStep, ReadPass, SendChunk, CheckExit, rwhVars, writerVars, listVars,
       dataVars
  <2> QED
    BY <2>1, <1>2, ReplayUnchanged
<1>6. ASSUME NEW t \in Writers, WriteThread(t) PROVE [Out!Next]_(Out!vars)
  <2>1. UNCHANGED <<queued, submitted>>
    BY <1>6 DEF WriteThread, WriterStep, WriteHead, LockNode, TestNext, Wake, DrainNode,
       DrainWrite, DrainExit, Advance, FreePrev, dataVars
  <2>2. /\ \A s \in Writers \ {t} : wpc[s] = "gone" /\ wpc'[s] = "gone"
        /\ wpc[t] # "gone" /\ handleOpen = TRUE
    <3>1. wpc[t] # "gone"
      BY <1>6 DEF WriteThread, WriterStep, WriteHead, LockNode, TestNext, Wake, DrainNode,
         DrainWrite, DrainExit, Advance, FreePrev, WriterAt
    <3>2. handleOpen = TRUE /\ \A s \in Writers \ {t} : wpc[s] = "gone"
      BY <3>1 DEF IInv, WriterInv, LiveWriters
    <3>3. \A s \in Writers \ {t} : wpc'[s] = wpc[s]
      BY <1>6, <1>1 DEF WriteThread, WriterStep, WriteHead, LockNode, TestNext, Wake, DrainNode,
         DrainWrite, DrainExit, Advance, FreePrev, Goto
    <3> QED
      BY <3>1, <3>2, <3>3
  <2>3. Repeating <=> wpc[t] = "write" /\ toWrite \in ToSet(written)
    BY <2>2 DEF Repeating, LiveWriters
  <2>4. Repeating' => wpc'[t] = "write" /\ toWrite' \in ToSet(written')
    BY <2>2 DEF Repeating, LiveWriters
  <2>5. CASE WriteHead(t) \/ DrainWrite(t)
    <3>1. ~Repeating' /\ toWrite' = toWrite
      BY <2>5, <2>4, <1>1 DEF WriteHead, DrainWrite, Goto, listVars
    <3>2. CASE toWrite = 0
      <4>1. written' = written /\ ~Repeating
        BY <2>5, <3>2, <2>3, <1>1 DEF WriteHead, DrainWrite, OutboxInv
      <4>2. Repeating' = Repeating
        BY <4>1, <3>1 DEF Repeating
      <4> QED
        BY <4>1, <4>2, <2>1, <1>2
    <3>3. CASE toWrite # 0 /\ toWrite \in ToSet(written)
      <4>1. toWrite \in queued /\ written' = Append(written, toWrite)
        BY <2>5, <3>3, <2>2, <1>1 DEF WriteHead, DrainWrite, Deliver
      <4>2. Repeating
        <5>1. wpc[t] # "drainWrite"
          BY <3>3 DEF OutboxInv
        <5> QED
          BY <5>1, <2>5, <3>3, <2>3 DEF WriteHead, DrainWrite, WriterAt
      <4>3. Out!Max(queued \cap Out!Sent) = toWrite
        <5> DEFINE S == queued \cap ToSet(written)
        <5>1. S \in SUBSET Nat /\ toWrite \in S
          <6>1. queued \subseteq Nat
            BY <1>1
          <6> QED
            BY <6>1, <4>1, <3>3
        <5>2. \A n \in S : n <= toWrite
          <6>1. \A n \in queued : n \in Nat /\ toWrite \in Nat
            BY <1>1 DEF Node
          <6>2. \A n \in S : ~(n > toWrite)
            BY DEF OutboxInv
          <6> QED
            BY <6>1, <6>2
        <5> HIDE DEF S
        <5>3. Out!Max(S) = toWrite
          BY <5>1, <5>2, MaxIs
        <5> QED
          BY <5>3, OutSets DEF S
      <4>4. Out!Replay
        BY <4>1, <4>2, <4>3, <3>1, <2>1 DEF Out!Replay, Repeating
      <4> QED
        BY <4>4 DEF Out!Next, Out!Kept
    <3>4. CASE toWrite # 0 /\ toWrite \notin ToSet(written)
      <4>1. toWrite \in queued /\ written' = Append(written, toWrite) /\ ~Repeating
        BY <2>5, <3>4, <2>2, <2>3, <1>1 DEF WriteHead, DrainWrite, Deliver
      <4>2. Out!Min(Out!Pending) = toWrite
        <5> DEFINE S == queued \ ToSet(written)
        <5>1. S \in SUBSET Nat /\ toWrite \in S
          <6>1. queued \subseteq Nat
            BY <1>1
          <6> QED
            BY <6>1, <4>1, <3>4
        <5>2. \A n \in S : toWrite <= n
          <6>1. \A n \in queued : n \in Nat /\ toWrite \in Nat
            BY <1>1 DEF Node
          <6>2. \A n \in S : n > toWrite \/ n = toWrite
            BY DEF IInv, FlushInv
          <6> QED
            BY <6>1, <6>2
        <5> HIDE DEF S
        <5>3. Out!Min(S) = toWrite
          BY <5>1, <5>2, MinIs
        <5> QED
          BY <5>3, OutSets DEF S
      <4>3. Out!Pending # {}
        BY <4>1, <3>4, OutSets
      <4>4. Out!Transmit
        BY <4>1, <4>2, <4>3, <3>1, <2>1 DEF Out!Transmit, Repeating
      <4> QED
        BY <4>4 DEF Out!Next, Out!Kept
    <3> QED
      BY <3>2, <3>3, <3>4
  <2>6. CASE \/ LockNode(t) \/ TestNext(t) \/ Wake(t) \/ DrainExit(t) \/ Advance(t)
             \/ DrainNode(t) \/ FreePrev(t)
    <3>1. written' = written /\ wpc[t] # "write"
      BY <2>6 DEF LockNode, TestNext, Wake, DrainExit, Advance, DrainNode, FreePrev, WriterAt,
         dataVars
    <3>2. wpc'[t] = "write" => toWrite' = toWrite /\ wpc[t] = "free"
      BY <2>6, <1>1 DEF LockNode, TestNext, Wake, DrainExit, Advance, DrainNode, FreePrev, Goto
    <3>3. ~Repeating /\ ~Repeating'
      BY <3>1, <3>2, <2>3, <2>4 DEF OutboxInv
    <3>4. Repeating' = Repeating
      BY <3>3 DEF Repeating
    <3> QED
      BY <3>1, <3>4, <2>1, <1>2
  <2> QED
    BY <1>6, <2>5, <2>6 DEF WriteThread, WriterStep
<1> QED
  BY <1>3, <1>4, <1>5, <1>6 DEF Next

\* Messages leave in the order of submission, a repetition is only ever the last
\* one, once for each restart of the write thread.
THEOREM OutboxImplemented == Spec => ImplementsOutbox
<1>1. Init => OutboxInv /\ Out!Init
  BY DEF Init, HandlerInit, OutboxInv, Out!Init, LiveWriters, ToSet, EnabledOpen
<1>2. /\ TypeInv /\ (EnabledOpen => IInv /\ OutboxInv) /\ (EnabledOpen => IInv)'
      /\ [Next]_vars
      => (EnabledOpen => OutboxInv)' /\ [Out!Next]_(Out!vars)
  <2> SUFFICES ASSUME TypeInv, EnabledOpen => IInv /\ OutboxInv, (EnabledOpen => IInv)',
                      [Next]_vars
               PROVE  (EnabledOpen => OutboxInv)' /\ [Out!Next]_(Out!vars)
    OBVIOUS
  <2>1. CASE Next /\ EnabledOpen'
    <3>1. EnabledOpen /\ IInv /\ OutboxInv
      BY <2>1, EnabledWhenOpen
    <3>2. OutboxInv'
      BY <2>1, <3>1, OutboxInvStep
    <3> QED
      BY <2>1, <3>1, <3>2, OutboxStep
  <2>2. CASE Next /\ ~EnabledOpen'
    BY <2>2 DEF Out!Next, Out!Void
  <2>3. CASE UNCHANGED vars
    <3>1. UNCHANGED <<toWrite, submitted, queued, written, wpc, earlies>>
      BY <2>3 DEF vars, rwhVars, writerVars, listVars, dataVars, portVars
    <3>2. (EnabledOpen => OutboxInv)'
      BY <3>1 DEF OutboxInv, EnabledOpen
    <3>3. Out!vars' = Out!vars
      BY <3>1, ReplayUnchanged DEF Out!vars, Repeating, EnabledOpen
    <3> QED
      BY <3>2, <3>3
  <2> QED
    BY <2>1, <2>2, <2>3
<1>3. AllScripts => TypeInv
  BY DEF AllScripts
<1> QED
  BY <1>1, <1>2, <1>3, ThreadsInductive, Inductive, PTL DEF Spec, ImplementsOutbox, Out!Spec

-----------------------------------------------------------------------------
(* A port that is opened once *)

\* No node is at its turn to be written again, and before the only write thread is
\* started the list is at the constructor's dummy.
OnceInv ==
  /\ NoDoubleWrite
  /\ \A t \in Writers : wpc[t] = "write" => toWrite \notin ToSet(written)
  /\ connects = 0 => ~handleOpen /\ ~useWriteThread /\ toWrite = 0
  /\ handleOpen /\ gpc = "idle" /\ ~usingWriteThread => toWrite = 0

\* A message that did not leave yet can leave without being doubled.
LEMMA DeliverOnce ==
  ASSUME written \in Seq(1..MaxMsgs), NoDoubleWrite, NEW m, m \notin ToSet(written), Deliver(m)
  PROVE  NoDoubleWrite'
<1>1. CASE handleOpen
  <2>1. written' = Append(written, m)
    BY <1>1 DEF Deliver
  <2>2. /\ Len(written) \in Nat /\ DOMAIN written = 1..Len(written)
        /\ DOMAIN written' = 1..Len(written) + 1 /\ written'[Len(written) + 1] = m
        /\ \A i \in 1..Len(written) : written'[i] = written[i] /\ written[i] # m
    BY <2>1 DEF ToSet
  <2>3. \A i \in 1..Len(written) + 1 : i = Len(written) + 1 \/ i \in 1..Len(written)
    BY <2>2
  <2> QED
    BY <2>2, <2>3 DEF NoDoubleWrite, IsInjective
<1>2. CASE ~handleOpen
  BY <1>2 DEF Deliver, NoDoubleWrite
<1> QED
  BY <1>1, <1>2

\* A port that was opened at most once and whose threaded writes were enabled open.
Plain == EnabledOpen /\ connects <= 1

\* Every command and every thread preserves OnceInv while the port opens at most once.
LEMMA OnceInvStep ==
  ASSUME IInv, OutboxInv, OnceInv, Plain', Next
  PROVE  OnceInv'
<1>1. /\ toWrite \in Node /\ submitted \in 0..MaxMsgs /\ connects \in 0..MaxConnects
      /\ wpc \in [Writers -> WriteSteps] /\ written \in Seq(1..MaxMsgs)
      /\ usingWriteThread \in BOOLEAN /\ handleOpen \in BOOLEAN /\ useWriteThread \in BOOLEAN
  BY DEF IInv, TypeInv, TypeOK, HandlerTypeOK, GameTypeOK, WriterTypeOK, ListTypeOK, DataTypeOK,
     PortTypeOK, ListInv, FlushInv, Allocated, Node
<1>2. 0 \notin ToSet(written) /\ submitted + 1 \notin ToSet(written)
  BY <1>1 DEF OutboxInv
<1>3. CASE Write
  <2>1. CASE QueueWrite
    BY <2>1, <1>3 DEF Write, QueueWrite, OnceInv, NoDoubleWrite, writerVars, threadVars,
       portVars
  <2>2. CASE DirectWrite
    <3>1. /\ Deliver(submitted + 1) /\ ~usingWriteThread /\ gpc = "idle"
          /\ UNCHANGED <<connects, handleOpen, useWriteThread, usingWriteThread, toWrite, gpc, wpc>>
      BY <2>2, <1>3 DEF Write, DirectWrite, Idle, gameVars, threadVars, writerVars, listVars,
       portVars
    <3>2. \A t \in Writers : wpc[t] = "gone"
      BY <3>1, <1>1 DEF IInv, WriterInv, LiveWriters
    <3>3. NoDoubleWrite'
      BY <3>1, <1>1, <1>2, DeliverOnce DEF OnceInv
    <3> QED
      BY <3>1, <3>2, <3>3 DEF OnceInv
  <2> QED
    BY <1>3, <2>1, <2>2 DEF Write
<1>4. CASE Connect
  <2>1. /\ connects = 0 /\ connects' = 1 /\ handleOpen' = TRUE
        /\ UNCHANGED <<gpc, toWrite, written>>
    BY <1>4, <1>1 DEF Connect, StartThreads, gameVars, listVars, dataVars, Plain
  <2>2. wpc' = wpc
    BY <1>4, <2>1 DEF Connect, StartThreads, OnceInv, writerVars
  <2> QED
    BY <2>1, <2>2 DEF OnceInv, NoDoubleWrite
<1>5. CASE EnableThreadedWrites
  <2>1. /\ handleOpen /\ gpc = "idle" /\ UNCHANGED <<connects, handleOpen, gpc, toWrite, written>>
    BY <1>5, EnabledWhenOpen DEF EnableThreadedWrites, EnableWriteThread, Idle, gameVars, listVars,
       dataVars, IInv, Plain
  <2>2. CASE usingWriteThread
    <3>1. UNCHANGED <<wpc, usingWriteThread>>
      BY <1>5, <2>2 DEF EnableThreadedWrites, EnableWriteThread, AlreadyThreaded
    <3> QED
      BY <2>1, <2>2, <3>1 DEF OnceInv, NoDoubleWrite
  <2>3. CASE ~usingWriteThread
    <3>1. toWrite = 0
      BY <2>1, <2>3 DEF OnceInv
    <3> QED
      BY <2>1, <3>1, <1>2 DEF OnceInv, NoDoubleWrite
  <2> QED
    BY <2>2, <2>3
<1>6. CASE Disconnect
  <2>1. /\ gpc' # "idle" \/ (fault' = "nullJoin" /\ UNCHANGED <<gpc, usingWriteThread>>)
        /\ UNCHANGED <<connects, handleOpen, useWriteThread, toWrite, written, wpc>>
    BY <1>6 DEF Disconnect, Command, Idle, StopThreads, StopReader, writerVars, listVars, dataVars,
       portVars
  <2> QED
    BY <2>1 DEF OnceInv, NoDoubleWrite
<1>7. CASE Destroy \/ Receive \/ Undefined \/ \E r \in Readers : ReadThread(r)
  <2>1. /\ UNCHANGED <<connects, handleOpen, useWriteThread, usingWriteThread, gpc>>
        /\ UNCHANGED <<toWrite, written, wpc>>
    BY <1>7 DEF Destroy, Receive, HandleCallback, Undefined, BadAccess, UseAfterDestroy,
       ReadThread, ReaderStep,
       ReadPass, SendChunk, CheckExit, rwhVars, gameVars, threadVars, writerVars, listVars,
       dataVars,
       portVars
  <2> QED
    BY <2>1 DEF OnceInv, NoDoubleWrite
<1>8. CASE GameContinues
  <2>1. UNCHANGED <<connects, useWriteThread, toWrite, written, wpc>>
    BY <1>8 DEF GameContinues, NotifyTail, MoveTail, JoinWriter, JoinReader, ClosePort,
       threadVars, writerVars, listVars, dataVars,
       portVars
  <2>2. CASE ClosePort
    BY <2>1, <2>2 DEF ClosePort, OnceInv, NoDoubleWrite
  <2>3. CASE MoveTail
    BY <2>1, <2>3 DEF MoveTail, OnceInv, NoDoubleWrite, IInv, WriterInv, threadVars
  <2>4. CASE NotifyTail \/ JoinReader \/ JoinWriter
    <3>1. gpc' # "idle" /\ UNCHANGED handleOpen
      BY <2>4 DEF NotifyTail, JoinReader, JoinWriter, StopReader
    <3> QED
      BY <2>1, <3>1 DEF OnceInv, NoDoubleWrite
  <2> QED
    BY <1>8, <2>2, <2>3, <2>4 DEF GameContinues
<1>9. ASSUME NEW t \in Writers, WriteThread(t) PROVE OnceInv'
  <2>1. UNCHANGED <<connects, handleOpen, useWriteThread, usingWriteThread, gpc>>
    BY <1>9 DEF WriteThread, WriterStep, WriteHead, LockNode, TestNext, Wake, DrainNode,
       DrainWrite, DrainExit, Advance, FreePrev, gameVars, threadVars,
       portVars
  <2>2. wpc[t] # "gone"
    BY <1>9 DEF WriteThread, WriterStep, WriteHead, LockNode, TestNext, Wake, DrainNode,
       DrainWrite, DrainExit, Advance, FreePrev, WriterAt
  <2>3. /\ handleOpen = TRUE /\ (usingWriteThread = TRUE \/ gpc = "joinWrite")
        /\ \A s \in Writers \ {t} : wpc[s] = "gone"
    BY <2>2 DEF IInv, WriterInv, LiveWriters
  <2>4. \A s \in Writers \ {t} : wpc'[s] = "gone"
    BY <1>9, <1>1, <2>3 DEF WriteThread, WriterStep, WriteHead, LockNode, TestNext, Wake, DrainNode,
       DrainWrite, DrainExit, Advance, FreePrev, Goto
  <2>5. ASSUME NoDoubleWrite', wpc'[t] = "write" => toWrite' \notin ToSet(written')
        PROVE  OnceInv'
    BY <2>1, <2>3, <2>4, <2>5 DEF OnceInv
  <2>6. CASE WriteHead(t) \/ DrainWrite(t)
    <3>1. wpc'[t] # "write"
      BY <2>6, <1>1 DEF WriteHead, DrainWrite, Goto
    <3>2. toWrite \notin ToSet(written)
      BY <2>6 DEF WriteHead, DrainWrite, WriterAt, OnceInv, OutboxInv
    <3>3. CASE toWrite = 0
      BY <2>5, <2>6, <3>1, <3>3 DEF WriteHead, DrainWrite, OnceInv, NoDoubleWrite
    <3>4. CASE toWrite # 0
      <4>1. Deliver(toWrite)
        BY <2>6, <3>4 DEF WriteHead, DrainWrite
      <4>2. NoDoubleWrite'
        BY <4>1, <3>2, <1>1, DeliverOnce DEF OnceInv
      <4> QED
        BY <4>2, <3>1, <2>5
    <3> QED
      BY <3>3, <3>4
  <2>7. CASE FreePrev(t)
    <3>1. toWrite \notin ToSet(written) /\ UNCHANGED <<toWrite, written>>
      BY <2>7 DEF FreePrev, OutboxInv, dataVars
    <3> QED
      BY <3>1, <2>5 DEF OnceInv, NoDoubleWrite
  <2>8. CASE LockNode(t) \/ TestNext(t) \/ Wake(t) \/ DrainExit(t) \/ Advance(t) \/ DrainNode(t)
    <3>1. wpc'[t] # "write" /\ written' = written
      BY <2>8, <1>1 DEF LockNode, TestNext, Wake, DrainExit, Advance, DrainNode, Goto, dataVars
    <3> QED
      BY <3>1, <2>5 DEF OnceInv, NoDoubleWrite
  <2> QED
    BY <1>9, <2>6, <2>7, <2>8 DEF WriteThread, WriterStep
<1> QED
  BY <1>3, <1>4, <1>5, <1>6, <1>7, <1>8, <1>9 DEF Next

\* As long as a port was opened once and asked for threaded writes only while open, no message
\* leaves twice ("no chance of a double-write", README.md:149).  The double write of
\* MCSerialPortReplay.cfg needs a second write thread, and a second thread needs a second opening:
\* it starts where the first one stood when it ended, at a node that is already written.
THEOREM WrittenOnce == Spec => [](EnabledOpen /\ connects <= 1 => NoDoubleWrite)
<1>1. Init => OutboxInv /\ OnceInv
  <2>1. <<>> \in Seq(Nat) /\ IsInjective(<<>>) /\ ToSet(<<>>) = {}
    BY DEF IsInjective, ToSet
  <2> QED
    BY <2>1 DEF Init, HandlerInit, OutboxInv, OnceInv, NoDoubleWrite
<1>2. AllScripts /\ (EnabledOpen => IInv) /\ (Plain => OutboxInv /\ OnceInv) /\ [Next]_vars
      => (Plain => OutboxInv /\ OnceInv)'
  <2> SUFFICES ASSUME AllScripts, EnabledOpen => IInv, Plain => OutboxInv /\ OnceInv,
                      [Next]_vars, Plain'
               PROVE  OutboxInv' /\ OnceInv'
    OBVIOUS
  <2>1. CASE Next
    <3>1. EnabledOpen
      BY <2>1, EnabledWhenOpen DEF AllScripts, Plain
    <3>2. connects \in Nat /\ (connects' = connects \/ connects' = connects + 1)
      BY <2>1 DEF AllScripts, TypeInv, TypeOK, PortTypeOK, Next, Write, Connect,
         EnableThreadedWrites, Disconnect, Destroy, GameContinues, ClosePort, Receive, Undefined,
         WriteThread, ReadThread, portVars
    <3>3. Plain
      BY <3>1, <3>2 DEF Plain
    <3> QED
      BY <2>1, <3>1, <3>3, OutboxInvStep, OnceInvStep
  <2>2. CASE UNCHANGED vars
    BY <2>2 DEF vars, rwhVars, gameVars, threadVars, writerVars, listVars, dataVars, portVars,
                OutboxInv, OnceInv, NoDoubleWrite, Plain, EnabledOpen
  <2> QED
    BY <2>1, <2>2
<1>3. (Plain => OutboxInv /\ OnceInv) => (EnabledOpen /\ connects <= 1 => NoDoubleWrite)
  BY DEF OnceInv, Plain
<1> QED
  BY <1>1, <1>2, <1>3, ThreadsInductive, Inductive, PTL DEF Spec
=============================================================================
