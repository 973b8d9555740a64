----------------------------- MODULE TcpClientProofs -----------------------------
(***************************************************************************)
(* A TCP client, for every number of read threads, chunks and attempts.    *)
(***************************************************************************)
EXTENDS TcpClient, TLAPS

USE ThreadsAssumption, BoundsAssumption, ClientAssumption

\* A client never has a write thread, and its game thread never stops one.
NoWriteThread ==
  /\ ~usingWriteThread /\ ~useWriteThread
  /\ gpc \in {"idle", "joinRead", "stopped"}

\* The thread the handler knows is the only one, it is told to stop only by a command
\* that goes on to wait for it, and it does not outlive the socket.
OneKnownReader ==
  /\ LiveReaders \subseteq {readThread}
  /\ LiveReaders # {} => handleOpen
  /\ gpc = "idle" /\ ~usingReadThread => LiveReaders = {}
  /\ gpc = "joinRead" => ~usingReadThread
  /\ gpc = "stopped" => LiveReaders = {}

\* While an attempt is at work no command is; its socket is open, and a read thread runs
\* only once the attempt started it.
AttemptAlone ==
  Pending =>
    /\ gpc = "idle" /\ ~destroyed
    /\ op \in {"connecting", "connected", "configure", "start", "succeed"} => handleOpen
    /\ op = "succeed" <=> LiveReaders # {}

\* A client is deleted closed and at rest.
DestroyedAtRest == destroyed => ~handleOpen /\ ~Pending /\ gpc = "idle"

Disciplined == OneKnownReader /\ AttemptAlone /\ DestroyedAtRest

IInv == TypeOK /\ NoWriteThread /\ (~hasty => Disciplined)

LEMMA InitIInv == Init => IInv
<1> SUFFICES ASSUME Init PROVE IInv
  OBVIOUS
<1> USE DEF Init, HandlerInit
<1>1. LiveReaders = {}
  BY DEF LiveReaders
<1>2. NoWriteThread /\ Disciplined
  BY <1>1 DEF NoWriteThread, Disciplined, OneKnownReader, AttemptAlone, DestroyedAtRest, Pending
<1>3. GameTypeOK
  BY Zenon DEF GameTypeOK, GameSteps, Faults
<1>4. ReadTypeOK
  <2>1. usingReadThread \in BOOLEAN /\ readThread \in Readers \cup {NoThread}
    BY Zenon
  <2>2. rpc \in [Readers -> ReadSteps]
    BY DEF ReadSteps
  <2>3. chunks \in 0..MaxChunks /\ inbox \in 0..ArmaCap
    OBVIOUS
  <2> QED
    BY <2>1, <2>2, <2>3 DEF ReadTypeOK
<1>5. WriterTypeOK /\ ListTypeOK
  BY DEF WriterTypeOK, ListTypeOK, WriteSteps, Node, NoNode
<1>6. DataTypeOK
  BY DEF DataTypeOK
<1>7. op \in Ops /\ destroyed \in BOOLEAN /\ hasty \in BOOLEAN
  BY Zenon DEF Ops
<1>8. attempts \in 0..MaxAttempts
  OBVIOUS
<1> QED
  BY <1>2, <1>3, <1>4, <1>5, <1>6, <1>7, <1>8 DEF IInv, TypeOK, HandlerTypeOK

\* What no step of a client touches keeps its type.
LEMMA TypeKept ==
  ASSUME TypeOK, UNCHANGED <<threadVars, writerVars, listVars, dataVars>>, GameTypeOK', ReadTypeOK',
         op' \in Ops, attempts' \in 0..MaxAttempts, destroyed' \in BOOLEAN, hasty' \in BOOLEAN
  PROVE  TypeOK'
<1>1. WriterTypeOK'
  BY DEF TypeOK, HandlerTypeOK, WriterTypeOK, threadVars, writerVars
<1>2. ListTypeOK'
  BY DEF TypeOK, HandlerTypeOK, ListTypeOK, listVars
<1>3. DataTypeOK'
  BY DEF TypeOK, HandlerTypeOK, DataTypeOK, dataVars
<1> QED
  BY <1>1, <1>2, <1>3 DEF TypeOK, HandlerTypeOK

\* startThreads starts one read thread, and no write thread.
LEMMA StartThreadsKeeps ==
  ASSUME IInv, StartThreads
  PROVE  /\ UNCHANGED <<threadVars, writerVars, listVars, dataVars>>
         /\ usingReadThread' \in BOOLEAN /\ readThread' \in Readers /\ rpc' \in [Readers -> ReadSteps]
         /\ UNCHANGED <<chunks, inbox>> /\ usingReadThread'
         /\ LiveReaders' = LiveReaders \cup {readThread'}
<1> USE DEF IInv, StartThreads
<1>1. UNCHANGED <<threadVars, writerVars, listVars, dataVars>>
  BY DEF NoWriteThread, threadVars, writerVars, listVars, dataVars
<1>2. PICK r \in Readers \ LiveReaders :
        readThread' = r /\ rpc' = [rpc EXCEPT ![r] = "read"] /\ usingReadThread' = TRUE
  BY DEF SpawnReader
<1>3. rpc \in [Readers -> ReadSteps]
  BY DEF TypeOK, HandlerTypeOK, ReadTypeOK
<1>4. rpc' \in [Readers -> ReadSteps] /\ LiveReaders' = LiveReaders \cup {readThread'}
  BY <1>2, <1>3 DEF ReadSteps, LiveReaders
<1> QED
  BY <1>1, <1>2, <1>4

\* A synchronous attempt, however far it comes.
LEMMA ConnectIInv == ASSUME IInv, Connect PROVE IInv'
<1> USE DEF IInv, Connect, Attempt, Command, Idle
<1>1. /\ attempts' \in 0..MaxAttempts /\ hasty' \in BOOLEAN
      /\ hasty' <=> hasty \/ handleOpen \/ Pending
      /\ UNCHANGED <<gpc, fault, destroyed>> /\ gpc = "idle" /\ ~destroyed
  <2>1. attempts' \in 0..MaxAttempts
    BY DEF TypeOK
  <2>2. hasty' \in BOOLEAN /\ (hasty' <=> hasty \/ handleOpen \/ Pending)
    BY Zenon DEF TypeOK, Pending
  <2> QED
    BY <2>1, <2>2 DEF gameVars
<1>2. op' \in Ops /\ handleOpen' \in BOOLEAN
  BY DEF TypeOK, HandlerTypeOK, GameTypeOK, Abort, Ops
<1>3. op = "none" => op' = "none"
  BY DEF Abort
<1>4. CASE UNCHANGED Threads
  <2>1. UNCHANGED <<threadVars, writerVars, listVars, dataVars, readVars>>
    BY <1>4 DEF Threads
  <2>2. GameTypeOK' /\ ReadTypeOK' /\ LiveReaders' = LiveReaders
    BY <1>1, <1>2, <2>1
       DEF TypeOK, HandlerTypeOK, GameTypeOK, ReadTypeOK, readVars, LiveReaders
  <2>3. TypeOK'
    BY <1>1, <1>2, <2>1, <2>2, TypeKept DEF TypeOK
  <2>4. NoWriteThread'
    BY <1>1, <2>1 DEF NoWriteThread, threadVars
  <2>5. ~hasty' => Disciplined'
    BY <1>1, <1>3, <2>1, <2>2
       DEF Disciplined, OneKnownReader, AttemptAlone, DestroyedAtRest, Pending, readVars
  <2> QED
    BY <2>3, <2>4, <2>5
<1>5. CASE handleOpen' = TRUE /\ StartThreads
  <2>1. UNCHANGED <<threadVars, writerVars, listVars, dataVars>>
    BY <1>5, StartThreadsKeeps
  <2>2. GameTypeOK' /\ ReadTypeOK'
    BY <1>1, <1>2, <1>5, StartThreadsKeeps
       DEF TypeOK, HandlerTypeOK, GameTypeOK, ReadTypeOK
  <2>3. TypeOK'
    BY <1>1, <1>2, <2>1, <2>2, TypeKept DEF TypeOK
  <2>4. NoWriteThread'
    BY <1>1, <2>1 DEF NoWriteThread, threadVars
  <2>5. ASSUME ~hasty' PROVE Disciplined'
    <3>1. LiveReaders = {} /\ op' = "none"
      BY <1>1, <1>3, <2>5 DEF Disciplined, OneKnownReader, Pending
    <3>2. LiveReaders' = {readThread'} /\ usingReadThread'
      BY <1>5, <3>1, StartThreadsKeeps
    <3> QED
      BY <1>1, <1>5, <3>1, <3>2
         DEF Disciplined, OneKnownReader, AttemptAlone, DestroyedAtRest, Pending
  <2> QED
    BY <2>3, <2>4, <2>5
<1> QED
  BY <1>4, <1>5

\* Beginning an attempt, and destroy.
LEMMA BeginOrDestroyIInv == ASSUME IInv, ConnectAsync \/ Destroy PROVE IInv'
<1> USE DEF IInv
<1>1. CASE ConnectAsync
  <2> USE <1>1 DEF ConnectAsync, Attempt, Command, Idle
  <2>1. /\ attempts' \in 0..MaxAttempts /\ hasty' \in BOOLEAN /\ op' \in Ops /\ handleOpen' \in BOOLEAN
        /\ hasty' <=> hasty \/ handleOpen \/ Pending
        /\ UNCHANGED <<gpc, fault, destroyed>> /\ gpc = "idle" /\ ~destroyed
    <3>1. attempts' \in 0..MaxAttempts
      BY DEF TypeOK
    <3>2. hasty' \in BOOLEAN /\ (hasty' <=> hasty \/ handleOpen \/ Pending)
      BY Zenon DEF TypeOK, Pending
    <3> QED
      BY <3>1, <3>2 DEF gameVars, Ops
  <2>2. UNCHANGED <<threadVars, writerVars, listVars, dataVars, readVars>>
    BY DEF Threads
  <2>3. GameTypeOK' /\ ReadTypeOK' /\ LiveReaders' = LiveReaders
    BY <2>1, <2>2 DEF TypeOK, HandlerTypeOK, GameTypeOK, ReadTypeOK, readVars, LiveReaders
  <2>4. TypeOK'
    BY <2>1, <2>2, <2>3, TypeKept DEF TypeOK
  <2>5. NoWriteThread'
    BY <2>1, <2>2 DEF NoWriteThread, threadVars
  <2>6. ASSUME ~hasty' PROVE Disciplined'
    <3>1. LiveReaders = {}
      BY <2>1, <2>6 DEF Disciplined, OneKnownReader
    <3> QED
      BY <2>1, <2>2, <2>3, <2>6, <3>1
         DEF Disciplined, OneKnownReader, AttemptAlone, DestroyedAtRest, Pending, readVars
  <2> QED
    BY <2>4, <2>5, <2>6
<1>2. CASE Destroy
  <2> USE <1>2 DEF Destroy, Command, Idle, MayDestroy
  <2>1. hasty' \in BOOLEAN /\ destroyed' \in BOOLEAN /\ (hasty' <=> hasty \/ Pending)
    BY DEF TypeOK
  <2>2. UNCHANGED <<threadVars, writerVars, listVars, dataVars, readVars, gpc, fault, handleOpen>>
        /\ gpc = "idle"
    BY DEF rwhVars, gameVars
  <2>3. GameTypeOK' /\ ReadTypeOK' /\ LiveReaders' = LiveReaders
    BY <2>1, <2>2 DEF TypeOK, HandlerTypeOK, GameTypeOK, ReadTypeOK, readVars, LiveReaders
  <2>4. TypeOK'
    BY <2>1, <2>2, <2>3, TypeKept DEF TypeOK
  <2>5. NoWriteThread'
    BY <2>2 DEF NoWriteThread, threadVars
  <2>6. ~hasty' => Disciplined'
    BY <2>1, <2>2, <2>3
       DEF Disciplined, OneKnownReader, AttemptAlone, DestroyedAtRest, Pending, readVars
  <2> QED
    BY <2>4, <2>5, <2>6
<1> QED
  BY <1>1, <1>2

\* disconnect, up to the join and after it.
LEMMA DisconnectIInv ==
  ASSUME IInv, Disconnect \/ GameContinues
  PROVE  IInv'
<1> USE DEF IInv
<1>1. CASE Disconnect
  <2> USE <1>1 DEF Disconnect, Command, Idle, StopThreads
  <2>1. /\ StopReader
        /\ UNCHANGED <<threadVars, writerVars, listVars, dataVars, handleOpen, readThread, rpc,
                       chunks, inbox, op, attempts, destroyed>>
    BY DEF NoWriteThread, threadVars
  <2>2. hasty' \in BOOLEAN /\ (hasty' <=> hasty \/ Pending) /\ gpc = "idle" /\ ~destroyed
    BY DEF TypeOK
  <2>3. gpc' \in {"idle", "joinRead", "stopped"} /\ fault' \in Faults /\ usingReadThread' \in BOOLEAN
    BY <2>1, <2>2 DEF StopReader, TypeOK, HandlerTypeOK, GameTypeOK, ReadTypeOK, Faults
  <2>4. GameTypeOK' /\ ReadTypeOK' /\ LiveReaders' = LiveReaders
    BY <2>1, <2>3 DEF TypeOK, HandlerTypeOK, GameTypeOK, ReadTypeOK, LiveReaders, GameSteps
  <2>5. TypeOK'
    BY <2>1, <2>2, <2>4, TypeKept DEF TypeOK
  <2>6. NoWriteThread'
    BY <2>1, <2>3 DEF NoWriteThread, threadVars
  <2>7. ASSUME ~hasty' PROVE Disciplined'
    <3>1. OneKnownReader /\ ~Pending
      BY <2>2, <2>7 DEF Disciplined
    <3>2. readThread = NoThread => LiveReaders = {}
      BY <3>1 DEF OneKnownReader, LiveReaders
    <3>3. OneKnownReader'
      BY <2>1, <2>2, <2>4, <3>1, <3>2 DEF StopReader, OneKnownReader
    <3> QED
      BY <2>1, <2>2, <3>1, <3>3 DEF Disciplined, AttemptAlone, DestroyedAtRest, Pending
  <2> QED
    BY <2>5, <2>6, <2>7
<1>2. CASE JoinReader /\ UNCHANGED clientVars
  <2> USE <1>2 DEF JoinReader, clientVars
  <2>1. UNCHANGED <<threadVars, writerVars, listVars, dataVars, rpc, handleOpen, chunks, inbox,
                    usingReadThread, op, attempts, destroyed, hasty, fault>>
        /\ gpc = "joinRead" /\ gpc' = "stopped" /\ readThread' = NoThread
    OBVIOUS
  <2>2. GameTypeOK' /\ ReadTypeOK' /\ LiveReaders' = LiveReaders
    BY <2>1 DEF TypeOK, HandlerTypeOK, GameTypeOK, ReadTypeOK, LiveReaders, GameSteps
  <2>3. TypeOK'
    BY <2>1, <2>2, TypeKept DEF TypeOK
  <2>4. NoWriteThread'
    BY <2>1 DEF NoWriteThread, threadVars
  <2>5. ASSUME ~hasty' PROVE Disciplined'
    <3>1. LiveReaders = {}
      BY <2>1, <2>5 DEF Disciplined, OneKnownReader, ReaderEnded
    <3> QED
      BY <2>1, <2>2, <2>5, <3>1
         DEF Disciplined, OneKnownReader, AttemptAlone, DestroyedAtRest, Pending
  <2> QED
    BY <2>3, <2>4, <2>5
<1>3. CASE CloseSocket
  <2> USE <1>3 DEF CloseSocket
  <2>1. UNCHANGED <<threadVars, writerVars, listVars, dataVars, readVars, fault, attempts,
                    destroyed, hasty>>
        /\ gpc = "stopped" /\ gpc' = "idle" /\ handleOpen' = FALSE
    BY DEF Threads
  <2>2. op' \in Ops /\ (op = "none" => op' = "none")
    BY DEF Abort, TypeOK, Ops
  <2>3. GameTypeOK' /\ ReadTypeOK' /\ LiveReaders' = LiveReaders
    BY <2>1 DEF TypeOK, HandlerTypeOK, GameTypeOK, ReadTypeOK, LiveReaders, GameSteps, readVars
  <2>4. TypeOK'
    BY <2>1, <2>2, <2>3, TypeKept DEF TypeOK
  <2>5. NoWriteThread'
    BY <2>1 DEF NoWriteThread, threadVars
  <2>6. ASSUME ~hasty' PROVE Disciplined'
    <3>1. LiveReaders = {} /\ op = "none"
      BY <2>1, <2>6 DEF Disciplined, OneKnownReader, AttemptAlone, Pending
    <3> QED
      BY <2>1, <2>2, <2>3, <2>6, <3>1
         DEF Disciplined, OneKnownReader, AttemptAlone, DestroyedAtRest, Pending
  <2> QED
    BY <2>4, <2>5, <2>6
<1> QED
  BY <1>1, <1>2, <1>3 DEF GameContinues

\* The steps of the attempt that move only the attempt: on no deleted client, or the
\* program ends.
LEMMA AttemptMoves ==
  ASSUME IInv, Pending, op' \in Ops \ {"succeed"}, op # "succeed",
         handleOpen' \in BOOLEAN, fault' \in Faults,
         op' \in {"connecting", "connected", "configure", "start"} => handleOpen',
         op' # "none",
         UNCHANGED <<gpc, readVars, threadVars, writerVars, listVars, dataVars, attempts, destroyed,
                     hasty>>
  PROVE  IInv'
<1> USE DEF IInv
<1>1. GameTypeOK' /\ ReadTypeOK' /\ LiveReaders' = LiveReaders
  BY DEF TypeOK, HandlerTypeOK, GameTypeOK, ReadTypeOK, LiveReaders, readVars
<1>2. TypeOK'
  BY <1>1, TypeKept DEF TypeOK
<1>3. NoWriteThread'
  BY DEF NoWriteThread, threadVars
<1>4. ASSUME ~hasty' PROVE Disciplined'
  <2>1. LiveReaders = {} /\ gpc = "idle" /\ ~destroyed
    BY <1>4 DEF Disciplined, AttemptAlone
  <2> QED
    BY <1>1, <1>4, <2>1
       DEF Disciplined, OneKnownReader, AttemptAlone, DestroyedAtRest, Pending
<1> QED
  BY <1>2, <1>3, <1>4

\* A fault changes nothing else.
LEMMA FailIInv == ASSUME IInv, NEW why \in Faults, Fail(why) PROVE IInv'
<1> USE DEF IInv, Fail
<1>1. UNCHANGED <<gpc, handleOpen, readVars, threadVars, writerVars, listVars, dataVars, clientVars>>
  BY DEF Threads
<1>2. GameTypeOK' /\ ReadTypeOK' /\ LiveReaders' = LiveReaders
  BY <1>1 DEF TypeOK, HandlerTypeOK, GameTypeOK, ReadTypeOK, LiveReaders, readVars
<1>3. TypeOK'
  BY <1>1, <1>2, TypeKept DEF TypeOK, clientVars
<1>4. NoWriteThread'
  BY <1>1 DEF NoWriteThread, threadVars
<1>5. ~hasty' => Disciplined'
  BY <1>1, <1>2
     DEF Disciplined, OneKnownReader, AttemptAlone, DestroyedAtRest, Pending, readVars, clientVars
<1> QED
  BY <1>3, <1>4, <1>5

\* The read thread of the attempt is started when there is no other.
LEMMA StartReadingIInv == ASSUME IInv, StartReading PROVE IInv'
<1> USE DEF IInv, StartReading, Handle
<1>1. CASE destroyed /\ Fail("badPointer")
  BY <1>1, FailIInv DEF Faults
<1>2. CASE /\ gpc # "joinRead" /\ StartThreads /\ op' = "succeed"
           /\ UNCHANGED <<gameVars, handleOpen>> /\ UNCHANGED <<attempts, destroyed, hasty>>
  <2>1. UNCHANGED <<threadVars, writerVars, listVars, dataVars>>
    BY <1>2, StartThreadsKeeps
  <2>2. GameTypeOK' /\ ReadTypeOK'
    BY <1>2, StartThreadsKeeps DEF TypeOK, HandlerTypeOK, GameTypeOK, ReadTypeOK, gameVars
  <2>3. TypeOK'
    BY <1>2, <2>1, <2>2, TypeKept DEF TypeOK, Ops
  <2>4. NoWriteThread'
    BY <1>2, <2>1 DEF NoWriteThread, threadVars, gameVars
  <2>5. ASSUME ~hasty' PROVE Disciplined'
    <3>1. LiveReaders = {} /\ gpc = "idle" /\ ~destroyed /\ handleOpen
      BY <1>2, <2>5 DEF Disciplined, AttemptAlone, Pending
    <3>2. LiveReaders' = {readThread'} /\ usingReadThread'
      BY <1>2, <3>1, StartThreadsKeeps
    <3> QED
      BY <1>2, <3>1, <3>2
         DEF Disciplined, OneKnownReader, AttemptAlone, DestroyedAtRest, Pending, gameVars
  <2> QED
    BY <2>3, <2>4, <2>5
<1> QED
  BY <1>1, <1>2

\* The answer ends the attempt; Arma's buffer had room.
LEMMA AnswerIInv == ASSUME IInv, Answer PROVE IInv'
<1> USE DEF IInv, Answer
<1>1. UNCHANGED <<threadVars, writerVars, listVars, dataVars, gpc, fault, handleOpen,
                  usingReadThread, readThread, rpc, chunks, attempts, destroyed, hasty>>
  BY DEF gameVars
<1>2. inbox' \in 0..ArmaCap
  BY DEF Accepted, TypeOK, HandlerTypeOK, ReadTypeOK
<1>3. GameTypeOK' /\ ReadTypeOK' /\ LiveReaders' = LiveReaders
  BY <1>1, <1>2 DEF TypeOK, HandlerTypeOK, GameTypeOK, ReadTypeOK, LiveReaders
<1>4. TypeOK'
  BY <1>1, <1>3, TypeKept DEF TypeOK, Ops
<1>5. NoWriteThread'
  BY <1>1 DEF NoWriteThread, threadVars
<1>6. ~hasty' => Disciplined'
  BY <1>1, <1>3 DEF Disciplined, OneKnownReader, AttemptAlone, DestroyedAtRest, Pending
<1> QED
  BY <1>4, <1>5, <1>6

\* The attempt, from the completion of its connect on.
LEMMA HandlerIInv == ASSUME IInv, Complete \/ Handler PROVE IInv'
<1> USE DEF IInv
<1>1. CASE Complete
  <2>1. UNCHANGED <<gpc, fault, readVars, threadVars, writerVars, listVars, dataVars, attempts,
                    destroyed, hasty>> /\ op = "connecting"
    BY <1>1 DEF Complete, gameVars, Threads
  <2>2. CASE ~hasty
    <3>1. handleOpen /\ Pending
      BY <2>1, <2>2 DEF Disciplined, AttemptAlone, Pending
    <3>2. op' \in {"connected", "error"} /\ handleOpen' \in BOOLEAN /\ fault' \in Faults
      BY <1>1, <2>1 DEF Complete, TypeOK, HandlerTypeOK, GameTypeOK
    <3>3. op' = "connected" => handleOpen'
      BY <1>1, <3>1 DEF Complete
    <3> QED
      BY <2>1, <3>1, <3>2, <3>3, AttemptMoves DEF Ops
  <2>3. CASE hasty
    <3>1. handleOpen' \in BOOLEAN /\ op' \in Ops
      BY <1>1 DEF Complete, Ops, TypeOK, HandlerTypeOK, GameTypeOK
    <3>2. GameTypeOK' /\ ReadTypeOK'
      BY <2>1, <3>1 DEF TypeOK, HandlerTypeOK, GameTypeOK, ReadTypeOK, readVars
    <3>3. TypeOK'
      BY <2>1, <3>1, <3>2, TypeKept DEF TypeOK
    <3>4. NoWriteThread'
      BY <2>1 DEF NoWriteThread, threadVars
    <3> QED
      BY <2>1, <2>3, <3>3, <3>4
  <2> QED
    BY <2>2, <2>3
<1>2. CASE TestResult \/ SetTimeout
  <2>1. CASE destroyed /\ Fail("badPointer")
    BY <2>1, FailIInv DEF Faults
  <2>2. CASE Fail("exception")
    BY <2>2, FailIInv DEF Faults
  <2>3. CASE /\ op \in {"connected", "error", "configure"} /\ op' \in {"configure", "start", "fail"}
             /\ op' # "fail" => handleOpen
             /\ UNCHANGED <<rwhVars, attempts, destroyed, hasty>>
    <3>1. UNCHANGED <<gpc, fault, handleOpen, readVars, threadVars, writerVars, listVars, dataVars>>
      BY <2>3 DEF rwhVars, gameVars
    <3> QED
      BY <2>3, <3>1, AttemptMoves DEF Pending, Ops, TypeOK, HandlerTypeOK, GameTypeOK
  <2> QED
    BY <1>2, <2>1, <2>2, <2>3 DEF TestResult, SetTimeout, Handle, Tested
<1> QED
  BY <1>1, <1>2, StartReadingIInv, AnswerIInv DEF Handler

\* A read thread ends only when it was told to.
LEMMA ReaderIInv == ASSUME IInv, NEW r \in Readers, ReadThread(r) PROVE IInv'
<1> USE DEF IInv, ReadThread, ReaderStep
<1>1. UNCHANGED <<threadVars, writerVars, listVars, dataVars, gpc, fault, handleOpen,
                  usingReadThread, readThread, clientVars>>
  BY DEF ReadPass, SendChunk, CheckExit, gameVars
<1>2. rpc \in [Readers -> ReadSteps] /\ rpc[r] # "gone"
  BY DEF ReadPass, SendChunk, CheckExit, TypeOK, HandlerTypeOK, ReadTypeOK
<1>3. PICK s \in ReadSteps : rpc' = [rpc EXCEPT ![r] = s] /\ (s = "gone" => ~usingReadThread)
  BY DEF ReadPass, SendChunk, CheckExit, ReadSteps, StopRequested
<1>4. rpc' \in [Readers -> ReadSteps] /\ LiveReaders' \subseteq LiveReaders
  BY <1>2, <1>3 DEF LiveReaders
<1>5. usingReadThread => LiveReaders' = LiveReaders
  BY <1>2, <1>3 DEF LiveReaders
<1>6. chunks' \in 0..MaxChunks /\ inbox' \in 0..ArmaCap
  BY DEF ReadPass, SendChunk, CheckExit, Accepted, TypeOK, HandlerTypeOK, ReadTypeOK
<1>7. GameTypeOK' /\ ReadTypeOK'
  BY <1>1, <1>4, <1>6 DEF TypeOK, HandlerTypeOK, GameTypeOK, ReadTypeOK
<1>8. TypeOK'
  BY <1>1, <1>7, TypeKept DEF TypeOK, clientVars
<1>9. NoWriteThread'
  BY <1>1 DEF NoWriteThread, threadVars
<1>10. ASSUME ~hasty' PROVE Disciplined'
  <2>1. Disciplined
    BY <1>1, <1>10 DEF clientVars
  <2>2. OneKnownReader' /\ DestroyedAtRest'
    BY <1>1, <1>4, <2>1 DEF Disciplined, OneKnownReader, DestroyedAtRest, Pending, clientVars
  <2>3. AttemptAlone'
    <3>1. op = "succeed" => usingReadThread
      BY <2>1 DEF Disciplined, OneKnownReader, AttemptAlone, Pending
    <3> QED
      BY <1>1, <1>4, <1>5, <2>1, <3>1 DEF Disciplined, AttemptAlone, Pending, clientVars
  <2> QED
    BY <2>2, <2>3 DEF Disciplined
<1> QED
  BY <1>8, <1>9, <1>10

\* The game takes an entry out of its buffer.
LEMMA ReceiveIInv == ASSUME IInv, Receive \/ UNCHANGED vars PROVE IInv'
<1> USE DEF IInv
<1>1. UNCHANGED <<threadVars, writerVars, listVars, dataVars, gpc, fault, handleOpen,
                  usingReadThread, readThread, rpc, chunks, clientVars>>
  BY DEF Receive, HandleCallback, vars, rwhVars, gameVars, readVars
<1>2. inbox' \in 0..ArmaCap
  BY DEF Receive, HandleCallback, vars, rwhVars, readVars, TypeOK, HandlerTypeOK, ReadTypeOK
<1>3. GameTypeOK' /\ ReadTypeOK' /\ LiveReaders' = LiveReaders
  BY <1>1, <1>2 DEF TypeOK, HandlerTypeOK, GameTypeOK, ReadTypeOK, LiveReaders
<1>4. TypeOK'
  BY <1>1, <1>3, TypeKept DEF TypeOK, clientVars
<1>5. NoWriteThread'
  BY <1>1 DEF NoWriteThread, threadVars
<1>6. ~hasty' => Disciplined'
  BY <1>1, <1>3 DEF Disciplined, OneKnownReader, AttemptAlone, DestroyedAtRest, Pending, clientVars
<1> QED
  BY <1>4, <1>5, <1>6

\* The invariant is inductive.
THEOREM Inductive == Spec => []IInv
<1>1. Init => IInv
  BY InitIInv
<1>2. IInv /\ [Next]_vars => IInv'
  <2> SUFFICES ASSUME IInv, [Next]_vars PROVE IInv'
    OBVIOUS
  <2>1. CASE Undefined
    BY <2>1, FailIInv DEF Undefined, Faults
  <2> QED
    BY <2>1, ConnectIInv, BeginOrDestroyIInv, DisconnectIInv, HandlerIInv, ReaderIInv, ReceiveIInv
       DEF Next
<1> QED
  BY <1>1, <1>2, PTL DEF Spec

\* The types declared in TcpClient hold in every reachable state.
THEOREM TypeCorrect == Spec => []TypeOK
<1>1. IInv => TypeOK
  BY DEF IInv
<1> QED
  BY <1>1, Inductive, PTL

\* As long as no script was hasty, one read thread at most uses the socket, and only
\* while it is open.
THEOREM OneReader == Spec => []OneReaderWhileOpen
<1>1. IInv => OneReaderWhileOpen
  BY DEF IInv, Disciplined, OneKnownReader, OneReaderWhileOpen, AtMostOneReader
<1> QED
  BY <1>1, Inductive, PTL

\* As long as no script was hasty, a client is deleted when nothing can use it any more.
THEOREM DestroySafe == Spec => []NothingAfterDestroy
<1>1. IInv => NothingAfterDestroy
  BY DEF IInv, Disciplined, OneKnownReader, DestroyedAtRest, NothingAfterDestroy
<1> QED
  BY <1>1, Inductive, PTL

\* As long as no script was hasty, success means that the client reads.
THEOREM SuccessReads == Spec => []SuccessIsReading
<1>1. IInv => SuccessIsReading
  BY DEF IInv, Disciplined, AttemptAlone, SuccessIsReading, Pending
<1> QED
  BY <1>1, Inductive, PTL
=============================================================================
