--------------------------------- MODULE TcpClient ---------------------------------
(***************************************************************************)
(* A TCP client (tcpClient.cpp): its commands on the game thread, the      *)
(* handler of connectAsync on the io thread, and the read thread of its    *)
(* ReadWriteHandler.  It has no write thread: write sends at once and      *)
(* changes nothing here.                                                   *)
(*                                                                         *)
(* Name resolution and sockets are external.  A connect, synchronous or    *)
(* not, closes the socket and opens it again for each endpoint it tries,   *)
(* and may leave it open when all fail.  Closing the socket aborts an      *)
(* attempt that has not completed.  A read times out after 200 ms.         *)
(***************************************************************************)
EXTENDS ReadWriteHandler

CONSTANT
  MaxAttempts    \* bound: connect and connectAsync commands

ASSUME ClientAssumption == MaxAttempts \in Nat

VARIABLES
  op,          \* the asynchronous attempt: waiting, due, or where its handler is
  attempts,
  destroyed,   \* the instance was deleted
  hasty        \* history: a script has connected a client that was not closed, or has
               \* called connect, disconnect or destroy before connectAsync answered

clientVars == <<op, attempts, destroyed, hasty>>
vars == <<rwhVars, clientVars>>

Ops == {"none", "connecting", "connected", "error", "configure", "start", "succeed", "fail"}

TypeOK ==
  /\ HandlerTypeOK
  /\ op \in Ops /\ attempts \in 0..MaxAttempts /\ destroyed \in BOOLEAN /\ hasty \in BOOLEAN

Init == HandlerInit /\ op = "none" /\ attempts = 0 /\ destroyed = FALSE /\ hasty = FALSE

Pending == op # "none"
Threads == <<readVars, threadVars, writerVars, listVars, dataVars>>

\* A command begins; haste is what its documentation does not expect.
Command(haste) == Idle /\ ~destroyed /\ hasty' = (hasty \/ haste)

Attempt ==
  /\ Command(handleOpen \/ Pending)
  /\ attempts < MaxAttempts /\ attempts' = attempts + 1

-----------------------------------------------------------------------------
(* Commands *)

\* What closing the socket does to a waiting attempt.
Abort == op' = IF op = "connecting" THEN "error" ELSE op

\* The name does not resolve; no endpoint accepts; or one does.
Connect ==
  /\ Attempt
  /\ \/ UNCHANGED <<handleOpen, op, Threads>>
     \/ Abort /\ handleOpen' \in BOOLEAN /\ UNCHANGED Threads
     \/ Abort /\ handleOpen' = TRUE /\ StartThreads
  /\ UNCHANGED <<gameVars, destroyed>>

\* The socket is open from the start of the attempt.  One attempt at a time.
ConnectAsync ==
  /\ Attempt /\ op = "none"
  /\ op' = "connecting" /\ handleOpen' = TRUE
  /\ UNCHANGED <<gameVars, Threads, destroyed>>

Disconnect == Command(Pending) /\ StopThreads /\ UNCHANGED <<op, attempts, destroyed>>

CloseSocket ==
  /\ Running /\ gpc = "stopped"
  /\ handleOpen' = FALSE /\ Abort /\ gpc' = "idle"
  /\ UNCHANGED <<fault, Threads, attempts, destroyed, hasty>>

\* MUTANT of MayDestroy: the socket is not looked at.
MayDestroyAlways == TRUE

MayDestroy == ~handleOpen

Destroy ==
  /\ Command(Pending) /\ MayDestroy
  /\ destroyed' = TRUE
  /\ UNCHANGED <<rwhVars, op, attempts>>

-----------------------------------------------------------------------------
(* The asynchronous attempt, on the io thread *)

Complete ==
  /\ Running /\ op = "connecting"
  /\ \/ op' = "connected" /\ UNCHANGED handleOpen
     \/ op' = "error" /\ handleOpen' \in BOOLEAN
  /\ UNCHANGED <<gameVars, Threads, attempts, destroyed, hasty>>

Fail(why) == fault' = why /\ UNCHANGED <<gpc, handleOpen, Threads, clientVars>>

\* A step of the handler, which finds the client deleted or goes on.
Handle(at, step) ==
  /\ Running /\ op \in at
  /\ \/ destroyed /\ Fail("badPointer")
     \/ ~destroyed /\ step /\ UNCHANGED <<attempts, destroyed, hasty>>

Tested == op # "error" /\ handleOpen

TestResult ==
  Handle({"connected", "error"},
         op' = (IF Tested THEN "configure" ELSE "fail") /\ UNCHANGED rwhVars)

\* set_option throws on a closed socket, and nothing catches it.
SetTimeout ==
  Handle({"configure"},
         \/ handleOpen /\ op' = "start" /\ UNCHANGED rwhVars
         \/ ~handleOpen /\ Fail("exception"))

\* MUTANT of StartReading: startThreads is left to connect.
StartReadingForgotten ==
  Handle({"start"}, gpc # "joinRead" /\ op' = "succeed" /\ UNCHANGED rwhVars)

\* stopThreads holds readThreadMutex while it joins.
StartReading ==
  Handle({"start"},
         gpc # "joinRead" /\ StartThreads /\ op' = "succeed" /\ UNCHANGED <<gameVars, handleOpen>>)

\* MUTANT of Answer: the failure is not reported.
AnswerSuccess ==
  /\ Running /\ op = "succeed" /\ Accepted
  /\ inbox' = inbox + 1 /\ op' = "none"
  /\ UNCHANGED <<gameVars, handleOpen, usingReadThread, readThread, rpc, chunks, threadVars,
                 writerVars, listVars, dataVars, attempts, destroyed, hasty>>

\* The id was copied when the callback was called.
Answer ==
  /\ Running /\ op \in {"succeed", "fail"} /\ Accepted
  /\ inbox' = inbox + 1 /\ op' = "none"
  /\ UNCHANGED <<gameVars, handleOpen, usingReadThread, readThread, rpc, chunks, threadVars,
                 writerVars, listVars, dataVars, attempts, destroyed, hasty>>

-----------------------------------------------------------------------------
(* The specification *)

GameContinues == (JoinReader /\ UNCHANGED clientVars) \/ CloseSocket
Handler       == TestResult \/ SetTimeout \/ StartReading \/ Answer
Receive       == HandleCallback /\ UNCHANGED clientVars
ReadThread(r) == ~destroyed /\ ReaderStep(r) /\ UNCHANGED clientVars

\* A read thread goes on after its client was deleted.
Undefined == destroyed /\ Running /\ LiveReaders # {} /\ Fail("badPointer")

Next ==
  \/ Connect \/ ConnectAsync \/ Disconnect \/ Destroy
  \/ GameContinues \/ Complete \/ Handler \/ Receive \/ Undefined
  \/ \E r \in Readers : ReadThread(r)

Spec == Init /\ [][Next]_vars

\* Threads are scheduled, a command that began goes on, and an attempt to connect times
\* out at the latest.  The game handles its callback buffer once a frame, however many
\* commands the scripts run in between.
FairSpec ==
  /\ Spec
  /\ WF_vars(GameContinues) /\ SF_vars(Receive) /\ WF_vars(Complete) /\ WF_vars(Handler)
  /\ \A r \in Readers : WF_vars(ReadThread(r))

-----------------------------------------------------------------------------
(* Properties *)

\* Two read threads would take turns at the characters of one connection, and neither
\* would have "all data up to" a delimiter to send.  Threads are started on two threads
\* of the program, and stopped on one.
AtMostOneReader == \A q, r \in LiveReaders : q = r

\* As long as no script was hasty there is one at most, and it uses the socket only
\* while it is open.
OneReaderWhileOpen == ~hasty => AtMostOneReader /\ (LiveReaders # {} => handleOpen)

\* As long as no script was hasty, nothing is left that could use the client when it
\* is deleted.
NothingAfterDestroy == ~hasty /\ destroyed => LiveReaders = {} /\ ~Pending /\ gpc = "idle"

\* As long as no script was hasty, an attempt answers with success only when its read
\* thread runs on an open socket.
SuccessIsReading == ~hasty /\ op = "succeed" => handleOpen /\ LiveReaders # {}

\* connectAsync answers, unless a command of the game thread waits for a read thread
\* that waits for room in Arma's buffer.
Hung          == gpc = "joinRead" /\ ~Accepted
AsyncAnswered == Pending ~> (~Pending \/ ~Running \/ Hung)

-----------------------------------------------------------------------------
(* Statements of the documentation that the code does not keep *)

\* disconnect: "any queued asynchronous operations will be canceled": no attempt
\* starts to read after it, on the closed socket.
CanceledDoesNotRead == [][op = "start" /\ op' = "succeed" => handleOpen]_vars

\* And the first attempt can be canceled at all.
FirstAttemptCanceled == ~(fault = "nullJoin" /\ op # "none")

\* connectAsync: "on success or failure, the extension will call the callback".
HandlerNeverThrows == fault # "exception"

\* destroy refuses while "operations are pending".
HandlerFindsClient == ~(fault = "badPointer" /\ op # "none")
=============================================================================
