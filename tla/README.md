# A TLA+ model of ArmaCOM

ArmaCOM is a C++ extension for the game Arma 3. Scripts (SQF) call it to create *communication
methods* (a serial port, a TCP client, a TCP server with its connections), to open and close them and
to write to them; what arrives is handed back to the scripts through a callback of the game. This
directory models the extension in TLA+, component by component, checks the models with TLC and proves
their safety properties with TLAPS. File and line references are to `src/`.

## 1. The system

### Threads

| thread | runs | started by | ended by |
|---|---|---|---|
| game thread | one command at a time, `RVExtensionArgs` (dllmain.cpp:40) | Arma | - |
| read thread, one per open connection | `readThreadFunction` (ReadWriteHandler.h:154) | `startThreads` | `stopThreads` (join) |
| write thread, at most one intended per serial port | `writeThreadFunction` (ReadWriteHandler.h:257) | `startThreads`, `enableWriteThread` | `stopThreads` (join) |
| io thread, one for all TCP instances | `ioContext.run()` (boost_util.cpp:20) | first TCP instance | last TCP instance |

Arma runs the scripts, the commands and the handlers of callback entries on the game thread. The
function pointer `callback` may be called from any thread; it puts an entry into a buffer of 100 and
returns -1 when the buffer is full. The game empties the buffer between commands. This side is
external: it is modelled from how the code uses it (ReadWriteHandler.h:158-186).

### Components

| component | source | state | operations | what makes it correct |
|---|---|---|---|---|
| ReadWriteHandler | ReadWriteHandler.h | thread pointers and flags, list head and tail, options | write, startThreads, stopThreads, enableWriteThread, the two thread functions | one consumer of the list; order; flush at disconnect; threads end before the handle does; commands return |
| BufferedWrite | BufferedWrite.h | `next`, `nextLock`, `cond`, data | allocation, append, delete | a deleted node is not used |
| chunking and options | ReadWriteHandler.h:188-255, util.h:52 | options, `line`, `charsRead`, copies of the options | callbackOnChar, callbackOnCharCode, callbackOnLength, one pass of the loop | chunks are what the options ask for; no character is lost |
| callback string ring | ReadWriteHandler.h:158-187 | 101 string pointers, an index | send | a string lives as long as the game may read it |
| serial port connection | serial.cpp:30-161 | the handle | connect, disconnect, write, enableThreadedWrites | handle and threads come and go together |
| serial settings, listings | serial.cpp:49-86, 163-365, 1077-1207 | 23 DCB fields | setters, getters, lists | stored value and device agree, reply says which |
| TCP client | tcpClient.cpp | socket, handler, map by port | create, connect, connectAsync, write, disconnect, destroy | one read thread per open socket; no completion after destroy |
| TCP server, connections | tcpServer.cpp | acceptor, shouldListen, list of connections, map by port | create, listen, stopListening, disconnectAll, removeConnection, destroy, accept handler | list and registry agree; nothing survives destroy |
| IO context | boost_util.cpp | user count, running flag, work, thread | needIOContext, doneWithIOContext, io thread | an io thread runs while there is a user |
| entry points, registry | dllmain.cpp | `commMethods` | dispatch, destroy | commands reach live instances only |
| utilities | util.cpp | - | ArmaArray (unused by the program), UUIDs, replies, `callbackSuccessArr` | - |
| tests, documentation generator | ArmaCOMTests/, DocumentationGenerator/ | - | - | C#, outside the extension |

### How they interact

A serial port, a TCP client and a TCP server connection each own one `ReadWriteHandler` and give it a
pointer to their handle and two functions that read a character and write a string. The game thread
calls into the handler, and the handler's threads run beside it. They share the flags (atomics), the
linked list (an atomic `next` and a lock per node; `toWrite` and `lastWrite` are plain pointers, each
meant for one side), the options (under a mutex, but for two reads) and the handle (unprotected: it
is stable because threads are joined before it is closed). Read threads meet the game again in the
callback buffer. TCP instances add the io thread, which runs accept and connect completions, starts
read threads, inserts into the registry and calls the callback itself.

### What is hard here

Use of list nodes after an unlock; two places that start a write thread and one that stops it; a
drain loop that runs at every disconnect; a restarted thread that begins at a node already written; a
join on the thread that can empty the buffer another thread waits for; options read once under a mutex
and twice without; cutting by index arithmetic on unsigned numbers; a ring that must outlast a buffer
it cannot see. `PROJECT.json` lists each hazard with its line and the properties about it.

## 2. Modules

| module | models | actions and the code they stand for |
|---|---|---|
| `ReadWriteHandler` | threads, list and flags of ReadWriteHandler.h, nodes of BufferedWrite.h | `QueueWrite`, `NotifyTail`, `MoveTail` (write, 75-81); `DirectWrite` (83-93); `StartThreads` (95-109); `EnableWriteThread` (133-143); `StopThreads`, `JoinWriter`, `JoinReader` (298-313); `WriteHead` ... `FreePrev` (257-297); `ReadPass`, `SendChunk`, `CheckExit` (188-255) |
| `SerialPort` | one serial port instance: its commands composed with the handler | `Connect`, `Disconnect`/`ClosePort`, `EnableThreadedWrites`, `Write` (serial.cpp:91-161), `Destroy` (dllmain.cpp:70-96), `UseAfterDestroy` (a thread left behind by it) |
| `Outbox` | what the write side promises until scripts void it: messages leave in order, repeated only after a restart | abstract; `SerialPort` implements it |
| `SerialSettings` | the 23 settings: members, device, replies | `SetIndexed`, `SetFlag`, `SetControl`, `SetLimit`, `SetChar`, `Refuse` (setters and their commands), `SetParams` (49-86), `Connect`, `Disconnect` |
| `ReadThread` | the read loop's chunking against commands that change the options | `TakeOptions` (189-234), `ReadOneChar` (236-241), `TestChar` (242-253), `TestLength` (246-253), the commands |
| `CallbackRing` | the strings of several read threads and of the io thread in Arma's buffer | `StoreString` (175-178), `OfferString` (181-186), `MakeLocal`, `OfferLocal` (util.cpp:72-82), `HandleCallback` (the game) |
| `IOContext` | the io thread and its users | `Need`, `SetRunning` (boost_util.cpp, needIOContext), `Done` (doneWithIOContext), `RunReturns`, `ClearRunning` (the thread); `Submit`, `Dispatch` (handlers) |
| `TcpServer` | a server, its accept handler and its connections | `Listen`, `StopListening`, `DisconnectAll` and `NextOfAll`, `RemoveOfAll`, `EndOfAll` (107-169); `DestroyServer` (176-186); `DisconnectConnection`, `JoinReader` (236-248); `DestroyConnection` (397-403); `FailedAccept`, `Report`, `Construct`, `SetConnected`, `Push`, `Name`, `Announce`, `Relisten`, `AsyncAccept` (84-100, 210-225) |
| `Lifecycle` | what scripts are promised about connections: clients are let in until the server stops listening, and each connection is listed, announced once and deleted once, in the latter two orders | abstract; `TcpServer` implements it |
| `TcpClient` | a client composed with `ReadWriteHandler` | `Connect`, `ConnectAsync`, `Disconnect`/`CloseSocket`, `Destroy`; `TestResult`, `SetTimeout`, `StartReading`, `Answer` (the handler, tcpClient.cpp:131-145) |
| `Registry` | instances, `commMethods` and the three maps by port | `CreateSerial`, `CreateClient`, `CreateServer`, `Dispatch`, `Destroy` |
| `MCSerialPort`, `MCSerialSettings` | sets for model checking | - |
| `...Proofs` | the theorems about the module they are named after | - |

Operators marked `MUTANT of X` are deliberately wrong variants of `X`; no specification uses them. Each
shows that a checked property would notice that mistake.

A step is as much of a thread's code as runs without another thread being able to see or disturb it.

### ReadWriteHandler and SerialPort

* `gpc` is the position of the game thread inside a command. `write` has three steps (append under the
  lock, notify, move the tail), because the write thread can act in between; `disconnect` stops at
  each join.
* `wpc`, `rpc` are the positions of the threads. `held[t]` is the node whose `nextLock` the write
  thread took last; it holds that lock at `test`, `drain` and `drainWrite`, and `wait_for` gives it up.
  The drain loop deletes that node and holds its lock on: `drainWrite` touches it as well.
  The game thread's own critical section is one step, so it needs no variable.
* Nodes are numbers, node `m` holds the `m`-th message, node 0 is the constructor's dummy. `freed` is
  the set of deleted nodes. Reading a deleted node still finds its last contents, as freed memory may;
  the alternative outcome is the step `BadAccess`, which ends the behaviour with
  `fault = "badPointer"`. Joining a null thread ends it with `"nullJoin"`.
* `written` is what reached an open handle. A write fails only when the handle is closed; partial
  writes and write timeouts of the device are not modelled: the code does not look at how much was
  written (264), so nothing depends on it.
* A `wait_for` returns on a notification, at its timeout or spuriously: one action, `Wake`. The code
  tests `usingWriteThread` right after it and `next` again only afterwards.
* `usingReadThread` starts as TRUE, as in the code (line 21), before any read thread exists.
* `Connect` may open the handle and start no thread: `setParams` or `SetCommTimeouts` failed
  (serial.cpp:113-127).
* A new thread gets an identity no live thread has. Two identities for write threads are enough to
  see two live at once.
* `enableThreadedWrites` is accepted on a closed port (serial.cpp:149-154) and starts the thread at once.
  `earlies` counts such commands, `early` is the set of threads they started; both are history.
  The handle a thread uses is a member of the instance: a write after `destroy` is the step
  `UseAfterDestroy`. The handler itself is not deleted.

### ReadThread and CallbackRing

`ReadThread` models the union of `ReadCallbackOptions` by its int: `onChar` is the low byte, storing a
character leaves the other bytes as they were, and these are arbitrary at first since the constructor
sets only the character. The two unlocked reads of the type are steps of their own. The thread is not
stopped in this module (a stopped thread drops its unfinished line, line 254), and the string of a chunk
goes to `sent` at once: waiting for the callback is the subject of `SerialPort` and `CallbackRing`.

In `CallbackRing` the strings of the io thread are local to the function that calls back: they exist
until the callback accepts them. They share the buffer with the strings of the rings.

### SerialSettings

`stored` holds the members, `device` what the device was given, `asked` the integers the scripts passed.
A setter stores first and then hands the whole record over, which the device may refuse without effect
on the reply. Integers are narrowed as C++ does: to a WORD (mod 2^16) and to a char (mod 2^8, read back
signed). `Fields` limits which settings a run changes; the theorems are for all of them. `setFParity`
replies in plain text to a bad argument (serial.cpp:654), here FAILURE like the others. While the port is
closed its device is `Unknown`.

### IOContext

Both functions hold `ioContextMutex`; only `needIOContext` has two steps under it, because the thread it
creates may run before the flag is set. The io thread clears `ioContextRunning` without the mutex, in a
step of its own after `run()` returned. `emptied` remembers that the last user has left once: from then
on the context is stopped for good, which finding 3 is about.

### TcpServer

* The accept handler stops wherever the game thread can come between: after the read thread was
  started, after the flag `connected` was set, after the connection was listed, before the
  announcement, before it tests `shouldListen` again, and between that test and `async_accept`, which
  fails if the acceptor was closed in between. `connected` has an arbitrary value until the constructor
  sets it.
* `fault` tells who used a deleted object: a handler the `server` or a `connection`, or a `command`
  either. `hasty` remembers that the server was destroyed with an accept due or in its handler.
* `accepts`, `ready` and `failed` are accepts waiting, due with a socket, due with an error;
  `reported` counts failures told to the scripts.
* `todo` is the copy `disconnectAll` works on; `target` the connection it disconnects.
* `known` is what scripts can act on. They learn ids from callbacks only: `new_tcp_connection`, or
  `data_read` when `WaitForAnnouncement` is FALSE.
* `disconnect` closes the socket and destroys its object before it joins the thread (tcpServer.cpp:244).
  A read from the destroyed socket behaves as a failed read. Closing is assumed to succeed; the error
  path at line 240 is not modelled.
* Other TCP instances keep the io thread running; when they do not is the subject of `IOContext`.
* The accesses of the two threads to `commMethods` (214) are atomic here. They are a data race in the
  code; what two unordered accesses to one `std::map` do has no bounded set of outcomes.

### TcpClient

The variables of `ReadWriteHandler` are reused with no write thread (`Writers = {}`). `op` is where the
asynchronous attempt is; one at a time. A connect closes the socket and opens it again for each endpoint,
so it may leave it open when it fails, and it aborts a waiting attempt. `hasty` remembers that a script
connected a client that was not closed, or called connect, disconnect or destroy before connectAsync
answered. `tcpClients` (in `Registry`) is written and never read by the program.

### Registry

An instance is `live` until deleted and `open` while `isConnected` answers true. `create` of a server
may throw out of its constructor, after needIOContext. `ICommunicationMethod` has no virtual destructor
(util.h:16), so the members of a deleted instance are not released; nothing in the model depends on it.

## 3. Runs

Every configuration is checked with `tlc -config <cfg> <module>`.

| run | configuration | bounds | shows |
|---|---|---|---|
| `serial` | MCSerialPort.cfg | 2 write identities, 1 read identity, 2 messages, 2 chunks, buffer of 1, 3 openings; 1 enabling on the closed port, with 1 opening | for all scripts: a second writer, or one that outlives the handle, was enabled on the closed port. While none was: flush, head and tail allocated, refinement of `Outbox`; commands return, queued messages are written |
| `callback_ring` | MCCallbackRing.cfg | 2 senders and the io thread, ring of 4, buffer of 3, 8 strings each, 3 of the io thread | strings of the rings live, order |
| `read_thread` | MCReadThread.cfg | 3 characters, 2 of them delimiters, lengths 1-3, 5 characters of input, 2 option changes | cutting, conservation, delimiters |
| `settings` | MCSerialSettings.cfg | one setting of each kind, inputs at and beyond the ends of the tables and types | device and members agree; values read back |
| `io_context` | MCIOContext.cfg | 3 instances, 3 threads, any number of rounds | one dispatcher, one while there is a user, handlers run |
| `tcp_server` | MCTcpServer.cfg | 3 connections, 1 listen, 1 chunk each, buffer of 2 | list, registry and users agree, deleted objects are used in two windows only, accepts go on, refinement of `Lifecycle`, each connection is announced |
| `tcp_client` | MCTcpClient.cfg | 3 read threads, 3 attempts, 2 chunks, buffer of 1 | one reader, only while open; nothing left at destroy; success reads; every attempt answers |
| `registry` | MCRegistry.cfg | 3 instances, 2 ports | registry and live instances agree, one serial port per name |
| `double_write`, `tail_use`, `io_context_restart`, `tcp_client_cancel` | see the findings | smallest instance that shows it | a violation each |

**Scripts.** The commands are accepted in any order the code accepts. Where the code goes wrong for some
order, the property is stated as far as it holds, the exception is a history variable or a constant of
the module, never a change of the code's guards, and a configuration under Further disagreements shows it:

* `earlies`, `early` (SerialPort). `enableThreadedWrites` "may be called before the serial port is
  connected" (serial.cpp:149, serial.h:81), and UnitTests.cs:266-267 does so. Connecting then starts a second
  write thread. `TypeOK`, `StraysAreEarly` and `ThreadsEndWithPort` hold for all scripts, and say that
  this order is the only cause of a second consumer or of a thread left at work. The other properties hold as
  long as it did not occur (`EnabledOpen`).
  The run explores the order with one opening (`EarlyBound`); MCSerialPortEarly.cfg, which passes as well,
  checks the three properties with three write threads, two early commands and three openings.
* `WaitForAnnouncement` (TcpServer). Scripts learn of a connection from `new_tcp_connection`, and act on
  it from then on. Without it, see MCTcpServerData.cfg. It restricts nothing else: `stopListening`,
  `disconnectAll` and `destroy` come at any moment of a handler. Scripts could not wait for one to end: an
  aborted accept reports nothing (tcpServer.cpp:88), and UnitTests.cs:753-756 does not wait. `ChainsKept`,
  `ReadersLive` and `UsersMatch` are proved without it.
* `hasty` (TcpClient): properties say what holds as long as no script was. `AsyncAnswered` holds for all
  scripts.

**Why the bounds are enough.** Two messages put one behind the head and one at the tail; three openings
cover a port reopened after threaded writes were used, and reopened again after a restart wrote a
message twice. A callback buffer of one entry is full after one chunk, so the retry loop of `send` is
reached with two. Eight strings let each ring of four come round twice. Two option changes are one change
and a change back; five characters leave a remainder after two chunks of length two. Three connections
let `removeConnection` move a last element that is neither the removed one nor its neighbour, while
`disconnectAll` works on its copy and a further client connects. One listen command is enough for the
run because `ChainsKept` is proved for any number. Three attempts of a client are one that is aborted,
one that aborts it, and one after that. Three instances of the io context let one join while another
leaves and a third makes the last one; the theorems are for any number.

**Deadlock** is not checked where the program stops for good: everything was destroyed, undefined
behaviour was met, senders have sent all their strings, or clients never come.

**Fairness.** Weak fairness of each thread: `std::thread`s are scheduled by the operating system,
`wait_for` returns after a second at the latest, and reads of a serial port after some milliseconds
(serial.cpp:117-120), of a socket after 200 ms. Weak fairness of the steps inside a command: the game
thread runs a command it began. Weak fairness of `HandleCallback`: the game handles callback entries
between commands; in `TcpClient` strong fairness, because scripts may call commands without end there,
and the game handles its buffer once a frame however many commands run in between. Weak fairness of
`Complete` of TcpClient: an attempt to connect times out at the latest. Weak fairness of `Dispatch` of
each instance: the queue of an `io_context` is first-in first-out. No fairness of any command and of no
client: nobody need act. `Announced` and `AsyncAnswered` leave out a game thread that joins a read thread
while Arma's buffer is full (`Hung`), which is a deadlock of the code: MCSerialPortHang.cfg shows it for a
serial port.

### Properties that hold

SerialPort, for all scripts: `StraysAreEarly`, every live write thread is the one `stopThreads` joins, or
was enabled on the closed port; `ThreadsEndWithPort`, once the port is closed only threads of that kind can be
left, by `destroy` too. Until threaded writes are enabled on a closed port: `FlushedWhenStopped`, with no
write thread left everything queued was written, before `CloseHandle`; `HeadNeverFreed`, the consumer is never at a deleted
node and deletes none twice; `TailLiveBetweenCommands`, what a command appends to is allocated when it
starts; `ImplementsOutbox`, with `mayReplay` true when a write thread started at a node that was written
before; `CommandReturns`, `QueuedIsWritten`.

SerialSettings: `InSync`, once a hand-over succeeds the device has every stored setting, whatever was
refused or set before; `ReadBack`, getters show the value last set, if it fits the C++ type.

ReadThread: `WholeInputCut`, `ResplitIsCut`, cutting against the reference definition `IsCut`, written
without the loops; `OtherCharsConserved`, `NoDelimiterPending`, with option changes at any point.
CallbackRing: `BufferedStringsLive`, `InOrder`.

IOContext: `OneDispatcher`, handlers never run beside each other; `DispatcherWhileUsed`, `HandlersRun`,
until the last user has left once.

TcpServer: `ListMatchesRegistry`, the list, `commMethods` and the live connections agree between
commands, and no pointer is listed twice; `UsersMatch`, each instance is counted once as a user of the io
thread; `OnlyHandlersMeetDeleted`, no command uses a deleted object, a handler meets a deleted connection
only between listing and naming it, and a deleted server only if an accept was due or in its handler when it
was destroyed; `ReadersLive`, no read thread outlives its connection; `ChainsKept`, each
listen keeps exactly one accept going until its failure is reported; `ImplementsLifecycle`, where deletion may
come before the announcement, and a connection after stopListening only from an accept that was
complete; `Announced`.

TcpClient: `OneReaderWhileOpen`, `NothingAfterDestroy`, `SuccessIsReading`, `AsyncAnswered`. Registry:
`RegistryLive`, `OneSerialPerPort`.

### Where code and documentation disagree

1. `double_write`: disconnect and connect repeat the last message (ReadWriteHandler.h:260), against
   README.md:149.
2. `tail_use`: `write` uses the old tail after unlocking it, when it may be deleted
   (ReadWriteHandler.h:79-80), against BufferedWrite.h:7.
3. `io_context_restart`: after the last TCP instance was destroyed no handler runs any more
   (boost_util.cpp:34), against tcpClient.cpp:122.
4. `tcp_client_cancel`: disconnect does not cancel a handler that is due; it starts a read thread on the
   closed socket and reports success (tcpClient.cpp:137), against tcpClient.cpp:170.

### Further disagreements

These configurations are kept beside the runs. In each of them TLC violates the one property it checks.

| configuration | module | property | what happens | what is said |
|---|---|---|---|---|
| MCSerialPortTwoWriters.cfg | MCSerialPort | `AtMostOneWriter` | enable, then connect, starts two write threads (ReadWriteHandler.h:103) | "designed to only be used by two threads", BufferedWrite.h:7; the order is that of UnitTests.cs:266-267 |
| MCSerialPortDestroy.cfg | MCSerialPort | `NothingOutlivesDestroy` | enable, then destroy, leaves the write thread at work on the deleted instance (dllmain.cpp:86-94) | "Ensure no operations are pending", dllmain.cpp:90 |
| MCSerialPortDrain.cfg | MCSerialPort | `DrainNeverUsed` | the drain loop runs at every disconnect with threaded writes, and deletes the node whose lock it holds (280) | "not currently used", ReadWriteHandler.h:272 |
| MCSerialPortNullJoin.cfg | MCSerialPort | `DisconnectAnswers` | disconnect without a read thread joins null (309) | "A success or failure message", serial.cpp:1055 |
| MCSerialPortHang.cfg | MCSerialPort | `DisconnectReturns` | disconnect joins a read thread that retries a buffer only the game thread can empty | the same |
| MCSerialPortUsing.cfg | MCSerialPort | `UsingThreadAnswered` | isUsingWriteThread answers from a member nothing assigns (serial.h:101) | serial.cpp:569 |
| MCReadThreadSwallow.cfg | ReadThread | `DelimiterSendsChunk` | a delimiter read while the type changes sends nothing (243) | serial.cpp:991 |
| MCReadThreadLength.cfg | ReadThread | `CompleteChunkSent` | a type changed and changed back leaves a complete chunk waiting (246) | serial.cpp:1021 |
| MCSerialSettingsApplied.cfg | MCSerialSettings | `SuccessMeansApplied` | a refused setting is answered with an error and SUCCESS (serial.cpp:168) | "A failure or success message", serial.cpp:576 |
| MCSerialSettingsLimit.cfg | MCSerialSettings | `LimitReadBack` | 65536 is stored as 0 (serial.cpp:311) | "XonLim: int", serial.cpp:862 |
| MCSerialSettingsHalfOpen.cfg | MCSerialSettings | `ConnectedIsReading` | a connect that failed half way leaves the port connected without threads (serial.cpp:113) | serial.cpp:88, 1041 |
| MCTcpServerDestroy.cfg | TcpServer | `HandlerFindsServer` | an accept handler uses the deleted server (tcpServer.cpp:86) | "Ensure no operations are pending", dllmain.cpp:90 |
| MCTcpServerAll.cfg | TcpServer | `HandlerFindsConnection` | disconnectAll deletes a connection about to be named (95) | "some kind of crazy edge case", tcpServer.cpp:153-155 |
| MCTcpServerData.cfg | TcpServer | `ListedAreLive` | a connection known from its data is destroyed before it is listed (223) | the same |
| MCTcpServerStop.cfg | TcpServer | `NoneAfterStop` | a connection appears after stopListening (91) | "Stops listening for new connections.", tcpServer.cpp:129 |
| MCTcpClientTwice.cfg | TcpClient | `AtMostOneReader` | connect twice starts two read threads (tcpClient.cpp:114) | tcpClient.cpp:186 |
| MCTcpClientFirst.cfg | TcpClient | `FirstAttemptCanceled` | disconnect before the first success joins null | tcpClient.cpp:170 |
| MCTcpClientThrow.cfg | TcpClient | `HandlerNeverThrows` | set_option throws on the io thread (tcpClient.cpp:136) | tcpClient.cpp:122 |
| MCTcpClientDestroy.cfg | TcpClient | `HandlerFindsClient` | the handler uses the deleted client (tcpClient.cpp:132) | "Ensure no operations are pending", dllmain.cpp:90 |
| MCRegistryExists.cfg | Registry | `ExistsIsTrue` | the port of a destroyed server stays taken (tcpServer.cpp:181) | "A TCP Server already exists", tcpServer.cpp:54 |
| MCRegistryThrow.cfg | Registry | `CreateAnswers` | create throws when the port is bound (tcpServer.cpp:21) | "A success or failure message", tcpServer.cpp:41 |
| MCCallbackRingLocal.cfg | CallbackRing | `LocalStringsLive` | strings of the io thread are gone when Arma reads them (util.cpp:75) | "We need to buffer the strings", ReadWriteHandler.h:158 |

## 4. Proofs

All theorems hold for every value of the constants that satisfies the named assumptions of the
modules. Where `TypeOK` or a property is not inductive, this is what the invariant adds:

* `SerialPortProofs`: `TypeCorrect`. Moving the tail and deleting the previous node need pointers that
  are not null, which `PointerOK` adds. For all scripts: `StraysAreEarly` and `ThreadsEndWithPort`.
  `ThreadInv` and `ReaderInv`: a live thread that was not started early is the one its pointer names, it lives
  while the flag is set or the game thread is joining it, and the handle is open. Until threaded writes are enabled on a closed port (the invariant is the implication
  `EnabledOpen => IInv`, since `EnabledOpen` never becomes true again): one write thread at most (`OneWriter`),
  `FlushedWhenStopped`, `HeadNeverFreed`, `TailLiveBetweenCommands`. `WriterInv`: the only
  live thread is the one the pointer names, and the handle is open. `ListInv`: the list is increasing, deleted nodes lie below the head, the
  head is at most the tail except while `write` is between appending and moving the tail; this
  exception is what finding 2 lives in. `FlushInv`: the list skips no queued message, and every
  queued message is written, or behind the head, or at the head of a thread about to write it. The
  last part is what makes the flush inductive: "written when stopped" says nothing about a running
  thread. The refinement `ImplementsOutbox`, in which an early command voids the promise, adds `OutboxInv`: nothing behind the head was written,
  nor the head a thread has just moved to. The least pending message, and the greatest one sent from the
  queue, is then the head, and starting a thread is a stutter or `Restart`.
  `WrittenOnce` says where finding 1 ends: `NoDoubleWrite` holds when the port is opened once. `OnceInv`
  adds that a thread about to write stands at a node not written yet, and that the list is still at the
  constructor's dummy when the only write thread starts.
* `ReadThreadProofs`, for any delimiters, lengths and input, and for commands at any point of the loop:
  `TypeOK`, `OtherCharsConserved`, `NoDelimiterPending`, `WholeInputCut` and `ResplitIsCut`.
  The lemmas `SplitByCharCuts` and `SplitByLengthCuts` say what the two loops over the old line return for
  every line. None of the properties is inductive: `Types` adds that both copies of the
  options are equal and were asked for by a script (a length is positive), `Counts` that `charsRead` is the
  length of the line and that a delimiter just read is still owed a chunk, `NothingPending` and `DataKept`
  say the properties at every step, and `CutSoFar` that chunks and line are the input read so far,
  but for a delimiter being tested, while no command was called. Two theorems say for which scripts
  the documentation is right about the options: `DelimiterAnswered`, for those that only set delimiters, and
  `ChunkCompleted`, for those that set the options twice at most (MCReadThreadLength.cfg needs three commands:
  a length, another type, the length again).
* `CallbackRingProofs`: `BufferedStringsLive`, `InOrder`, `TypeOK`, for every number of senders and every
  ring with more slots than Arma's buffer has entries. `RingFilled` says which string each slot holds;
  `BufferRecent` bounds the age of an entry by the number of entries behind it.
* `IOContextProofs`: `TypeOK`, `OneDispatcher`, `DispatcherWhileUsed`. `UsersCounted`: the count is the
  number of instances between their two calls. `FlagIsTrue`: until the context is first stopped, the
  flag or a call that is about to set it says truly whether a thread is in `run()`.
* `RegistryProofs`: `TypeOK`, `RegistryLive`, `OneSerialPerPort`, with `FreshIds`: what lives was created.
* `SerialSettingsProofs`: `TypeOK`, `InSync`, `ReadBack`, for all 23 settings and all integers. `Kepts`
  says of every member that it is the narrowed value of the last setter; that fitting values survive
  narrowing is arithmetic.
* `TcpClientProofs`: `TypeOK`, `OneReaderWhileOpen`, `NothingAfterDestroy`, `SuccessIsReading`.
  `NoWriteThread` reduces `ReadWriteHandler` to its read side; `Disciplined`, while no script was hasty,
  ties the read thread, the attempt and the position of the game thread together: the thread a
  pointer names is the only one, an attempt is alone with an open socket and no thread until it starts
  one.
* `TcpServerProofs`. For all scripts: `TypeOK`, `ChainsKept`, `ReadersLive`, `UsersMatch`, from `Shape`
  (types, and the position of `disconnectAll` in its copy), `Chains` (the sum of `ChainsKept`, and that
  only an open acceptor has one) and `Kept` (connections are numbered as they come; lists name born
  ones that no constructor is at work on; a thread reads from an open socket or is being joined).
  For scripts that act on announced connections only: `OnlyHandlersMeetDeleted` and `ListMatchesRegistry`,
  adding `Tidy` (both lists name live connections once; a connection not yet listed is live and in neither list;
  no script has been told of a connection being accepted; a deleted server has an accept left only if
  `hasty`), and the refinement `ImplementsLifecycle`, adding `AnnouncedOnce`.

The loops of `ReadThread` are recursive functions over a string. Their lemmas go by induction over sets of
numbers, from the library's well-founded order of the naturals (`Induction`, `SeqInduction`), and
a loop is a run: a sequence of its intermediate values, which exists (`RunExists`) and is
determined by its steps (`RunsAgree`). The folds of the sequences library are reasoned about the same way.

Model-checked only: liveness, which needs fairness and so ENABLED. The theorems
about a client no script was hasty with, and those about a port before threaded writes are enabled on it while
closed, say nothing of what comes after; what happens then is in section 3.

## 5. Not modelled

* The listing commands, `RVExtension`, `RVExtensionVersion`, logging and the text of replies: output
  without state. UUIDs are distinct identities.
* `ArmaArray` (util.cpp): the extension parses no array; the class is used nowhere in it.
* `disableWriteThread` (ReadWriteHandler.h:144-153) and `setCallbackOptions` (110-114): called from
  nowhere.
* Devices, sockets, name resolution and `io_context` themselves: external, modelled from how the code
  uses them. Partial writes and a close that fails are left out, see above.
* The C# tests and the documentation generator: outside the extension.

Further work: several servers with one `IOContext`, which needs larger state spaces than one server by
itself.
