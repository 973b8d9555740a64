--------------------------------- MODULE Outbox ---------------------------------
(***************************************************************************)
(* What the write side of a handler promises the scripts, with the threads *)
(* and the linked list abstracted away: messages leave in the order they   *)
(* were submitted, queued ones one by one and without a gap, and a message *)
(* is repeated only when a write thread starts over behind it, once, and   *)
(* only if it was the last one sent.  The promise binds until the scripts  *)
(* void it.                                                                *)
(***************************************************************************)
EXTENDS Integers, Sequences, SequencesExt, FiniteSetsExt

CONSTANT MaxMsgs

VARIABLES
  submitted,   \* messages submitted so far, numbered in order
  queued,      \* those accepted for later transmission
  written,     \* what left, in order
  mayReplay,   \* a write thread started over and has not written yet
  voided       \* the scripts left the order of commands the promise is made for

vars == <<submitted, queued, written, mayReplay, voided>>

Sent    == ToSet(written)
Pending == queued \ Sent

Init == submitted = 0 /\ queued = {} /\ written = <<>> /\ mayReplay = FALSE
        /\ voided = FALSE

Submit == submitted < MaxMsgs /\ submitted' = submitted + 1

Queue   == Submit /\ queued' = queued \cup {submitted + 1} /\ UNCHANGED <<written, mayReplay>>

\* Direct writes never overtake a queued message.
Direct  == Submit /\ Pending = {} /\ written' = Append(written, submitted + 1)
           /\ UNCHANGED <<queued, mayReplay>>

\* A direct write without an open handle fails.
Discard == Submit /\ UNCHANGED <<queued, written, mayReplay>>

Transmit == /\ ~mayReplay /\ Pending # {}
            /\ written' = Append(written, Min(Pending))
            /\ UNCHANGED <<submitted, queued, mayReplay>>

Restart == /\ ~mayReplay /\ Pending = {} /\ queued # {}
           /\ mayReplay' = TRUE
           /\ UNCHANGED <<submitted, queued, written>>

Replay == /\ mayReplay /\ mayReplay' = FALSE
          /\ written' = Append(written, Max(queued \cap Sent))
          /\ UNCHANGED <<submitted, queued>>

Kept == UNCHANGED voided /\ (Queue \/ Direct \/ Discard \/ Transmit \/ Restart \/ Replay)

Void == voided' = TRUE

Next == Kept \/ Void

Spec == Init /\ [][Next]_vars
=============================================================================
