------------------------------ MODULE MCSerialPort ------------------------------
(* SerialPort on small instances: the values of the constants are in the .cfg files. *)
EXTENDS SerialPort, TLC

\* Write threads are interchangeable; used by the runs that check one invariant.
ThreadSymmetry == Permutations(Writers)

\* Bound: once threaded writes were enabled on a closed port, one opening.
EarlyBound == earlies > 0 => connects <= 1
=============================================================================
