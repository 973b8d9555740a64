------------------------------ MODULE SerialSettings ------------------------------
(***************************************************************************)
(* The 23 settings of a serial port: what the instance stores, what the    *)
(* device was given, and what the commands reply.                          *)
(*                                                                         *)
(* A setter stores its value first and then, on an open port, hands the    *)
(* whole record to the device, which may refuse it; connect hands it over  *)
(* as well.  Flags are 0 and 1; a char is kept as its byte.  The device    *)
(* keeps its settings while the port is open, and other programs may       *)
(* change them while it is closed.                                         *)
(***************************************************************************)
EXTENDS Integers

CONSTANTS
  Fields,   \* the settings the scripts change
  Inputs,   \* the integers they pass
  Unknown   \* settings of a device this instance did not configure

Indexed  == {"baudRate", "parity", "stopBits", "dataBits"}
Flags    == {"fParity", "fOutxCtsFlow", "fOutxDsrFlow", "fDsrSensitivity", "fTXContinueOnXoff",
             "fOutX", "fInX", "fErrorChar", "fNull", "fAbortOnError"}
Controls == {"fDtrControl", "fRtsControl"}
Limits   == {"XonLim", "XoffLim"}
Chars    == {"XonChar", "XoffChar", "ErrorChar", "EofChar", "EvtChar"}
Settings == Indexed \cup Flags \cup Controls \cup Limits \cup Chars

ASSUME SettingsAssumption == Fields \subseteq Settings /\ Inputs \subseteq Int

VARIABLES
  stored,    \* the members of the instance
  asked,     \* the value of the last set command that replied SUCCESS, or the default
  device,    \* the settings of the device
  open,      \* serialPort # nullptr
  threads,   \* "never", "running" or "stopped"
  applied,   \* whether the last setParams since the port was opened succeeded
  reply      \* of the last command

vars == <<stored, asked, device, open, threads, applied, reply>>

\* Entries of the tables an index selects from.
TableSize(f) ==
  CASE f = "baudRate" -> 14 [] f = "parity" -> 5 [] f = "stopBits" -> 3 [] f = "dataBits" -> 5

Default(f) ==
  CASE f = "baudRate" -> 6 [] f = "dataBits" -> 4 [] f \in Controls -> 1
    [] f = "XonLim" -> 2048 [] f = "XoffLim" -> 512
    [] f = "XonChar" -> 17 [] f = "XoffChar" -> 19 [] OTHER -> 0

\* The largest WORD.
WordMax == 65535

\* The values a member can hold without a table being read past its end.
Domain(f) ==
  CASE f \in Indexed -> 0..TableSize(f) - 1
    [] f \in Flags -> {0, 1}
    [] f = "fDtrControl" -> 0..2
    [] f = "fRtsControl" -> 0..3
    [] f \in Limits -> 0..WordMax
    [] f \in Chars -> 0..255

InDomain(s) == s \in [Settings -> Int] /\ \A f \in Settings : s[f] \in Domain(f)

TypeOK ==
  /\ InDomain(stored) /\ (device = Unknown \/ InDomain(device))
  /\ asked \in [Settings -> Int]
  /\ open \in BOOLEAN /\ applied \in BOOLEAN
  /\ threads \in {"never", "running", "stopped"}
  /\ reply \in {"SUCCESS", "FAILURE", "error"}

Init ==
  /\ stored = [f \in Settings |-> Default(f)] /\ asked = stored
  /\ device = Unknown /\ open = FALSE /\ threads = "never"
  /\ applied = FALSE /\ reply = "SUCCESS"

-----------------------------------------------------------------------------
(* Conversions from the int a command parsed *)

ToWord(v) == v % (WordMax + 1)
ToByte(v) == v % 256

\* MUTANT of Signed: the getter reads the char as an unsigned one.
Unsigned(b) == b

Signed(b) == IF b > 127 THEN b - 256 ELSE b

\* What the getter of a setting answers.
Shown(f) == IF f \in Chars THEN Signed(stored[f]) ELSE stored[f]

-----------------------------------------------------------------------------
(* Setters *)

\* MUTANT of Configured: setParams lacks the line for one field.
ConfiguredLacksOne(s) == [s EXCEPT !["XonLim"] = Default("XonLim")]

\* The DCB setParams fills: all fields from the members.
Configured(s) == s

\* GetCommState or SetCommState may fail, and then the device stays as it was.
SetParams(s) ==
  \/ applied' = TRUE /\ device' = Configured(s)
  \/ applied' = FALSE /\ UNCHANGED device

\* The result of setParams is not looked at.
SetTo(f, v, a) ==
  /\ stored' = [stored EXCEPT ![f] = v]
  /\ asked' = [asked EXCEPT ![f] = a]
  /\ IF open THEN SetParams(stored') ELSE UNCHANGED <<applied, device>>
  /\ reply' = "SUCCESS"
  /\ UNCHANGED <<open, threads>>

\* An argument is missing, does not parse, is not one of the words the command
\* knows or selects no entry of the table.
Refuse == reply' = "FAILURE" /\ UNCHANGED <<stored, asked, device, open, threads, applied>>

\* MUTANT of InTable: > instead of >=.
InTableOffByOne(f, a) == a >= 0 /\ a <= TableSize(f)

InTable(f, a) == a >= 0 /\ a < TableSize(f)

SetIndexed == \E f \in Fields \cap Indexed, a \in Inputs : InTable(f, a) /\ SetTo(f, a, a)
SetFlag    == \E f \in Fields \cap Flags, a \in Inputs \cap {0, 1} : SetTo(f, a, a)
SetControl == \E f \in Fields \cap Controls, a \in Inputs : a \in Domain(f) /\ SetTo(f, a, a)
SetLimit   == \E f \in Fields \cap Limits, a \in Inputs : SetTo(f, ToWord(a), a)
SetChar    == \E f \in Fields \cap Chars, a \in Inputs : SetTo(f, ToByte(a), a)

-----------------------------------------------------------------------------
(* Opening and closing *)

\* The port cannot be opened; it is opened and setParams fails; SetCommTimeouts
\* fails; or the threads are started.
Connect ==
  /\ ~open
  /\ UNCHANGED <<stored, asked>>
  /\ \/ reply' = "error" /\ UNCHANGED <<device, open, threads, applied>>
     \/ /\ open' = TRUE /\ SetParams(stored)
        /\ \/ reply' = "error" /\ UNCHANGED threads
           \/ applied' /\ reply' = "SUCCESS" /\ threads' = "running"

\* Without a thread ever started, disconnect does not get past stopThreads (see
\* SerialPort).
Disconnect ==
  /\ threads # "never"
  /\ threads' = "stopped" /\ open' = FALSE
  /\ device' = Unknown /\ applied' = FALSE
  /\ reply' = IF open THEN "SUCCESS" ELSE "FAILURE"
  /\ UNCHANGED <<stored, asked>>

Next ==
  \/ SetIndexed \/ SetFlag \/ SetControl \/ SetLimit \/ SetChar
  \/ Refuse \/ Connect \/ Disconnect

Spec == Init /\ [][Next]_vars

-----------------------------------------------------------------------------
(* Properties *)

\* Whatever was refused before, whatever was set while the port was closed and
\* however often it was reopened: once a call to the device succeeds, the device
\* has every stored setting, not only the one the last command changed.
InSync == open /\ applied => device = stored

\* A getter shows the value of the last successful set command (TestIndexedGetSet
\* does this for indices), as long as the value fits the setting's C++ type.
Fits(f, a) == IF f \in Chars THEN a \in -128..127 ELSE a \in Domain(f)
ReadBack == \A f \in Settings : Fits(f, asked[f]) => Shown(f) = asked[f]

-----------------------------------------------------------------------------
(* Statements of comments and documentation that the code does not keep *)

\* Each setter returns "a failure or success message": after SUCCESS on an open
\* port the device has the stored settings.
SuccessMeansApplied == open /\ reply = "SUCCESS" => device = stored

\* setXonLim takes an int and "sets XonLim": the getter then shows that int.
LimitReadBack == \A f \in Limits : Shown(f) = asked[f]

\* connect opens the port, "sets its parameters using setParams, and starts
\* applicable read/write threads"; isConnected tells whether it is connected.
ConnectedIsReading == open => threads = "running"
=============================================================================
