------------------------------- MODULE ReadThread -------------------------------
(***************************************************************************)
(* How readThreadFunction in ReadWriteHandler.h cuts its input into the    *)
(* chunks it sends to Arma, while the game thread changes the options it   *)
(* cuts by.                                                                *)
(*                                                                         *)
(* ReadCallbackOptions holds a type and a union of a char and an int.  The *)
(* union is modelled by its int; the char is its lowest byte, and storing  *)
(* a char leaves the upper bytes, arbitrary at first, as they were.  Bytes *)
(* have ByteSize values.  The read thread takes a copy of the options      *)
(* under the mutex once per pass, and reads the type a second and a third  *)
(* time without it.                                                        *)
(***************************************************************************)
EXTENDS Integers, Sequences, SequencesExt

CONSTANTS
  ByteSize,     \* number of characters
  UpperBytes,   \* values the uninitialised upper bytes may have
  Delimiters,   \* characters the scripts pass to callbackOnChar
  Lengths,      \* lengths the scripts pass to callbackOnLength
  MaxInput,     \* bound: characters received
  MaxChanges    \* bound: callbackOnChar and callbackOnLength commands

ASSUME OptionsAssumption ==
  /\ ByteSize \in Nat \ {0} /\ UpperBytes \subseteq Nat
  /\ Delimiters \subseteq 0..ByteSize - 1
  /\ Lengths \subseteq Nat \ {0}          \* the commands refuse lengths below 1
  /\ MaxInput \in Nat /\ MaxChanges \in Nat

VARIABLES
  callbackOptions,   \* the shared options
  prevOptions, cbo,  \* the read thread's copies: of the last pass, of this pass
  pc,                \* "snapshot", "read", "testChar", "testLength"
  line, charsRead,   \* the characters not yet sent, and their number
  readOk, readChar,  \* outcome of the last readOneChar
  sent,              \* the chunks sent to Arma
  input,             \* every character received
  changes,           \* commands so far
  swallowed          \* delimiters removed from the input without a chunk being sent

optionVars == <<callbackOptions, changes>>
vars == <<callbackOptions, prevOptions, cbo, pc, line, charsRead, readOk, readChar, sent, input,
          changes, swallowed>>

Char    == 0..ByteSize - 1
Options == [type : {"ON_CHAR", "ON_LENGTH"}, value : Nat]

OnChar(o)    == o.value % ByteSize
OnLength(o)  == o.value

\* MUTANT of SameOptions: forgets to compare the values.
SameType(a, b) == a.type = b.type

\* operator==: only the member the type selects counts.
SameOptions(a, b) ==
  /\ a.type = b.type
  /\ IF a.type = "ON_CHAR" THEN OnChar(a) = OnChar(b) ELSE OnLength(a) = OnLength(b)

TypeOK ==
  /\ {callbackOptions, prevOptions, cbo} \subseteq Options
  /\ pc \in {"snapshot", "read", "testChar", "testLength"}
  /\ line \in Seq(Char) /\ charsRead \in 0..MaxInput
  /\ readOk \in BOOLEAN /\ readChar \in Char
  /\ sent \in Seq(Seq(Char)) /\ input \in Seq(Char)
  /\ changes \in 0..MaxChanges /\ swallowed \in 0..MaxInput

\* The constructor asks for a newline, here any delimiter.
Init ==
  /\ \E u \in UpperBytes, c \in Delimiters :
       callbackOptions = [type |-> "ON_CHAR", value |-> u * ByteSize + c]
  /\ prevOptions = callbackOptions /\ cbo = callbackOptions
  /\ pc = "snapshot" /\ line = <<>> /\ charsRead = 0
  /\ readOk = FALSE /\ readChar = 0
  /\ sent = <<>> /\ input = <<>> /\ changes = 0 /\ swallowed = 0

-----------------------------------------------------------------------------
(* The commands callbackOnChar, callbackOnCharCode and callbackOnLength *)

SetOptions(type, value) ==
  /\ changes < MaxChanges /\ changes' = changes + 1
  /\ callbackOptions' = [type |-> type, value |-> value]
  /\ UNCHANGED <<prevOptions, cbo, pc, line, charsRead, readOk, readChar, sent, input, swallowed>>

CallbackOnChar ==
  \E c \in Delimiters :
    SetOptions("ON_CHAR", (callbackOptions.value \div ByteSize) * ByteSize + c)

\* MUTANT of CallbackOnLength: the check for lengths below 1 is gone.
CallbackOnAnyLength == \E n \in Lengths \cup {-1} : SetOptions("ON_LENGTH", n)

CallbackOnLength == \E n \in Lengths : SetOptions("ON_LENGTH", n)

-----------------------------------------------------------------------------
(* One pass of the read loop *)

\* The loop over the old line for a new delimiter: what it sent, what is left
\* and the count it kept of that, after i characters.
SplitByChar(str, c) ==
  LET after[i \in 0..Len(str)] ==
        IF i = 0 THEN [sent |-> <<>>, line |-> <<>>, count |-> 0]
        ELSE LET acc == after[i - 1]
             IN  IF str[i] = c
                 THEN [sent |-> Append(acc.sent, acc.line), line |-> <<>>, count |-> 0]
                 ELSE [acc EXCEPT !.line = Append(@, str[i]), !.count = @ + 1]
  IN  after[Len(str)]

\* MUTANT of SplitByLength: i < charsRead - cbOn instead of <=.
SplitMissesLast(str, size, n) ==
  IF size < n THEN [sent |-> <<>>, line |-> str, count |-> size]
  ELSE [sent  |-> [k \in 1..(size - n) \div n |-> SubSeq(str, (k - 1) * n + 1, k * n)],
        line  |-> SubSeq(str, size - (size % n) + 1, size),
        count |-> size % n]

\* MUTANT of SplitByLength: the leftover is dropped.
SplitDropsRest(str, size, n) ==
  IF size < n THEN [sent |-> <<>>, line |-> str, count |-> size]
  ELSE [sent  |-> [k \in 1..(size - n) \div n + 1 |-> SubSeq(str, (k - 1) * n + 1, k * n)],
        line  |-> <<>>, count |-> 0]

\* The loop over the old line for a new length: i = 0, n, 2n, ... up to
\* charsRead - n, then the leftover.
SplitByLength(str, size, n) ==
  IF size < n THEN [sent |-> <<>>, line |-> str, count |-> size]
  ELSE [sent  |-> [k \in 1..(size - n) \div n + 1 |-> SubSeq(str, (k - 1) * n + 1, k * n)],
        line  |-> SubSeq(str, size - (size % n) + 1, size),
        count |-> size % n]

Resplit(options, str, size) ==
  IF options.type = "ON_CHAR" THEN SplitByChar(str, OnChar(options))
                              ELSE SplitByLength(str, size, OnLength(options))

\* Takes the options and, when they changed, cuts the pending line anew.
TakeOptions ==
  /\ pc = "snapshot" /\ pc' = "read"
  /\ cbo' = callbackOptions /\ prevOptions' = callbackOptions
  /\ IF SameOptions(prevOptions, callbackOptions)
     THEN UNCHANGED <<line, charsRead, sent>>
     ELSE LET split == Resplit(callbackOptions, line, charsRead) IN
          /\ sent' = sent \o split.sent
          /\ line' = split.line /\ charsRead' = split.count
  /\ UNCHANGED <<optionVars, readOk, readChar, input, swallowed>>

\* readOneChar fails on a timeout; otherwise the character joins the line
\* unless it is the delimiter.
ReadOneChar ==
  /\ pc = "read" /\ pc' = "testChar"
  /\ \/ /\ readOk' = FALSE
        /\ UNCHANGED <<readChar, line, charsRead, input, swallowed>>
     \/ \E c \in Char :
          /\ Len(input) < MaxInput
          /\ readOk' = TRUE /\ readChar' = c /\ input' = Append(input, c)
          /\ IF cbo.type = "ON_CHAR" /\ c = OnChar(cbo)
             THEN swallowed' = swallowed + 1 /\ UNCHANGED <<line, charsRead>>
             ELSE line' = Append(line, c) /\ charsRead' = charsRead + 1 /\ UNCHANGED swallowed
  /\ UNCHANGED <<optionVars, prevOptions, cbo, sent>>

ReadDelimiter == readOk /\ readChar = OnChar(cbo)

\* MUTANT of SendLine: the line is not emptied.
SendLineKeepsText ==
  /\ sent' = Append(sent, line) /\ UNCHANGED <<line, charsRead>>
  /\ swallowed' = IF cbo.type = "ON_CHAR" /\ ReadDelimiter THEN swallowed - 1 ELSE swallowed

\* Sends the line and empties it.  A delimiter just read is accounted for.
SendLine ==
  /\ sent' = Append(sent, line) /\ line' = <<>> /\ charsRead' = 0
  /\ swallowed' = IF cbo.type = "ON_CHAR" /\ ReadDelimiter THEN swallowed - 1 ELSE swallowed

KeepLine == UNCHANGED <<sent, line, charsRead, swallowed>>

\* The first unlocked look at the type, which decides what the copy of the
\* value is taken for.
TestChar ==
  /\ pc = "testChar"
  /\ IF callbackOptions.type = "ON_CHAR" /\ readOk
     THEN pc' = "snapshot" /\ IF ReadDelimiter THEN SendLine ELSE KeepLine
     ELSE pc' = "testLength" /\ KeepLine
  /\ UNCHANGED <<optionVars, prevOptions, cbo, readOk, readChar, input>>

\* The second one.
TestLength ==
  /\ pc = "testLength" /\ pc' = "snapshot"
  /\ IF callbackOptions.type = "ON_LENGTH" /\ charsRead >= OnLength(cbo)
     THEN SendLine ELSE KeepLine
  /\ UNCHANGED <<optionVars, prevOptions, cbo, readOk, readChar, input>>

Next ==
  \/ CallbackOnChar \/ CallbackOnLength
  \/ TakeOptions \/ ReadOneChar \/ TestChar \/ TestLength

Spec == Init /\ [][Next]_vars

-----------------------------------------------------------------------------
(* What cutting a string by the options means, independently of the loops:  *)
(* pieces sent, then a rest that is kept.                                    *)

NoChar(str, c) == \A i \in 1..Len(str) : str[i] # c

IsCut(options, str, pieces, rest) ==
  IF options.type = "ON_CHAR"
  THEN /\ \A i \in 1..Len(pieces) : NoChar(pieces[i], OnChar(options))
       /\ NoChar(rest, OnChar(options))
       /\ FlattenSeq([i \in 1..Len(pieces) |-> Append(pieces[i], OnChar(options))]) \o rest = str
  ELSE /\ \A i \in 1..Len(pieces) : Len(pieces[i]) = OnLength(options)
       /\ Len(rest) < OnLength(options)
       /\ FlattenSeq(pieces) \o rest = str

\* When the options changed, cutting the pending line anew gives what the new
\* options would have given for it.
ResplitIsCut ==
  [][TakeOptions /\ ~SameOptions(prevOptions, callbackOptions) =>
       IsCut(callbackOptions, line, SubSeq(sent', Len(sent) + 1, Len(sent')), line')]_vars

\* Scripts that leave the options alone receive the whole input, cut at each
\* delimiter.
WholeInputCut ==
  changes = 0 /\ pc = "snapshot" => IsCut(callbackOptions, input, sent, line)

\* The characters of a string that no script ever chose as a delimiter.
DataChars(str) ==
  LET data[i \in 0..Len(str)] ==
        IF i = 0 THEN <<>>
        ELSE IF str[i] \in Delimiters THEN data[i - 1] ELSE Append(data[i - 1], str[i])
  IN  data[Len(str)]

\* No race over the options loses, repeats or reorders a character no script
\* ever chose as a delimiter, and charsRead, kept in step with the line by hand in
\* five places, still counts it: substr never cuts outside the line.
OtherCharsConserved ==
  /\ DataChars(FlattenSeq(sent) \o line) = DataChars(input)
  /\ charsRead = Len(line)

\* While the thread waits for a character under a delimiter, the pending line
\* does not contain it, whatever the options were when the line was read.
NoDelimiterPending ==
  pc = "read" /\ cbo.type = "ON_CHAR" => NoChar(line, OnChar(cbo))

-----------------------------------------------------------------------------
(* Statements of the documentation that the unlocked reads break *)

\* callbackOnChar: when the character is read, the data before it is sent.
DelimiterSendsChunk == pc = "snapshot" => swallowed = 0

\* callbackOnLength: when that much was read, all of it is sent, so the thread
\* never waits for more on top of a complete chunk.
CompleteChunkSent ==
  pc = "read" /\ cbo.type = "ON_LENGTH" => charsRead < OnLength(cbo)
=============================================================================
