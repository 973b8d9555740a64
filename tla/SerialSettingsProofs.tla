-------------------------- MODULE SerialSettingsProofs --------------------------
(***************************************************************************)
(* The settings of a serial port, for every set of fields and of inputs.   *)
(***************************************************************************)
EXTENDS SerialSettings, TLAPS

\* What a setter keeps of the integer it was given.
Kept(f, a) == IF f \in Chars THEN ToByte(a) ELSE IF f \in Limits THEN ToWord(a) ELSE a

\* Every member is what its last setter kept; InSync and the types do not say how a
\* member came to its value, and ReadBack not what it is when the value does not fit.
Kepts == asked \in [Settings -> Int] /\ \A f \in Settings : stored[f] = Kept(f, asked[f])

IInv == TypeOK /\ Kepts /\ InSync

\* The two conversions stay within their types, and a char that fits survives its own.
LEMMA WordMaxLarge == WordMax \in Int /\ WordMax >= 2048
  BY DEF WordMax

LEMMA WordRange == ASSUME NEW a \in Int PROVE ToWord(a) \in 0..WordMax
<1>1. ToWord(a) \in Int /\ 0 <= ToWord(a) /\ ToWord(a) <= WordMax
  BY DEF ToWord, WordMax
<1> QED
  BY <1>1, WordMaxLarge

LEMMA ByteRange == ASSUME NEW a \in Int PROVE ToByte(a) \in 0..255
  BY DEF ToByte

LEMMA LimitSurvives == ASSUME NEW a \in Int, 0 <= a, a <= WordMax PROVE ToWord(a) = a
  BY DEF ToWord, WordMax

LEMMA CharSurvives == ASSUME NEW a \in Int, -128 <= a, a <= 127 PROVE Signed(ToByte(a)) = a
<1>1. CASE a >= 0
  <2>1. ToByte(a) = a
    BY <1>1 DEF ToByte
  <2> QED
    BY <1>1, <2>1 DEF Signed
<1>2. CASE a < 0
  <2>1. ToByte(a) = a + 256
    BY <1>2 DEF ToByte
  <2> QED
    BY <1>2, <2>1 DEF Signed
<1> QED
  BY <1>1, <1>2

\* The kinds of settings do not overlap.
LEMMA Disjoint ==
  /\ \A f \in Indexed : f \notin Flags /\ f \notin Controls /\ f \notin Limits /\ f \notin Chars
  /\ \A f \in Flags : f \notin Indexed /\ f \notin Controls /\ f \notin Limits /\ f \notin Chars
  /\ \A f \in Controls : f \notin Indexed /\ f \notin Flags /\ f \notin Limits /\ f \notin Chars
  /\ \A f \in Limits : f \notin Indexed /\ f \notin Flags /\ f \notin Controls /\ f \notin Chars
  /\ \A f \in Chars : f \notin Indexed /\ f \notin Flags /\ f \notin Controls /\ f \notin Limits
  BY DEF Indexed, Flags, Controls, Limits, Chars

\* The two controls, by name.
LEMMA ControlNames ==
  ASSUME NEW f \in Settings, f \notin Controls PROVE f # "fDtrControl" /\ f # "fRtsControl"
  BY DEF Controls

\* The ranges of the members, kind by kind.
LEMMA IndexedDomain ==
  ASSUME NEW f \in Indexed
  PROVE  TableSize(f) \in Int /\ TableSize(f) > 0 /\ Domain(f) = 0..TableSize(f) - 1
<1>1. TableSize(f) \in Int /\ TableSize(f) > 0
  BY DEF TableSize, Indexed
<1>2. f \notin Flags /\ f \notin Limits /\ f \notin Chars /\ f # "fDtrControl" /\ f # "fRtsControl"
  BY Disjoint, ControlNames DEF Settings
<1>3. Domain(f) = 0..TableSize(f) - 1
  BY <1>2 DEF Domain
<1> QED
  BY <1>1, <1>3

LEMMA FlagDomain == ASSUME NEW f \in Flags PROVE Domain(f) = {0, 1}
<1>1. f \notin Indexed /\ f \notin Limits /\ f \notin Chars /\ f # "fDtrControl" /\ f # "fRtsControl"
  BY Disjoint, ControlNames DEF Settings
<1> QED
  BY <1>1 DEF Domain

LEMMA ControlDomain ==
  ASSUME NEW f \in Controls
  PROVE  1 \in Domain(f) /\ \A v \in Domain(f) : v \in Int
<1>1. f \notin Indexed /\ f \notin Flags /\ f \notin Limits /\ f \notin Chars
  BY Disjoint
<1>2. CASE f = "fDtrControl"
  <2>1. Domain(f) = 0..2
    BY <1>1, <1>2 DEF Domain
  <2> QED
    BY <2>1
<1>3. CASE f = "fRtsControl"
  <2>1. Domain(f) = 0..3
    BY <1>1, <1>3 DEF Domain
  <2> QED
    BY <2>1
<1> QED
  BY <1>2, <1>3 DEF Controls

LEMMA LimitDomain == ASSUME NEW f \in Limits PROVE Domain(f) = 0..WordMax
<1>1. f \notin Indexed /\ f \notin Flags /\ f \notin Chars /\ f # "fDtrControl" /\ f # "fRtsControl"
  BY Disjoint, ControlNames DEF Settings
<1> QED
  BY <1>1 DEF Domain

LEMMA CharDomain == ASSUME NEW f \in Chars PROVE Domain(f) = 0..255
<1>1. f \notin Indexed /\ f \notin Flags /\ f \notin Limits /\ f # "fDtrControl" /\ f # "fRtsControl"
  BY Disjoint, ControlNames DEF Settings
<1> QED
  BY <1>1 DEF Domain

\* A number a member can hold is an integer.
LEMMA DomainInt == ASSUME NEW f \in Settings, NEW v \in Domain(f) PROVE v \in Int
<1>1. CASE f \in Indexed
  <2>1. TableSize(f) \in Int /\ Domain(f) = 0..TableSize(f) - 1
    BY <1>1, IndexedDomain
  <2> QED
    BY <2>1
<1>2. CASE f \in Flags
  <2>1. Domain(f) = {0, 1}
    BY <1>2, FlagDomain
  <2> QED
    BY <2>1
<1>3. CASE f \in Controls
  BY <1>3, ControlDomain
<1>4. CASE f \in Limits
  <2>1. Domain(f) = 0..WordMax
    BY <1>4, LimitDomain
  <2> QED
    BY <2>1, WordMaxLarge
<1>5. CASE f \in Chars
  <2>1. Domain(f) = 0..255
    BY <1>5, CharDomain
  <2> QED
    BY <2>1
<1> QED
  BY <1>1, <1>2, <1>3, <1>4, <1>5 DEF Settings

\* The constructor's values fit their members and need no conversion.
LEMMA DefaultsFit ==
  ASSUME NEW f \in Settings
  PROVE  Default(f) \in Domain(f) /\ Default(f) = Kept(f, Default(f))
<1>1. CASE f \in Indexed
  <2>1. Default(f) \in 0..TableSize(f) - 1
    BY <1>1 DEF Default, TableSize, Indexed, Controls
  <2>2. Default(f) \in Domain(f)
    BY <1>1, <2>1, IndexedDomain
  <2>3. f \notin Chars /\ f \notin Limits
    BY <1>1, Disjoint
  <2> QED
    BY <2>2, <2>3 DEF Kept
<1>2. CASE f \in Flags
  <2>1. Default(f) = 0
    BY <1>2 DEF Default, Flags, Controls
  <2>2. Default(f) \in Domain(f)
    BY <1>2, <2>1, FlagDomain
  <2>3. f \notin Chars /\ f \notin Limits
    BY <1>2, Disjoint
  <2> QED
    BY <2>2, <2>3 DEF Kept
<1>3. CASE f \in Controls
  <2>1. Default(f) = 1
    BY <1>3 DEF Default, Controls
  <2>2. Default(f) \in Domain(f)
    BY <1>3, <2>1, ControlDomain
  <2>3. f \notin Chars /\ f \notin Limits
    BY <1>3, Disjoint
  <2> QED
    BY <2>2, <2>3 DEF Kept
<1>4. CASE f \in Limits
  <2>1. Default(f) \in Int /\ 0 <= Default(f) /\ Default(f) <= WordMax
    BY <1>4, WordMaxLarge DEF Default, Limits, Controls
  <2>2. Default(f) \in Domain(f) /\ ToWord(Default(f)) = Default(f)
    BY <1>4, <2>1, LimitDomain, LimitSurvives, WordMaxLarge
  <2>3. f \notin Chars
    BY <1>4, Disjoint
  <2> QED
    BY <1>4, <2>2, <2>3 DEF Kept
<1>5. CASE f \in Chars
  <2>1. Default(f) \in 0..127
    BY <1>5 DEF Default, Chars, Controls
  <2>2. ToByte(Default(f)) = Default(f)
    BY <2>1 DEF ToByte
  <2>3. Default(f) \in Domain(f)
    BY <1>5, <2>1, CharDomain
  <2> QED
    BY <1>5, <2>2, <2>3 DEF Kept
<1> QED
  BY <1>1, <1>2, <1>3, <1>4, <1>5 DEF Settings

LEMMA InitIInv == Init => IInv
<1> SUFFICES ASSUME Init PROVE IInv
  OBVIOUS
<1>1. stored = [f \in Settings |-> Default(f)] /\ asked = stored
  BY DEF Init
<1>2. stored \in [Settings -> Int] /\ InDomain(stored)
  BY <1>1, DefaultsFit, DomainInt DEF InDomain
<1>3. Kepts
  BY <1>1, <1>2, DefaultsFit DEF Kepts
<1>4. TypeOK /\ InSync
  BY <1>1, <1>2 DEF Init, TypeOK, InSync
<1> QED
  BY <1>3, <1>4 DEF IInv

\* Storing a value that fits its member, on an open or on a closed port.
LEMMA SetToIInv ==
  ASSUME IInv, NEW f \in Settings, NEW a \in Int, Kept(f, a) \in Domain(f), SetTo(f, Kept(f, a), a)
  PROVE  IInv'
<1> DEFINE v == Kept(f, a)
<1> USE DEF IInv, SetTo
<1>1. v \in Int
  BY DomainInt
<1>2. /\ stored' \in [Settings -> Int] /\ stored'[f] = v
      /\ \A g \in Settings \ {f} : stored'[g] = stored[g]
  BY <1>1 DEF TypeOK, InDomain
<1>3. /\ asked' \in [Settings -> Int] /\ asked'[f] = a
      /\ \A g \in Settings \ {f} : asked'[g] = asked[g]
  BY DEF TypeOK
<1>4. InDomain(stored')
  BY <1>2 DEF TypeOK, InDomain
<1>5. Kepts'
  <2>1. ASSUME NEW g \in Settings PROVE stored'[g] = Kept(g, asked'[g])
    BY <1>2, <1>3 DEF Kepts
  <2> QED
    BY <1>3, <2>1 DEF Kepts
<1>6. open' = open /\ threads' = threads /\ reply' = "SUCCESS"
  OBVIOUS
<1>7. (device' = Unknown \/ InDomain(device')) /\ applied' \in BOOLEAN /\ InSync'
  <2>1. CASE open
    BY <1>4, <1>6, <2>1 DEF SetParams, Configured, TypeOK, InSync
  <2>2. CASE ~open
    BY <1>6, <2>2 DEF TypeOK, InSync
  <2> QED
    BY <2>1, <2>2 DEF TypeOK
<1>8. TypeOK'
  BY <1>3, <1>4, <1>6, <1>7 DEF TypeOK
<1> QED
  BY <1>5, <1>7, <1>8

\* Each kind of setter stores a value that fits.
LEMMA SetterIInv ==
  ASSUME IInv, SetIndexed \/ SetFlag \/ SetControl \/ SetLimit \/ SetChar
  PROVE  IInv'
<1> USE SettingsAssumption DEF SettingsAssumption
<1>1. CASE SetIndexed
  <2>1. PICK f \in Fields \cap Indexed, a \in Inputs : InTable(f, a) /\ SetTo(f, a, a)
    BY <1>1 DEF SetIndexed
  <2>2. f \in Settings /\ a \in Int /\ Kept(f, a) = a
    BY Disjoint DEF Settings, Kept
  <2>3. a \in Domain(f)
    <3>1. TableSize(f) \in Int /\ Domain(f) = 0..TableSize(f) - 1
      BY IndexedDomain
    <3>2. a \in 0..TableSize(f) - 1
      BY <2>1, <2>2, <3>1 DEF InTable
    <3> QED
      BY <3>1, <3>2
  <2> QED
    BY <2>1, <2>2, <2>3, SetToIInv
<1>2. CASE SetFlag
  <2>1. PICK f \in Fields \cap Flags, a \in Inputs \cap {0, 1} : SetTo(f, a, a)
    BY <1>2 DEF SetFlag
  <2>2. f \in Settings /\ a \in Int /\ Kept(f, a) = a
    BY Disjoint DEF Settings, Kept
  <2>3. a \in Domain(f)
    BY FlagDomain
  <2> QED
    BY <2>1, <2>2, <2>3, SetToIInv
<1>3. CASE SetControl
  <2>1. PICK f \in Fields \cap Controls, a \in Inputs : a \in Domain(f) /\ SetTo(f, a, a)
    BY <1>3 DEF SetControl
  <2>2. f \in Settings /\ a \in Int /\ Kept(f, a) = a
    BY Disjoint DEF Settings, Kept
  <2> QED
    BY <2>1, <2>2, SetToIInv
<1>4. CASE SetLimit
  <2>1. PICK f \in Fields \cap Limits, a \in Inputs : SetTo(f, ToWord(a), a)
    BY <1>4 DEF SetLimit
  <2>2. f \in Settings /\ a \in Int /\ Kept(f, a) = ToWord(a)
    BY Disjoint DEF Settings, Kept
  <2>3. Domain(f) = 0..WordMax
    BY LimitDomain
  <2>4. ToWord(a) \in Domain(f)
    BY <2>2, <2>3, WordRange
  <2> QED
    BY <2>1, <2>2, <2>4, SetToIInv
<1>5. CASE SetChar
  <2>1. PICK f \in Fields \cap Chars, a \in Inputs : SetTo(f, ToByte(a), a)
    BY <1>5 DEF SetChar
  <2>2. f \in Settings /\ a \in Int /\ Kept(f, a) = ToByte(a)
    BY DEF Settings, Kept
  <2>3. Domain(f) = 0..255
    BY CharDomain
  <2>4. ToByte(a) \in Domain(f)
    BY <2>2, <2>3, ByteRange
  <2> QED
    BY <2>1, <2>2, <2>4, SetToIInv
<1> QED
  BY <1>1, <1>2, <1>3, <1>4, <1>5

\* Opening hands the members to the device; closing forgets what it has.
LEMMA PortIInv == ASSUME IInv, Refuse \/ Connect \/ Disconnect \/ UNCHANGED vars PROVE IInv'
<1> USE DEF IInv
<1>1. UNCHANGED <<stored, asked>>
  BY DEF Refuse, Connect, Disconnect, vars
<1>2. Kepts' /\ InDomain(stored') /\ asked' \in [Settings -> Int]
  BY <1>1 DEF Kepts, TypeOK
<1>3. CASE Refuse
  BY <1>1, <1>2, <1>3 DEF Refuse, TypeOK, InSync
<1>4. CASE Connect
  <2>1. CASE reply' = "error" /\ UNCHANGED <<device, open, threads, applied>>
    BY <1>1, <1>2, <2>1 DEF TypeOK, InSync
  <2>2. CASE /\ open' = TRUE /\ SetParams(stored)
             /\ \/ reply' = "error" /\ UNCHANGED threads
                \/ applied' /\ reply' = "SUCCESS" /\ threads' = "running"
    <3>1. (device' = Unknown \/ InDomain(device')) /\ applied' \in BOOLEAN /\ InSync'
      BY <1>1, <2>2 DEF SetParams, Configured, TypeOK, InSync
    <3>2. threads' \in {"never", "running", "stopped"} /\ reply' \in {"SUCCESS", "FAILURE", "error"}
      BY <2>2 DEF TypeOK
    <3>3. open' \in BOOLEAN
      BY <2>2
    <3> QED
      BY <1>2, <3>1, <3>2, <3>3 DEF TypeOK
  <2> QED
    BY <1>4, <2>1, <2>2, Zenon DEF Connect
<1>5. CASE Disconnect
  BY <1>1, <1>2, <1>5 DEF Disconnect, TypeOK, InSync
<1>6. CASE UNCHANGED vars
  BY <1>1, <1>2, <1>6 DEF vars, TypeOK, InSync
<1> QED
  BY <1>3, <1>4, <1>5, <1>6

\* The invariant is inductive.
THEOREM Inductive == Spec => []IInv
<1>1. Init => IInv
  BY InitIInv
<1>2. IInv /\ [Next]_vars => IInv'
  BY SetterIInv, PortIInv DEF Next
<1> QED
  BY <1>1, <1>2, PTL DEF Spec

\* Whatever integers the scripts pass, no member leaves its type, and no table is read
\* past its end.
THEOREM TypeCorrect == Spec => []TypeOK
<1>1. IInv => TypeOK
  BY DEF IInv
<1> QED
  BY <1>1, Inductive, PTL

\* After a call to the device that succeeded, it has every stored setting.
THEOREM DeviceInSync == Spec => []InSync
<1>1. IInv => InSync
  BY DEF IInv
<1> QED
  BY <1>1, Inductive, PTL

\* A getter shows the value last set, if it fits the member: for all 23 settings and
\* every integer.
THEOREM SettingsReadBack == Spec => []ReadBack
<1>1. IInv => ReadBack
  <2> SUFFICES ASSUME IInv, NEW f \in Settings, Fits(f, asked[f]) PROVE Shown(f) = asked[f]
    BY DEF ReadBack
  <2>1. stored[f] = Kept(f, asked[f])
    BY DEF IInv, Kepts
  <2>2. CASE f \in Chars
    BY <2>1, <2>2, CharSurvives DEF Fits, Shown, Kept
  <2>3. CASE f \in Limits
    <3>1. f \notin Chars /\ Domain(f) = 0..WordMax
      BY <2>3, Disjoint, LimitDomain
    <3> QED
      BY <2>1, <2>3, <3>1, LimitSurvives, WordMaxLarge DEF Fits, Shown, Kept
  <2>4. CASE f \notin Chars \cup Limits
    BY <2>1, <2>4 DEF Shown, Kept
  <2> QED
    BY <2>2, <2>3, <2>4
<1> QED
  BY <1>1, Inductive, PTL
=============================================================================
