SPECIFICATION Spec
CONSTANTS
  Ids = {i1, i2, i3}
  Ports = {p1, p2}
  Null = Null
\* An exception ends the program.
CHECK_DEADLOCK FALSE
INVARIANTS
  TypeOK
  RegistryLive
  OneSerialPerPort
