\* Every setting command on one field of each width, with a device that may
\* refuse any call.
CONSTANTS
  Fields <- MCFields
  Inputs <- MCInputs
  Unknown = Unknown
SPECIFICATION Spec
INVARIANTS
  TypeOK
  InSync
  ReadBack
