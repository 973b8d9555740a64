CONSTANTS
  Fields <- MCFields
  Inputs <- MCInputs
  Unknown = Unknown
SPECIFICATION Spec
INVARIANT ConnectedIsReading
