SPECIFICATION Spec
CONSTANTS
  ByteSize = 3
  UpperBytes = {0, 1}
  Delimiters = {0, 1}
  Lengths = {1, 2, 3}
  MaxInput = 3
  MaxChanges = 2
INVARIANT DelimiterSendsChunk
