CONSTANTS
  Width = 6
  Height = 6
  MAX_USERNAME_LENGTH = 2
  BUFFER_SPACE = 4
  KeysAhead = 2
  Outputs <- MCOutputs
  Keys <- MCKeys
SPECIFICATION FairSpec
INVARIANTS NothingOffScreen EchoIsBuffer
PROPERTIES EnterEndsLine
