CONSTANTS
  Commands <- MCCommands
  ReadBufferSize = 30
  Stray = {0}
  ReadSizes = {12, 24}
SPECIFICATION Spec
INVARIANT StartIsIdentity
