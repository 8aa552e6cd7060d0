CONSTANTS
  Messages <- MCMessages
  BufferSize = 24
  Stray = {0}
  MaxLogged = 4
SPECIFICATION Spec
INVARIANT FindsStart
