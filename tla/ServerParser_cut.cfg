\* Three messages of 10 bytes through a buffer that holds two and a part.
CONSTANTS
  Messages <- MCMessages
  BufferSize = 24
  Stray = {0, 2, 10}
  MaxLogged = 4
SPECIFICATION Spec
INVARIANTS TypeOK SoundStart WholeReadsLogAll SearchInv
PROPERTY WholeReadsEnd
