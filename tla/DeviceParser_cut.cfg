\* Three messages of 12 bytes through a buffer that holds two and a part.  The
\* read sizes cut before, in and after identity, header and fields.
CONSTANTS
  Commands <- MCCommands
  ReadBufferSize = 30
  Stray = {0, 4, 12}
  ReadSizes = {1, 4, 6, 8, 11, 12, 24, 29, 30, 36}
SPECIFICATION Spec
INVARIANTS TypeOK SingleReadsFollow WholeReadsUntorn SearchInv
PROPERTY SingleReadsEnd
