\* Values whose two bytes differ, and whose bytes occur in the frame.
CONSTANTS
  Numbers = {0, 26112}
  Names = {8995, 101}
  Settings = {0, 255}
SPECIFICATION Spec
INVARIANT ReadsBack
