\* Files of up to five printable characters, and a buffer of four: a file of
\* two fills half of it.
CONSTANTS
  Chars = {"p"}
  Short = 0
  Long = 5
  READ_MEM = 4
  MAX_RETRIES = 2
  MaxInterrupts = 1
SPECIFICATION ReadingSpec
PROPERTY
  ReadEnds
