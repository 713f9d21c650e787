\* The calls are those of Asked, with a buffer of two and tokens of four
\* characters at first; the other constants are those of Support.cfg.
CONSTANTS
  Parts = {}
  NumFrames = 3
  NumPages = 4
  Writable = {0}
  CounterMod = 1
  Algorithms = {"r"}
  Interval = 2
  RequestMod = 3
  TopBit = 2
  Sizes = {1, 2, 3, 4, 5, 6, 7, 8, 9, 10, 15, 16, 17, 31, 32, 33, 63, 64, 65, 100, 127, 128}
  PoolSize = 4
  Lengths = {1, 2, 3, 4, 5, 6, 7, 8, 9, 10, 11, 12, 13, 14, 15, 16, 17, 18}
  Names = {f, g}
  Objects = {2, 3, 4}
  Cells = {c1, c2, c3}
  NIL = NIL
  START_MEM = 2
  RANDOM_MEM = 2
  MaxSize = 8
  NUM_VIRT_PAGES = 2
  InputFiles <- Untouched
  ValueOf <- Values
  Chars <- ReadChars
  Short = 4
  Long = 9
  READ_MEM = 2
  MAX_RETRIES = 2
  MaxInterrupts = 1
  TOKEN_MEM = 4
SPECIFICATION LibrarySpec
INVARIANT
  AsDocumented
