\* The policies: three frames, so that LRU's list has a head, a middle and an
\* end, and a page more, so that the hand of the clock over pages leaves the
\* frame table; one of the pages is written.  No policy reads the counters
\* (CounterMod = 1); NRU resets every second replacement, and its counter wraps
\* in the middle of that interval; ages have two bits, so that an age shifts
\* out completely.
\* Vector lengths around the powers of two; four chunks: two that change
\* places and two that stay.  Files of random numbers shorter than the first
\* array, and up to three doublings beyond it; those of 2, 4, 8 and 16 values
\* fill the array exactly.
\* Two names and three cells: a cell freed by one container is reused by the
\* other, and a container of one or of none can be cloned and deleted; two
\* objects with the same time and one with a later.  The heap starts with
\* two places and grows twice; get of seven or eight elements strays.
\* The classes are those of Lab3 and of Lab2.  Text: see the sets in Support.
CONSTANTS
  Parts = {"mmu", "classes", "classes of Lab2", "vector", "mempool", "random", "containers",
           "instructions", "reading", "splitting", "strings", "lexing"}
  NumFrames = 3
  NumPages = 4
  Writable = {0}
  CounterMod = 1
  Algorithms = {"f", "l", "r", "N", "s", "c", "C", "a", "A"}
  Interval = 2
  RequestMod = 3
  TopBit = 2
  Sizes = {1, 2, 3, 4, 5, 6, 7, 8, 9, 10, 15, 16, 17, 31, 32, 33, 63, 64, 65, 100, 127, 128}
  PoolSize = 4
  Lengths = {1, 2, 3, 4, 5, 6, 7, 8, 9, 10, 11, 12, 13, 14, 15, 16, 17, 18}
  Names = {f, g}
  Objects = {2, 3, 4}
  Cells = {c1, c2, c3}
  NIL = NIL
  START_MEM = 2
  RANDOM_MEM = 2
  MaxSize = 8
  NUM_VIRT_PAGES = 2
  InputFiles <- Untouched
  ValueOf <- Values
  Chars <- ReadChars
  Short = 4
  Long = 9
  READ_MEM = 2
  MAX_RETRIES = 2
  MaxInterrupts = 1
  TOKEN_MEM = 4
SPECIFICATION PSpec
SYMMETRY Alike
INVARIANTS
  FilledByCopies
  CallsAreAnswered
  PoolIsSafe
  ChainsAreSound
  InstructionsAreRead
  
  TextIsTaken
  SplitsIntoWords
  NoBadPointer
  ListStaysSound
PROPERTIES
  ImplementsEngine
  SparesReferencedPages
  AgesFollowPages
  NRUKeepsClasses
  EvictsInOrder
  SecondChanceIsTheClock
  WrapsAround
  KeepOrder
  HeapIsSound
