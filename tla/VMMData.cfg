\* Two frames and three pages: a page can be evicted clean, evicted dirty and
\* brought back either way.  Counters of one bit: every one of them wraps.
CONSTANTS
  NumFrames = 2
  NumPages = 3
  CounterMod = 2
  Zero = z
  Values = {z, a}
SPECIFICATION DataSpec
INVARIANTS
  TypeOK
  TablesAgree
  AbsentIsClean
  FilledInOrder
  Accounting
  CleanIsBacked
PROPERTIES
  DirtyIsSaved
  Transparent
