\* -f 1, which main accepts.
CONSTANTS
  NumFrames = 1
  NumPages = 2
  CounterMod = 1
SPECIFICATION LRUSpec
INVARIANT
  NeverCrashes
