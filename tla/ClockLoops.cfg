\* A page more than frames; the hand over pages leaves the frame table, and
\* a sweep can go round more than once.
CONSTANTS
  NumFrames = 2
  NumPages = 3
  CounterMod = 1
SPECIFICATION LoopsSpec
PROPERTIES
  LoopEnds
  LoopIsSweep
