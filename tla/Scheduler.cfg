\* Up to three processes, together or at a distance, with bursts that the
\* quanta cut and leave; every draw of random.c.
CONSTANTS
  Algorithms = {"F", "L", "S", "R"}
  Quanta = {1, 2}
  MaxProcs = 3
  ATs = {0, 3}
  TCs = {0, 1, 4}
  CBs = {3}
  IOs = {1}
SPECIFICATION Spec
INVARIANTS
  EachInOnePlace
  TimeIsUse
  AllAreServed
PROPERTIES
  ImplementsProcessor
  Terminates
