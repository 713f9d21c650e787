\* One or two processes suffice.
CONSTANTS
  Algorithms = {"F", "L", "S", "R"}
  Quanta = {1, 2}
  MaxProcs = 2
  ATs = {0, 3}
  TCs = {1, 2, 3}
  CBs = {2}
  IOs = {2}
SPECIFICATION Spec
INVARIANTS
  TurnaroundIsSpent
