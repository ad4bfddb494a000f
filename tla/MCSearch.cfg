SPECIFICATION Spec
CONSTANTS
  Position <- MCPosition
  WhiteToPlay <- MCWhiteToPlay
  Children <- MCChildren
  Evals <- MCEvals
  Infinity = 9
  Stray <- MCStray
  Roots <- MCRoots
  NoMove = NoMove
  MaxCutoff = 3
  Lo <- MCLo
  Hi <- MCHi
  Games = {"wide", "deep", "drift", "small"}
INVARIANTS
  ReturnSound
  BestOfTried
PROPERTIES
  IterationExact
  IsGameThread
  Stops
  IterationEnds
CHECK_DEADLOCK FALSE
