SPECIFICATION CallSpec
CONSTANTS
  s1 = s1
  c1 = c1
  c2 = c2
  Sessions = {s1}
  Releasers = {}
  PowerCalls = {}
  Calls = {c1, c2}
  MaxGeneration = 2
  BatchSize = 2
SYMMETRY Symmetry
CHECK_DEADLOCK FALSE
INVARIANTS
  AnswersAreTrue
