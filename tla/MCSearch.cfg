SPECIFICATION SearchSpec
SYMMETRY SymPersons
CONSTANTS
  Persons = {p1, p2, p3, p4}
  Vals = {1, 4, 8}
  Models = {"partner", "pair"}
  ValMin = 1
  ValMax = 8
  CellVal = 2
  Num = 3
  NumMin = 2
  Reduce = 1
  TransfRadio = 1
  TransfMax = 3
INVARIANTS
  MutuallyAcceptable
  MatchedOnce
  LargeEnough
  CleanMeansNothingToFind
