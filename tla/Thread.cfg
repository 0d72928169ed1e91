CONSTANTS
  Starters = {m, k}
  Stoppers = {m, k}
  Joiners = {m}
  CreateMayFail = TRUE
  MaxRuns = 3
SPECIFICATION Spec
INVARIANTS
  TypeOK
  RunsDoNotOverlap
  JoinMeansOver
  NoStaleRequest
PROPERTIES
  RequestIsNotTakenBack
  StoppedRunEnds
