CONSTANTS
  Tasks = {t1, t2}
  NoTask = NoTask
  AddTwice = FALSE
SPECIFICATION Spec
INVARIANTS
  TypeOK
  ResultIsCollectedOnce
  NotYetMeansInProgress
PROPERTIES
  PollAnswersTruly
  PollNoticesCompletion
