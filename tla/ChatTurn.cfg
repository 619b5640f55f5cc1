\* Two questions, suspended up to twice, with failures, a death of the
\* process and a deletion at any point.
SPECIFICATION FairSpec
CONSTANTS
  MaxQuestions = 2
  MaxCrashes = 1
  MaxSuspends = 2
  Between = FALSE
INVARIANTS SuspensionSurvives AnswersAreStored NoStaleSuspension NoDanglingRows PurgeLeavesNothing
PROPERTY DeletedIsPurged
CHECK_DEADLOCK FALSE
