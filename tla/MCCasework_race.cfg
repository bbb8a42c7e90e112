SPECIFICATION Spec
CONSTANTS
  Null = Null
  Pipelines <- AnyPipeline
  Form <- GrantForm
  Ceiling = Null
  Officers = {o1, o2}
  Owns <- EveryStage
  Holds <- EveryPower
  Tabs = {t1, t2}
  MaxVersion = 4
  MaxStatusVersion = 4
  TrailLimit = 1
SYMMETRY Alike
CHECK_DEADLOCK FALSE
INVARIANTS TypeOK EditLockMatchesRequests HistoryIsContinuous TrailIsAPath RevisionTouchesOnlyRequested AnswersAreAsked
PROPERTIES WritesAreAtomic SubmissionFreezesCurrent ImplementsFileTurn ServesItsNeighbours
