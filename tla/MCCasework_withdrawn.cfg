SPECIFICATION Spec
CONSTANTS
  Null = Null
  Pipelines <- RingOnly
  Form <- LoanForm
  Ceiling = Null
  Officers = {o1}
  Owns <- EveryStage
  Holds <- EveryPower
  Tabs = {t1}
  MaxVersion = 5
  MaxStatusVersion = 7
  TrailLimit = 8
CHECK_DEADLOCK FALSE
INVARIANT ResubmissionStaysInOpenScope
