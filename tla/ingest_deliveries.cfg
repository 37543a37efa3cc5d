CONSTANTS
  Handlers = {h1, h2}
  YookassaEvents = {e1}
  GenericPaid = {g1}
  GenericFailed = {g2}
  NoEvent = NoEvent
  MaxFaults = 2
SPECIFICATION FairSpec
INVARIANTS
  TypeOK
  RecordedWorkIsDone
  AnsweredIsQueuedOrUnderWay
PROPERTIES
  DeliversAtMostOnce
  DeliversEach
CHECK_DEADLOCK FALSE
