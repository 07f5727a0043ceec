SPECIFICATION HttpSpec
CONSTANTS
  Connection = {"e", "w"}
  ServerOf <- MCServerOf
  Header <- MCHeader
  BodyLimit = 3
  MaxChunk = 2
CHECK_DEADLOCK FALSE
INVARIANTS
  TimerIffPending
  AnswersWholeBody
PROPERTIES
  AnsweredOnce
  EveryConnectionEnds
