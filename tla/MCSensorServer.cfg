SPECIFICATION Spec
CONSTANTS
  Bytes = 2
  BufferSize = 3
  Subscriber = {s1, s2}
  QueryDelay = 5
  AnswerDelay = 2
  Latency = 1
  MaxQueries = 1
  Fake = {0}
  MaxStale = 0
  MaxReports = 2
INVARIANTS
  ReportsAreTrue
PROPERTIES
  ToldInOrder
  AnswersGetThrough
CHECK_DEADLOCK FALSE
