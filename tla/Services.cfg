\* One small instance of each part behind a question.
SPECIFICATION Spec
CONSTANTS
  MinYear = 2023
  MaxYear = 2025
  Todays <- MCTodays
  TimeExpressions <- MCTimeExpressions
  Clauses <- MCClauses
  Columns <- MCColumns
  Edges <- MCEdges
  UniqueKeys <- MCUniqueKeys
  Metrics <- MCMetrics
  Bridges <- MCBridges
  Mentions <- MCMentions
  CalendarTerms <- MCCalendarTerms
  DateColumns <- MCDateColumns
  TableTopK = 4
  ColumnTopK = 12
  Threshold = 3
  MaxMetrics = 3
  Bindings <- MCBindings
  Grains <- MCGrains
  DateColumn <- MCDateColumn
  DateKey <- DoneKey
  Questions <- MCQuestions
  Hits <- MCHits
  Texts <- MCTexts
  MaxAttempts = 2
  None = None
  a1 = a1
  a2 = a2
  w1 = w1
  w2 = w2
  o1 = o1
  o2 = o2
  r1 = r1
  r2 = r2
  k1 = k1
  k2 = k2
INVARIANTS
  CalendarExact
  MetricsExact
  CertifiedAnswers
  StopWins
  RunsConclude
  SlotsMatchWork
  TurnsChain
  NothingOrphaned
  HistoriesHold
  LifespanHolds
  PublishedIsWhole
  DraftIsReport
  AnalysisExact
  FollowUpExact
PROPERTIES
  ExpiredForGood
  AdmittedOnEvidence
CHECK_DEADLOCK FALSE
