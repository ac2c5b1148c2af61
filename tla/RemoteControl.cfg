\* One handler thread; a ch_cnt that is refused, one that fills a node to the
\* last sample, one that does not divide it and one that exceeds it.
CONSTANTS
  Handlers = {tcp}
  Channels = {0, 1, 2, 5}
  Room = 3
  Heartbeats = 2
  MaxChoices = 2
  MaxStops = 2
SPECIFICATION RFairSpec
INVARIANTS TypeOK UndisturbedFillFits
INVARIANTS AnswersLagByEmptyReturns BreakCostsOneAnswer SuccessIsInForce
INVARIANTS ParametersAreTheLastAccepted LogTellsStarts
PROPERTY RequestIsAnswered
CHECK_DEADLOCK FALSE
