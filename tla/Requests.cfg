\* One or two requests to either server, cut into reads in every way.
SPECIFICATION RSpec
CONSTANTS
  Plans <- MCPlans
  MaxAnswers = 4
  SizeMax = 1000
  RespLen = 1
  MaxValue = 2
INVARIANTS
  AnswersAreForRequests
  WholeRequestsAreAnswered
CHECK_DEADLOCK FALSE
