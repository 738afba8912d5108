SPECIFICATION FairSpec
CONSTANTS
  None = None
  Flows = {1, 2}
  Numbers = {7, 8}
  Deposits = {0, 1, 2}
  Attached = {1, 3}
  ExtraGas = {69, 94, 320}
INVARIANTS
  CompletedIsWorkDone
  PollSeesFreshEcho
  BooksBalance
  StepBudgetSuffices
PROPERTIES
  AdaptersAnswer
CHECK_DEADLOCK FALSE
