SPECIFICATION Spec
CONSTANTS
  alice = alice
  bob = bob
  a = a
  b = b
  c = c
  x = x
  None = None
  Accounts = {alice, bob}
  Owner = alice
  Delegates = {bob}
  Callers = {alice}
  StepIds = {a, b, c}
  Names = {x}
  GateGas = {TRUE, FALSE}
  Triggers = {}
  SequenceIds = {}
  MaxNonce = 0
  MaxYields = 4
  MaxReleases = 3
  MaxBalance = 1
  Steps <- PaidSteps
  Plans <- PaidPlans
  Orders <- PaidOrders
INVARIANTS
  CallbackFindsOwnStep
  OnlyPanicsStrand
  WaitingHasDriver
  FirstRunOrdered
CHECK_DEADLOCK FALSE
