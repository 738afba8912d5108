SPECIFICATION Spec
CONSTANTS
  alice = alice
  bob = bob
  a = a
  b = b
  c = c
  x = x
  None = None
  Accounts = {alice}
  Owner = alice
  Delegates = {}
  Callers = {alice}
  StepIds = {a, b, c}
  Names = {x}
  GateGas = {TRUE}
  Triggers = {}
  SequenceIds = {}
  MaxNonce = 0
  MaxYields = 3
  MaxReleases = 1
  MaxBalance = 0
  Steps <- SoundSteps
  Plans <- SoundPlans
  Orders <- SoundOrders
PROPERTIES
  CompletedMeansAllOk
CHECK_DEADLOCK FALSE
