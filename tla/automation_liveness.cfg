SPECIFICATION FairSmartAccount
CONSTANTS
  alice = alice
  bob = bob
  a = a
  b = b
  c = c
  x = x
  None = None
  Accounts = {alice}
  Owner = alice
  Delegates = {}
  Callers = {}
  StepIds = {a, b, c}
  Names = {x}
  GateGas = {TRUE}
  Triggers = {t1}
  SequenceIds = {q}
  MaxNonce = 1
  MaxYields = 4
  MaxReleases = 2
  MaxBalance = 0
  t1 = t1
  t2 = t2
  q = q
  pk1 = pk1
  Orders = {}
  Minima = {0}
  MaxCreations = 2
  PublicKeys = {}
  MaxTime = 0
  MaxFires = 0
  MaxKeyReceipts = 0
  AuthorizerModes = {"self"}
  Steps <- ReuseSteps
  Plans <- ReusePlans
PROPERTIES
  RunsFinish
  StepsLeave
CHECK_DEADLOCK FALSE
