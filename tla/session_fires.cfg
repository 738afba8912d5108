SPECIFICATION SmartAccountSpec
CONSTANTS
  alice = alice
  bob = bob
  a = a
  b = b
  c = c
  x = x
  None = None
  Accounts = {alice, bob}
  Owner = alice
  Delegates = {}
  Callers = {}
  StepIds = {a, b, c}
  Names = {x}
  GateGas = {TRUE}
  Triggers = {t1}
  SequenceIds = {q}
  MaxNonce = 3
  MaxYields = 3
  MaxReleases = 3
  MaxBalance = 0
  t1 = t1
  t2 = t2
  q = q
  pk1 = pk1
  Orders = {}
  Minima = {0}
  MaxCreations = 1
  PublicKeys = {pk1}
  MaxTime = 2
  MaxFires = 2
  MaxKeyReceipts = 1
  AuthorizerModes = {"self"}
  Steps <- SingleSteps
  Plans <- SinglePlans
INVARIANTS
  FireCapHolds
PROPERTIES
  FireStartsOneRun
CHECK_DEADLOCK FALSE
