SPECIFICATION StepSpec
CONSTANTS
  BodyGas = 10
  MaxU128 = 40000
  MaxI128 = 20000
  x = x
  y = y
  wallet = wallet
  intents = intents
  Quote = Quote
  Dollar = Dollar
  OpenBrace = OpenBrace
  CloseBrace = CloseBrace
  Space = Space
  PlusSign = PlusSign
  MinusSign = MinusSign
  Invalid = Invalid
  Replacement = Replacement
  Letters = {x, y}
  Absent = Absent
  PlaceNames <- SomeNames
  GasValues <- BoundaryGas
  AssertionValues <- BoundaryAssertion
  GateValues <- BoundaryGates
  Leftovers <- SomeLeftovers
  GateRequests <- SomeGateRequests
  ArgsRequests <- SomeArgsRequests
  SavedTexts <- SomeTexts
  Bps = {999, 1500, 2500, 5000, 9999}
  Root = wallet
  Others = {intents}
  Deposits = {0, 1}
  DispatchGas = {0, 30}
  Funds = 2
  MaxDispatches = 2
  MaxHops = 4
  MaxBlock = 7
  MaxQueued = 3
  YieldBlocks = 5
  MaxDelay = 1
INVARIANTS
  PairingIsRight
  BannerTellsEnd
  RootOnlyPassesThrough
  UngatedNeverPanics
  YieldFitsCeiling
  GateMeansRange
  MaterializeIsSimultaneous
  SplitsNeverOverspend
PROPERTIES
  GateSendsOnlyDirect
CHECK_DEADLOCK FALSE
