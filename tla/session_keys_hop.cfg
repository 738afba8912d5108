SPECIFICATION Spec
CONSTANTS
  pk1 = pk1
  pk2 = pk2
  t1 = t1
  dapp = dapp
  m1 = m1
  None = None
  PublicKeys = {pk1, pk2}
  Triggers = {t1}
  MaxTime = 2
  MaxFires = 1
  MaxKeyReceipts = 2
  AuthorizerModes = {"root"}
  Targets = {dapp}
  MethodNames = {m1}
  MaxToll = 1
  MaxCalls = 2
  MaxPurse = 2
  Layouts = {"current"}
  SessionOffers <- OneOfEach
  ProxyOffers <- OneProxy
INVARIANTS
  NoKeyWithoutGrant
CHECK_DEADLOCK FALSE
