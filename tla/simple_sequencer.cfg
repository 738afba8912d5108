SPECIFICATION FairSpec
CONSTANTS
  alice = alice
  s1 = s1
  s2 = s2
  s3 = s3
  None = None
  Callers = {alice}
  StepIds = {s1, s2, s3}
  Funding = {TRUE, FALSE}
  MaxYields = 4
  MaxRuns = 2
  Orders <- SomeOrders
INVARIANTS
  CallbackFindsOwnStep
  RecordedInOrder
PROPERTIES
  KeepsPromise
  QueueDrains
CHECK_DEADLOCK FALSE
