SPECIFICATION DaemonSpec
CONSTANTS
  Machines <- OneMachine
  Requests <- PlainOrHold
  Queues <- OneQueue
  Texts = {"enki"}
  CiJobs = {"gpu"}
  Positions = {}
  Holds = {}
  FullJobs = 24
  SharedJobs = 12
  CiExpiry = 1
  MaxId = 4
  MaxTime = 0
  None = None
  Conns <- Nested
  Ask <- AskSession
  Inside <- InsideSession
  Advisory = {}
  Mortal = {"n"}
  Interrupted = {}
  Forking = {"a", "n"}
  Orders <- EveryOrder
  MaxOrders = 1
  MaxRestarts = 0
INVARIANTS ServingHolds JobIsLeased ExclusiveJobs NoIdleMachine
CHECK_DEADLOCK FALSE
