SPECIFICATION DaemonSpec
CONSTANTS
  Machines <- OneMachine
  Requests <- PlainOrHold
  Queues <- NoQueues
  Texts = {}
  CiJobs = {}
  Positions = {}
  Holds = {}
  FullJobs = 24
  SharedJobs = 12
  CiExpiry = 1
  MaxId = 4
  MaxTime = 0
  None = None
  Conns <- Two
  Ask <- AskPlain
  Inside <- InsideNone
  Advisory = {"b"}
  Mortal = {}
  Interrupted = {}
  Forking = {}
  Orders <- NoOrders
  MaxOrders = 0
  MaxRestarts = 0
INVARIANTS LeaseEndsWithConnection
CHECK_DEADLOCK FALSE
