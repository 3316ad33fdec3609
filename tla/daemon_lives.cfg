SPECIFICATION FairDaemonSpec
CONSTANTS
  Machines <- OneMachine
  Requests <- PlainOrHold
  Queues <- NoQueues
  Texts = {}
  CiJobs = {}
  Positions = {}
  Holds = {}
  FullJobs = 24
  SharedJobs = 12
  CiExpiry = 1
  MaxId = 4
  MaxTime = 0
  None = None
  Conns <- Two
  Ask <- AskPlain
  Inside <- InsideNone
  Advisory = {"b"}
  Mortal = {}
  Interrupted = {"b"}
  Forking = {"a", "b"}
  Orders <- CancelEach
  MaxOrders = 1
  MaxRestarts = 1

PROPERTIES Served StopsJob
CHECK_DEADLOCK FALSE
