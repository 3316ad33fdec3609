SPECIFICATION Spec
CONSTANTS
  Machines <- OneMachine
  Requests <- MixedRequests
  Queues <- OneQueue
  Texts = {"enki"}
  CiJobs = {"gpu"}
  Positions = {0}
  Holds = {1}
  FullJobs = 24
  SharedJobs = 12
  CiExpiry = 1
  MaxId = 3
  MaxTime = 1
  None = None
INVARIANTS TypeOK LeasesAgree QueueInOrder
PROPERTIES GrantInOrder PreemptEndsSession LeaseSpec
CHECK_DEADLOCK FALSE
