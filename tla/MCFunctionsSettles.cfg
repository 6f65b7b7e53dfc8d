CONSTANTS
  r1 = r1
  c1 = c1
  Nodes = {n1, n2, n3}
  Faulty = {bad}
  F = 1
  NoLeader = nobody
  Observers = {n1, n2, n3, bad}
  Requests = {r1}
  Ids = {r1}
  Outcomes <- MCResult
  NoOutcome = none
  CallbackGasLimit <- MCGas
  CoordinatorContract <- MCCoordinators
  ZeroCoordinator = zero
  Forgeries <- MCNone
  Queries <- MCQueries
  MaxRequestBatchSize = 1
  MaxReportTotalCallbackGas = 4
  MaxUint32 = 15
  DefaultAggregationMethod = "MODE"
  TimeoutBatch = 1
  MaxStoredRequests = 1
  PruneBatch = 1
  MaxMishaps = 1
SPECIFICATION MCSpec
PROPERTIES
  NetworkSettles
\* Once the request is answered everywhere nothing is left to do.
CHECK_DEADLOCK FALSE
