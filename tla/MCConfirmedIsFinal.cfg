CONSTANTS
  r1 = r1
  r = r
  s = s
  t = t
  c1 = c1
  c2 = c2
  Observers = {o1, o2, o3, bad}
  Faulty = {bad}
  F = 1
  Ids = {r1, r, s, t}
  CallbackGasLimit <- MCGas
  CoordinatorContract <- MCCoordinators
  ZeroCoordinator = zero
  OutcomesOf <- MCOutcomesOf
  Forgeries <- MCForgeries
  Queries <- MCQueries
  DefaultAggregationMethod = "MEDIAN"
  MaxReportTotalCallbackGas = 4
  MaxUint32 = 15
  Values = {v1, v2, v3}
  MaxItems = 6
  Nil = nil
  Nodes = {n1}
  r2 = r2
  Requests = {r1, r2}
  Outcomes = {result, error}
  NoOutcome = none
  TimeoutBatch = 1
  MaxStoredRequests = 1
  PruneBatch = 2
  MaxFailures = 1
  MaxCrashes = 1
SPECIFICATION MCSpec
PROPERTIES
  ConfirmedIsFinal
CHECK_DEADLOCK FALSE
