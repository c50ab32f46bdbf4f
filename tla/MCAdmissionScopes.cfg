SPECIFICATION GatewaySpec
CONSTANTS
  cpu = cpu
  gpu = gpu
  disk = disk
  batch = batch
  live = live
  other = other
  t1 = t1
  t2 = t2
  t3 = t3
  t4 = t4
  t5 = t5
  t6 = t6
  Pools <- MCPools
  Types <- MCTypes
  Tasks <- MCTasks
  TypeOf <- MCTypeOf
  Req <- MCReq
  Capabilities <- MCCapabilities
  Handlers <- MCHandlers
  MaxReports = 2
  Word = 8
INVARIANTS
  UsageIsHeldScopes
  NeverOvercommitted
  OneWakeupPerRelease
PROPERTIES
  RefusalMeansStale
CHECK_DEADLOCK FALSE
