SPECIFICATION FairSpec
CONSTANTS
  n1 = n1
  n2 = n2
  t1 = t1
  t2 = t2
  cpu = cpu
  gpu = gpu
  batch = batch
  NoTask = NoTask
  Nodes = {n1, n2}
  Tasks = {t1, t2}
  Pools = {cpu, gpu}
  Types = {batch}
  Refs = {}
  TypeOf <- MCTypeOf
  Req <- MixedReq
  Deps <- NoDeps
  Caps <- MixedCaps
  Handlers <- WithHandlers
  ProbeNodes = {n1, n2}
  Preconnected = {n1}
  Breakable = {}
  CandidateCount = 2
  QueueCapacity = 1
  MaxPreallocations = 1
  Word = 4
 
PROPERTIES
  EveryTaskResolves
  EveryPullEnds
  EveryQueuedProbeLeaves
CHECK_DEADLOCK FALSE
