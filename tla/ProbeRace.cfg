SPECIFICATION Spec
CONSTANTS
  n1 = n1
  n2 = n2
  t1 = t1
  t2 = t2
  cpu = cpu
  gpu = gpu
  batch = batch
  NoTask = NoTask
  Nodes = {n1, n2}
  Tasks = {t1, t2}
  Pools = {cpu, gpu}
  Types = {batch}
  Refs = {}
  TypeOf <- MCTypeOf
  Req <- MCReq
  Deps <- NoDeps
  Caps <- MCCaps
  Handlers <- WithHandlers
  ProbeNodes = {n1, n2}
  Preconnected = {n1, n2}
  Breakable = {n2}
  CandidateCount = 2
  QueueCapacity = 1
  MaxPreallocations = 1
  Word = 4
INVARIANTS
  AtMostOneRunner
  ReceiverHeldOnce
PROPERTIES
  ImplementsPromise
CHECK_DEADLOCK FALSE
