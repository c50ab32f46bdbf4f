SPECIFICATION Spec
CONSTANTS
  n1 = n1
  t1 = t1
  t2 = t2
  t3 = t3
  t4 = t4
  cpu = cpu
  gpu = gpu
  batch = batch
  live = live
  r1 = r1
  NoTask = NoTask
  Nodes = {n1}
  Tasks = {t1, t2, t3, t4}
  Pools = {cpu, gpu}
  Types = {batch, live}
  Refs = {r1}
  Cancellable = {t2}
  TypeOf <- MCTypeOf
  Req <- MCReq
  Deps <- MCDeps
  Caps <- MCCaps
  Handlers <- MCHandlers
  QueueCapacity = 2
  MaxPreallocations = 1
  Word = 8
INVARIANTS
  AnswersOnce
  NoProbeLost
  CancelRelinquishes
  ReservationsExact
  NoMissedWakeup
CHECK_DEADLOCK FALSE
