SPECIFICATION FairSpec
CONSTANTS
  n1 = n1
  n2 = n2
  r1 = r1
  r2 = r2
  c1 = c1
  cpu = cpu
  flow = flow
  rare = rare
  NoTask = NoTask
  Nodes = {n1, n2}
  Tasks = {r1, r2, c1}
  Pools = {cpu}
  Types = {flow, rare}
  TypeOf <- MCTypeOf
  Req <- MCReq
  Parent <- MCParent
  Caps <- MCCaps
  Handlers <- MCHandlers
  CapabilityAware = TRUE
  Preconnected = {n1}
  Breakable = {n1, n2}
  Word = 4
INVARIANTS
  OneCopy
  ReceiverHeld
PROPERTIES
  ImplementsPromise
  EveryTaskResolves
CHECK_DEADLOCK FALSE
