CONSTANTS
  Producers = {p1, p2}
  Consumers = {c1}
  Controllers = {k}
  Controls = {"shutdown", "interrupt"}
  Items = {a}
  NoItem = NoItem
  InitCapacity = 1
  Capacities = {}
  LowerBelowSize = FALSE
  SpuriousWakeups = FALSE
SPECIFICATION Spec
INVARIANTS
  NoSpaceOverlooked
  SoleConsumerInterruptedOnlyIfAsked
PROPERTIES
  ShutdownReleasesCalls
  BlockedPutReturns
