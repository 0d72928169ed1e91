CONSTANTS
  Producers = {p1}
  Consumers = {c1, c2}
  Controllers = {}
  Controls = {}
  Items = {a}
  NoItem = NoItem
  InitCapacity = 1
  Capacities = {}
  LowerBelowSize = FALSE
  SpuriousWakeups = FALSE
SPECIFICATION Spec
INVARIANTS
  InterruptedOnlyIfAsked
