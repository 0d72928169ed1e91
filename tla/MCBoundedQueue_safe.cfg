CONSTANTS
  Producers = {p1, p2}
  Consumers = {c1, c2}
  Controllers = {k}
  Controls = {"shutdown", "reset", "clear", "interrupt", "setCapacity"}
  Items = {a, b}
  NoItem = NoItem
  InitCapacity = 1
  Capacities = {0, 2}
  LowerBelowSize = FALSE
  SpuriousWakeups = TRUE
SYMMETRY Symmetry
SPECIFICATION Spec
INVARIANTS
  TypeOK
  NoItemOverlooked
  NobodySleepsInAShutDownQueue
PROPERTIES
  IsFifoChannel
