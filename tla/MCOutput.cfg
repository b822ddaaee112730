SPECIFICATION ScheduledSpec
CONSTANTS
  MaxBytes = 3
  ReadSize = 2
  PipeSize = 3
  MaxWrite = 5
INVARIANTS
  OutputIsComplete
  MemoryIsBounded
  NoChildLeft
  SomebodyCanGoOn
PROPERTIES
  EndsByDeadline
  EveryReadTakes
  EndsWithChild
