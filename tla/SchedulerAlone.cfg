\* One scheduler that owns its clock, four items, ticks 0 to 3.
\* No deadlock check: when every item is scheduled and popped, nothing is left to do.
CONSTANTS
  Schedulers = {s1}
  MayAdvance = FALSE
  MaxTick = 3
  MaxItems = 4
SPECIFICATION LiveSpec
PROPERTIES
  EveryItemPopped
CHECK_DEADLOCK FALSE
