\* Two schedulers and anybody else on one clock, three items each, ticks 0 to 2.
\* No deadlock check: when every item is scheduled and popped, or blocked, nothing is left.
CONSTANTS
  Schedulers = {s1, s2}
  MayAdvance = TRUE
  MaxTick = 2
  MaxItems = 3
SYMMETRY Symmetry
SPECIFICATION Spec
INVARIANTS
  PopsInOrder
  NothingLost
PROPERTIES
  LateItemsBlock
CHECK_DEADLOCK FALSE
