\* Two processes race to create one run, die at any step, reopen, and share the counters
\* up to 2: enough for a first dispatch, its rejection and a redispatch, and for the
\* overflow of an allocator.
CONSTANTS
  ActionIds = {a1}
  Bindings = {b1}
  AttemptIds = {1, 2}
  NoAttempt = NoAttempt
  Malformed = Malformed
  None = None
  Handles = {h1, h2}
  Requests <- ShortRequests
  MaxTick = 0
  MaxOther = 0
  MaxEvents = 8
  EffectKinds = {email}
  MaxCounter = 2
SYMMETRY Symmetry
SPECIFICATION RunSpec
INVARIANTS
  HandlesNeedASchema
  ReuseOnlyAfterResumption
PROPERTIES
  NothingIsReplaced
  AbandonedStaysClosed
CHECK_DEADLOCK FALSE
