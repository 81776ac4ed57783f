\* The instance of LedgerTicks, asking that every forbidden call leaves the action in
\* VIOLATION. A call with an earlier tick than the last event does not.
CONSTANTS
  ActionIds = {a1}
  Bindings = {b1, b2}
  AttemptIds = {t1, t2}
  NoAttempt = NoAttempt
  Malformed = Malformed
  None = None
  Handles = {h1, h2}
  Requests <- ShortRequests
  MaxTick = 1
  MaxOther = 1
  MaxEvents = 9
SYMMETRY Symmetry
SPECIFICATION Spec
INVARIANTS
  ForbiddenCallsAreRecorded
CHECK_DEADLOCK FALSE
