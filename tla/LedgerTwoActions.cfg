\* Two actions that compete for the same two attempt identifiers. Twelve events are what
\* both need to be proposed, authorized, prepared and dispatched once.
\* No deadlock check: the bound on the events ends a run.
CONSTANTS
  ActionIds = {a1, a2}
  Bindings = {b1}
  AttemptIds = {t1, t2}
  NoAttempt = NoAttempt
  Malformed = Malformed
  None = None
  Handles = {h1}
  Requests <- DispatchRequests
  MaxTick = 0
  MaxOther = 0
  MaxEvents = 12
SYMMETRY Symmetry
SPECIFICATION Spec
INVARIANTS
  AlwaysReopens
  PermitsAreDurable
PROPERTIES
  ImplementsLifecycle
CHECK_DEADLOCK FALSE
