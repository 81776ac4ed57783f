\* Two handles on one ledger, two ticks, an event of another kind and a caller that may
\* name the wrong binding. Nine events reach a redispatch after a rejection.
\* No deadlock check: the bound on the events ends a run.
CONSTANTS
  ActionIds = {a1}
  Bindings = {b1, b2}
  AttemptIds = {t1, t2}
  NoAttempt = NoAttempt
  Malformed = Malformed
  None = None
  Handles = {h1, h2}
  Requests <- ShortRequests
  MaxTick = 1
  MaxOther = 1
  MaxEvents = 9
SYMMETRY Symmetry
SPECIFICATION Spec
INVARIANTS
  AlwaysReopens
PROPERTIES
  ImplementsMachines
CHECK_DEADLOCK FALSE
