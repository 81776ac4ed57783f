\* One action and three attempts, every edge with full and with partial evidence, and
\* eleven calls, enough for a third dispatch after two lookups.
\* No deadlock check: the bound on the calls, or VIOLATION, ends a behaviour.
CONSTANTS
  ActionIds = {a1}
  Bindings = {b1}
  AttemptIds = {t1, t2, t3}
  NoAttempt = NoAttempt
  Malformed = Malformed
  CallsMade <- MCCalls
  MaxHistory = 11
SYMMETRY Symmetry
SPECIFICATION RecoverySpec
INVARIANTS
  AtMostOneEffect
  CompleteMeansDone
PROPERTIES
  RetryableMeansAbsent
CHECK_DEADLOCK FALSE
