\* One action, two bindings (its own and another one), three attempt identifiers and
\* eleven calls that change the machine. To COMPLETE by a redispatch after one lookup
\* takes nine, up to a third dispatch after two lookups takes eleven.
\* No deadlock check: the bound on the calls stops the machine short of VIOLATION.
CONSTANTS
  ActionIds = {a1}
  Bindings = {b1, b2}
  AttemptIds = {t1, t2, t3}
  NoAttempt = NoAttempt
  Malformed = Malformed
  CallsMade <- MCCalls
  MaxHistory = 11
SYMMETRY Symmetry
SPECIFICATION Spec
INVARIANTS
  TypeOK
  HistoryExplainsState
  AttemptsAreDispatches
  RetryNeedsNonCommitEvidence
  StopOnlyWhenAccountedFor
PROPERTIES
  FinishedStaysFinished
  ImplementsLifecycle
CHECK_DEADLOCK FALSE
