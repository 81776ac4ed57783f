\* One action driven by one process through the whole graph, with strong and with weak
\* evidence. Fourteen events are the proposal, PREPARED (two events), a dispatch (two),
\* a lookup or a rejection, a redispatch and what follows up to COMPLETE.
\* No deadlock check: the bound on the events and a closed, valid ledger may end a run.
CONSTANTS
  ActionIds = {a1}
  Bindings = {b1}
  AttemptIds = {t1, t2}
  NoAttempt = NoAttempt
  Malformed = Malformed
  None = None
  Handles = {h1}
  Requests <- AllRequests
  MaxTick = 0
  MaxOther = 0
  MaxEvents = 14
SYMMETRY Symmetry
SPECIFICATION Spec
INVARIANTS
  TypeOK
  AlwaysReopens
PROPERTIES
  AppendOnly
  ImplementsLifecycle
CHECK_DEADLOCK FALSE
