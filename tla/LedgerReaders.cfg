\* One reader beside one writer with two actions: seven events are the registration of
\* both and the dispatch of one (1 + 2 + 2), with a statement of the reader between any
\* two of them. Either one action becomes a violation or one event is of another kind.
\* SQLite lets one writer in at a time and a handle remembers nothing, so that more writing
\* handles add no new interleaving.
CONSTANTS
  ActionIds = {a1, a2}
  Bindings = {b1}
  AttemptIds = {t1}
  NoAttempt = NoAttempt
  Malformed = Malformed
  None = None
  Handles = {h1}
  Requests <- DispatchRequests
  MaxTick = 0
  MaxOther = 1
  MaxEvents = 7
  MaxAside = 1
SYMMETRY Symmetry
SPECIFICATION ReadersSpec
INVARIANTS
  QuietReadsSucceed
  SnapshotsWereTrue
  ValidationSeesOneMoment
PROPERTIES
  AppendsFollowTheirReading
CHECK_DEADLOCK FALSE
