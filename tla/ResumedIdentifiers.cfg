\* The instance of RunLifetime.cfg: the run is reopened by a second process, and its
\* allocator starts over.
CONSTANTS
  ActionIds = {a1}
  Bindings = {b1}
  AttemptIds = {1, 2}
  NoAttempt = NoAttempt
  Malformed = Malformed
  None = None
  Handles = {h1, h2}
  Requests <- ShortRequests
  MaxTick = 0
  MaxOther = 0
  MaxEvents = 8
  EffectKinds = {email}
  MaxCounter = 2
SYMMETRY Symmetry
SPECIFICATION RunSpec
INVARIANT IdentifiersAreNew
CHECK_DEADLOCK FALSE
