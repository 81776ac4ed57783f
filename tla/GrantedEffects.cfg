\* Two actions under one grant of one effect, valid through tick 1 of 2; the second is a
\* compensation named by an earlier, expired grant. Three attempts, so that an action may
\* retry while the other is under way, and every way of asking wrongly.
CONSTANTS
  a1 = a1
  a2 = a2
  k1 = k1
  k2 = k2
  current = current
  earlier = earlier
  owner = owner
  mail = mail
  send = send
  text = text
  MaxEffects = 1
  ActionIds = {a1, a2}
  Bindings <- MCBindings
  AttemptIds = {t1, t2, t3}
  NoAttempt = NoAttempt
  Malformed = Malformed
  Keys = {k1, k2}
  Authorities = {current, earlier}
  Subjects = {owner, other}
  Services = {mail}
  ServiceOperations = {send}
  Parameters = {text, letter}
  NoAction = NoAction
  NoGrant = NoGrant
  NotAsked = NotAsked
  Plan <- MCPlan
  Forms = {"planned", "foreign confirmation", "foreign subject", "foreign intent", "own grant as original"}
  MaxTick = 2
SYMMETRY Symmetry
SPECIFICATION Spec
INVARIANTS
  AnswersFitTheMachine
  EffectsWithinGrant
  ViolationsAreDeserved
  CommittedStaysObservable
PROPERTIES
  ErrorsAreFinal
  LateOnlyByDelay
  AnswersOnlyWorsen
CHECK_DEADLOCK FALSE
