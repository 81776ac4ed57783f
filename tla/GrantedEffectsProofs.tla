------------------------- MODULE GrantedEffectsProofs -------------------------
(***************************************************************************)
(* What the answers of the authority engine amount to, for every plan,     *)
(* every set of actions and grants, and every way of asking.               *)
(***************************************************************************)
EXTENDS GrantedEffects, TransitionRulesProofs, FiniteSetTheorems

-----------------------------------------------------------------------------
(***************************************************************************)
(* What check_authority answers, for every grant and every request: which  *)
(* reason wins, and which call a decision can name.                        *)
(***************************************************************************)

Places == 1..10

\* The precedence of reasons has ten places, and expiry the last.
LEMMA PrecedenceShape ==
  /\ DOMAIN REASON_PRECEDENCE = Places
  /\ \A n \in Places : REASON_PRECEDENCE[n] \in DefectReasons
  /\ \A n \in Places : REASON_PRECEDENCE[n] = "AUTH_EXPIRED" => n = 10
  /\ REASON_PRECEDENCE[10] = "AUTH_EXPIRED"
<1>1. DOMAIN REASON_PRECEDENCE = Places
  BY DEF REASON_PRECEDENCE, Places
<1>2. \A n \in Places : REASON_PRECEDENCE[n] = "AUTH_EXPIRED" => n = 10
  <2> SUFFICES ASSUME NEW n \in Places, REASON_PRECEDENCE[n] = "AUTH_EXPIRED" PROVE n = 10
    OBVIOUS
  <2>1. n \in {1, 2, 3, 4, 5, 6, 7, 8, 9, 10}
    BY DEF Places
  <2> QED BY <2>1 DEF REASON_PRECEDENCE
<1>3. REASON_PRECEDENCE[10] = "AUTH_EXPIRED"
  BY DEF REASON_PRECEDENCE
<1> QED BY <1>1, <1>2, <1>3 DEF DefectReasons

\* A set of places has a first one.
LEMMA FirstPlace ==
  ASSUME NEW S \in SUBSET Places, S # {}
  PROVE  Min(S) \in S /\ \A n \in S : Min(S) <= n
<1>1. \E m \in S : \A n \in S : m <= n
  <2> SUFFICES ASSUME \A m \in S : \E n \in S : n < m PROVE FALSE
    BY DEF Places
  <2>1. 1 \notin S
    BY DEF Places
  <2>2. 2 \notin S
    BY <2>1 DEF Places
  <2>3. 3 \notin S /\ 4 \notin S
    BY <2>1, <2>2 DEF Places
  <2>4. 5 \notin S /\ 6 \notin S
    BY <2>1, <2>2, <2>3 DEF Places
  <2>5. 7 \notin S /\ 8 \notin S
    BY <2>1, <2>2, <2>3, <2>4 DEF Places
  <2>6. 9 \notin S /\ 10 \notin S
    BY <2>1, <2>2, <2>3, <2>4, <2>5 DEF Places
  <2>7. PICK m \in S : m \in Places
    OBVIOUS
  <2>8. m \in {1, 2, 3, 4, 5, 6, 7, 8, 9, 10}
    BY <2>7 DEF Places
  <2> QED BY <2>1, <2>2, <2>3, <2>4, <2>5, <2>6, <2>8
<1> QED BY <1>1 DEF Min

\* The winning place is 0 without a defect, and otherwise that of the first defect.
LEMMA WinningPlace ==
  ASSUME NEW grant, NEW check
  PROVE  /\ Winning(grant, check) = 0 =>
              \A n \in Places : ~IsDefect(grant, check, REASON_PRECEDENCE[n])
         /\ Winning(grant, check) # 0 =>
              /\ Winning(grant, check) \in Places
              /\ IsDefect(grant, check, REASON_PRECEDENCE[Winning(grant, check)])
              /\ \A n \in Places :
                   IsDefect(grant, check, REASON_PRECEDENCE[n]) => Winning(grant, check) <= n
<1> DEFINE found == {n \in Places : IsDefect(grant, check, REASON_PRECEDENCE[n])}
<1>1. Winning(grant, check) = IF found = {} THEN 0 ELSE Min(found)
  BY PrecedenceShape DEF Winning
<1>2. found # {} => Min(found) \in found /\ \A n \in found : Min(found) <= n
  BY FirstPlace
<1>3. 0 \notin Places
  BY DEF Places
<1> HIDE DEF found
<1>4. CASE found = {}
  BY <1>1, <1>4 DEF found
<1>5. CASE found # {}
  <2>1. Winning(grant, check) \in found /\ \A n \in found : Winning(grant, check) <= n
    BY <1>1, <1>2, <1>5
  <2> QED BY <1>3, <2>1 DEF found
<1> QED BY <1>4, <1>5

-----------------------------------------------------------------------------
Allowed(check) ==
  CASE check.kind = "AUTHORIZE" ->
         Decision("ALLOW", "AUTHORIZED", "AUTHORIZED", "authority_confirmed")
    [] check.kind = "READ_ONLY" -> Decision("ALLOW", "READ_ONLY_ALLOWED", "none", "none")
    [] OTHER -> Decision("ALLOW", "REVALIDATED", "none", "none")

\* The answers, one by one.
LEMMA Answers ==
  ASSUME NEW grant, NEW check
  PROVE  LET d == check_authority(grant, check)
             n == Winning(grant, check)
         IN  \/ /\ n = 0 /\ check.kind = "AUTHORIZE"
                /\ d = Decision("ALLOW", "AUTHORIZED", "AUTHORIZED", "authority_confirmed")
             \/ /\ n = 0 /\ check.kind = "READ_ONLY"
                /\ d = Decision("ALLOW", "READ_ONLY_ALLOWED", "none", "none")
             \/ /\ n = 0 /\ check.kind \notin {"AUTHORIZE", "READ_ONLY"}
                /\ d = Decision("ALLOW", "REVALIDATED", "none", "none")
             \/ /\ n = 10 /\ check.kind = "PASSIVE_PRE_DISPATCH"
                /\ d = Decision("SAFE_STOP", "AUTH_EXPIRED", "SAFE_STOP", "safe_stop_selected")
             \/ /\ n \in Places /\ ~(n = 10 /\ check.kind = "PASSIVE_PRE_DISPATCH")
                /\ d = Decision("VIOLATION", REASON_PRECEDENCE[n], "VIOLATION",
                                "invariant_violation")
<1> DEFINE d == check_authority(grant, check)
           n == Winning(grant, check)
<1>1. CASE n = 0
  <2>1. d = Allowed(check)
    BY <1>1 DEF check_authority, Allowed
  <2>2. CASE check.kind = "AUTHORIZE"
    BY <1>1, <2>1, <2>2 DEF Allowed
  <2>3. CASE check.kind = "READ_ONLY"
    BY <1>1, <2>1, <2>3 DEF Allowed
  <2>4. CASE check.kind \notin {"AUTHORIZE", "READ_ONLY"}
    <3>1. Allowed(check) = Decision("ALLOW", "REVALIDATED", "none", "none")
      BY <2>4 DEF Allowed
    <3> QED BY <1>1, <2>1, <2>4, <3>1
  <2> QED BY <2>2, <2>3, <2>4
<1>2. CASE n # 0
  <2>1. n \in Places
    BY <1>2, WinningPlace
  <2>2. REASON_PRECEDENCE[n] = "AUTH_EXPIRED" <=> n = 10
    BY <2>1, PrecedenceShape
  <2>3. d = IF StopsSafely(check, REASON_PRECEDENCE[n])
            THEN Decision("SAFE_STOP", "AUTH_EXPIRED", "SAFE_STOP", "safe_stop_selected")
            ELSE Decision("VIOLATION", REASON_PRECEDENCE[n], "VIOLATION", "invariant_violation")
    BY <1>2 DEF check_authority
  <2> HIDE DEF d, n
  <2>4. CASE n = 10 /\ check.kind = "PASSIVE_PRE_DISPATCH"
    BY <2>1, <2>2, <2>3, <2>4 DEF StopsSafely, d, n
  <2>5. CASE ~(n = 10 /\ check.kind = "PASSIVE_PRE_DISPATCH")
    BY <2>1, <2>2, <2>3, <2>5 DEF StopsSafely, d, n
  <2> QED BY <2>4, <2>5
<1> QED BY <1>1, <1>2

\* Every decision check_authority comes to can be built: AuthorityDecision never refuses
\* one, so that a check of valid arguments answers and does not raise.
THEOREM DecisionsCanBeBuilt ==
  ASSUME NEW grant, NEW check
  PROVE  MatrixRow(check_authority(grant, check))
<1> DEFINE d == check_authority(grant, check)
           n == Winning(grant, check)
<1>1. CASE d = Decision("ALLOW", "AUTHORIZED", "AUTHORIZED", "authority_confirmed")
  BY <1>1 DEF MatrixRow, Decision, AllowReasons
<1>2. CASE d = Decision("ALLOW", "READ_ONLY_ALLOWED", "none", "none")
  BY <1>2 DEF MatrixRow, Decision, AllowReasons
<1>5. CASE d = Decision("ALLOW", "REVALIDATED", "none", "none")
  BY <1>5 DEF MatrixRow, Decision, AllowReasons
<1>3. CASE d = Decision("SAFE_STOP", "AUTH_EXPIRED", "SAFE_STOP", "safe_stop_selected")
  BY <1>3 DEF MatrixRow, Decision
<1>4. CASE /\ n \in Places
           /\ d = Decision("VIOLATION", REASON_PRECEDENCE[n], "VIOLATION", "invariant_violation")
  <2>1. REASON_PRECEDENCE[n] \in DefectReasons
    BY <1>4, PrecedenceShape
  <2> QED BY <1>4, <2>1 DEF MatrixRow, Decision
<1> QED BY <1>1, <1>2, <1>3, <1>4, <1>5, Answers

-----------------------------------------------------------------------------
(***************************************************************************)
(* The invariant of the actions under their grants.                        *)
(***************************************************************************)

Writes == {"PRE_DISPATCH_WRITE", "REDISPATCH"}

\* The action holds an answer that lets it write.
Cleared(a) == clearance[a] # NotAsked /\ clearance[a].kind \in Writes

\* What is committed under a grant, or may still be.
Effects(grant) == InDoubt(Under(grant)) \cup Committed(Under(grant))

Sent == {t \in AttemptIds : fate[t] # "unsent"}

\* The parts of the invariant.
UsedAreSent == \A a \in ActionIds : used[a] \subseteq Sent
SettledBefore ==
  \A a \in ActionIds :
    state[a] \in {"PREPARED", "RETRYABLE", "AUTHORIZED", "PROPOSED"} =>
      InDoubt({a}) = {}
ClearedInTime ==
  \A a \in ActionIds :
    Cleared(a) => /\ clearance[a].tick \in Nat
                  /\ clearance[a].tick <= tick
                  /\ clearance[a].tick <= Grant(a).expires_at_tick
Room ==
  \A a \in ActionIds :
    Grant(a).authority_id \notin overlapped =>
      /\ Cardinality(Effects(Grant(a))) <= Grant(a).max_effects
      /\ Cleared(a) => /\ Cardinality(Effects(Grant(a))) < Grant(a).max_effects
                       /\ \A b \in Under(Grant(a)) \ {a} : ~Cleared(b)

GrantInv ==
  TypeOK /\ IsFiniteSet(Sent) /\ UsedAreSent /\ SettledBefore /\ ClearedInTime /\ Room

-----------------------------------------------------------------------------
\* What the assumptions say of one action.
LEMMA Planned ==
  ASSUME NEW a \in ActionIds
  PROVE  /\ IdentityOf(a) \in Identities
         /\ Grant(a) \in Grants
         /\ Grant(a).authority_id \in Authorities
         /\ Grant(a).expires_at_tick \in Nat
         /\ Grant(a).max_effects \in Nat \ {0}
<1>1. Plan[a] \in [binding : Bindings, subject : Subjects, intent : Intents,
                   grant : Grants, original : Grants \cup {NoGrant}]
  BY PlanAssumption
<1>2. Grant(a) \in Grants
  BY <1>1 DEF Grant
<1>3. IdentityOf(a) \in Identities
  BY <1>1 DEF IdentityOf, Identities
<1> QED BY <1>2, <1>3 DEF Grants

\* A call keeps the state of a machine a state, and dispatches only along the two edges.
LEMMA Recorded ==
  ASSUME TypeOK, NEW a \in ActionIds, NEW target \in States, NEW cause \in Causes,
         NEW attempt \in AttemptIds \cup {NoAttempt}
  PROVE  /\ RecordFor(a, target, cause, attempt).resulting \in States
         /\ RecordFor(a, target, cause, attempt).resulting \in {target, "VIOLATION"}
         /\ \/ RecordFor(a, target, cause, attempt).resulting = "VIOLATION"
            \/ Edge(state[a], target, cause) \in NORMATIVE_TRANSITIONS
<1> DEFINE call == Call(a, target, cause, attempt)
           r == RecordFor(a, target, cause, attempt)
<1>1. call \in Calls
  BY Planned DEF Call, Calls, Evidence, CallAttempts
<1>2. state[a] \in States
  BY DEF TypeOK
<1>3. r = RecordOf(state[a], used[a], IdentityOf(a), call)
  BY DEF RecordFor
<1>4. r \in Records /\ \/ r.resulting = "VIOLATION"
                       \/ Edge(state[a], r.resulting, r.cause) \in NORMATIVE_TRANSITIONS
  BY <1>1, <1>2, <1>3, RecordShape
<1>5. r.resulting \in {target, "VIOLATION"} /\ r.cause = cause
  BY DEF RecordFor, RecordOf, Call
<1> QED BY <1>4, <1>5 DEF Records

\* A decision names a call of the machine, or allows a check that is not an AUTHORIZE
\* one; and an answer that allows a write came in time and under the cap.
LEMMA Decided ==
  ASSUME NEW grant, NEW check
  PROVE  LET d == check_authority(grant, check)
         IN  /\ d.target # "none" => d.target \in {"AUTHORIZED", "SAFE_STOP", "VIOLATION"}
             /\ d.target # "none" => d.cause \in Causes
             /\ d.target = "none" => Winning(grant, check) = 0 /\ check.kind # "AUTHORIZE"
             /\ d.target = "AUTHORIZED" =>
                  check.kind = "AUTHORIZE" /\ d.cause = "authority_confirmed"
             /\ d.target = "SAFE_STOP" =>
                  check.kind = "PASSIVE_PRE_DISPATCH" /\ d.cause = "safe_stop_selected"
             /\ d.target = "VIOLATION" => d.cause = "invariant_violation"
<1> DEFINE d == check_authority(grant, check)
<1>1. CASE d = Decision("ALLOW", "AUTHORIZED", "AUTHORIZED", "authority_confirmed")
           /\ check.kind = "AUTHORIZE"
  BY <1>1 DEF Decision, Causes
<1>2. CASE d = Decision("ALLOW", "READ_ONLY_ALLOWED", "none", "none")
           /\ Winning(grant, check) = 0 /\ check.kind # "AUTHORIZE"
  BY <1>2 DEF Decision
<1>3. CASE d = Decision("ALLOW", "REVALIDATED", "none", "none")
           /\ Winning(grant, check) = 0 /\ check.kind # "AUTHORIZE"
  BY <1>3 DEF Decision
<1>4. CASE d = Decision("SAFE_STOP", "AUTH_EXPIRED", "SAFE_STOP", "safe_stop_selected")
           /\ check.kind = "PASSIVE_PRE_DISPATCH"
  BY <1>4 DEF Decision, Causes
<1>5. CASE d = Decision("VIOLATION", REASON_PRECEDENCE[Winning(grant, check)], "VIOLATION",
                        "invariant_violation")
  BY <1>5 DEF Decision, Causes
<1> QED BY <1>1, <1>2, <1>3, <1>4, <1>5, Answers

\* The fields of a request that do not depend on how it is asked.
LEMMA CheckFields ==
  ASSUME NEW a, NEW kind, NEW form
  PROVE  /\ CheckOf(a, kind, form).kind = kind
         /\ CheckOf(a, kind, form).current_tick = tick
         /\ CheckOf(a, kind, form).committed_effect_count
              = Cardinality(Committed(Under(Grant(a))))
BY DEF CheckOf

\* A write that is allowed came in time and under the cap.
LEMMA NothingWrong ==
  ASSUME NEW grant, NEW check, Winning(grant, check) = 0, WriteCapable(check)
  PROVE  CardinalityValid(grant, check) /\ TickValid(grant, check)
<1>1. 9 \in Places /\ 10 \in Places
  BY DEF Places
<1>2. REASON_PRECEDENCE[9] = "CARDINALITY_EXCEEDED" /\ REASON_PRECEDENCE[10] = "AUTH_EXPIRED"
  BY DEF REASON_PRECEDENCE
<1>3. ~IsDefect(grant, check, "CARDINALITY_EXCEEDED") /\ ~IsDefect(grant, check, "AUTH_EXPIRED")
  BY <1>1, <1>2, WinningPlace
<1>4. CardinalityValid(grant, check)
  BY <1>3 DEF IsDefect
<1>5. TickValid(grant, check)
  BY <1>3 DEF IsDefect
<1> QED BY <1>4, <1>5

-----------------------------------------------------------------------------
\* The types, step by step.
LEMMA TypeInit == Init => TypeOK
BY MaxTickAssumption DEF Init, TypeOK, Ticks, Fates, States

\* Which states ask for which kind of check.
LEMMA KindIsOne ==
  ASSUME NEW s
  PROVE  /\ KindIn(s) # "none" => KindIn(s) \in CheckKinds
         /\ KindIn(s) = "AUTHORIZE" => s = "PROPOSED"
         /\ KindIn(s) = "PASSIVE_PRE_DISPATCH" => s = "AUTHORIZED"
         /\ KindIn(s) \in Writes => s \in {"PREPARED", "RETRYABLE"}
<1>1. CASE s = "PROPOSED"
  BY <1>1 DEF KindIn, CheckKinds, Writes
<1>2. CASE s = "AUTHORIZED"
  BY <1>2 DEF KindIn, CheckKinds, Writes
<1>3. CASE s = "PREPARED"
  BY <1>3 DEF KindIn, CheckKinds, Writes
<1>4. CASE s = "RETRYABLE"
  BY <1>4 DEF KindIn, CheckKinds, Writes
<1>5. CASE s = "RECONCILING"
  BY <1>5 DEF KindIn, CheckKinds, Writes
<1>6. CASE s = "VERIFYING"
  BY <1>6 DEF KindIn, CheckKinds, Writes
<1>7. CASE s \notin {"PROPOSED", "AUTHORIZED", "PREPARED", "RETRYABLE", "RECONCILING",
                     "VERIFYING"}
  <2>1. KindIn(s) = "none"
    BY <1>7 DEF KindIn
  <2> QED BY <2>1 DEF Writes
<1> QED BY <1>1, <1>2, <1>3, <1>4, <1>5, <1>6, <1>7

\* Entering a state through a call keeps the states typed and the other machines as they
\* were.
LEMMA Entered ==
  ASSUME TypeOK, NEW a \in ActionIds, NEW target \in States, NEW cause \in Causes,
         NEW attempt \in AttemptIds \cup {NoAttempt}, Enter(a, target, cause, attempt)
  PROVE  /\ state' \in [ActionIds -> States]
         /\ \A b \in ActionIds : b # a => state'[b] = state[b]
         /\ state'[a] \in {target, "VIOLATION"}
         /\ \/ state'[a] = "VIOLATION"
            \/ Edge(state[a], target, cause) \in NORMATIVE_TRANSITIONS
  BY Recorded DEF Enter, TypeOK

\* An edge is a source, a target and a cause of the machine.
LEMMA EdgesTyped ==
  \A edge \in NORMATIVE_TRANSITIONS :
    /\ edge.source \in States /\ edge.target \in States /\ edge.cause \in Causes
    /\ edge = Edge(edge.source, edge.target, edge.cause)
BY DEF NORMATIVE_TRANSITIONS, Graph, Edge, States, Causes

\* Every step keeps the types.
LEMMA TypeStep ==
  ASSUME TypeOK, [Next]_vars
  PROVE  TypeOK'
<1> USE DEF TypeOK
<1>1. ASSUME NEW a \in ActionIds, NEW form \in Forms, Ask(a, form) PROVE TypeOK'
  <2> DEFINE kind == KindIn(state[a])
             decision == check_authority(Grant(a), CheckOf(a, kind, form))
  <2>1. kind \in CheckKinds
    BY <1>1, KindIsOne DEF Ask
  <2>2. erred' \subseteq ActionIds /\ overlapped' \subseteq Authorities
        /\ tick' = tick /\ used' = used /\ fate' = fate
    BY <1>1, Planned DEF Ask
  <2>3. CASE decision.target = "none"
    <3>1. clearance' = [clearance EXCEPT ![a] = [kind |-> kind, tick |-> tick]]
          /\ state' = state
      BY <1>1, <2>3 DEF Ask
    <3> QED BY <2>1, <2>2, <3>1
  <2>4. CASE decision.target # "none"
    <3>1. Enter(a, decision.target, decision.cause, NoAttempt) /\ clearance' = clearance
      BY <1>1, <2>4 DEF Ask
    <3>2. decision.target \in States /\ decision.cause \in Causes
      BY <2>4, Decided DEF States
    <3>3. state' \in [ActionIds -> States]
      BY <3>1, <3>2, Entered
    <3> QED BY <2>2, <3>1, <3>3
  <2> QED BY <2>3, <2>4
<1>2. ASSUME NEW a \in ActionIds, Prepare(a) PROVE TypeOK'
  <2>1. "PREPARED" \in States /\ "preparation_durable" \in Causes
    BY DEF States, Causes
  <2>2. state' \in [ActionIds -> States]
    BY <1>2, <2>1, Entered DEF Prepare
  <2> QED BY <1>2, <2>2 DEF Prepare, Uses
<1>3. ASSUME NEW a \in ActionIds, NEW t \in AttemptIds, NEW kind,
             NEW cause \in {"attempt_delivered", "redispatch_authorized"},
             Dispatch(a, kind, cause, t)
      PROVE  TypeOK'
  <2>1. "IN_FLIGHT" \in States /\ cause \in Causes
    BY DEF States, Causes
  <2>2. state' \in [ActionIds -> States]
    BY <1>3, <2>1, Entered DEF Dispatch
  <2> QED BY <1>3, <2>2 DEF Dispatch, Uses, Fates
<1>4. ASSUME NEW a \in ActionIds, NEW edge \in NORMATIVE_TRANSITIONS, Report(a, edge)
      PROVE  TypeOK'
  <2>1. state' \in [ActionIds -> States]
    BY <1>4, EdgesTyped, Entered DEF Report
  <2>2. clearance' = [clearance EXCEPT ![a] = NotAsked]
    BY <1>4 DEF Report, Uses
  <2> QED BY <1>4, <2>1, <2>2 DEF Report
<1>5. ASSUME NEW t \in AttemptIds, NEW end \in {"committed", "dead"}, Settle(t, end)
      PROVE  TypeOK'
  BY <1>5 DEF Settle, Fates
<1>6. CASE Tick
  BY <1>6, MaxTickAssumption DEF Tick, Ticks
<1>7. CASE UNCHANGED vars
  BY <1>7 DEF vars
<1> QED BY <1>1, <1>2, <1>3, <1>4, <1>5, <1>6, <1>7 DEF Next

\* The types hold, for every plan and every way of asking.
THEOREM TypeCorrect == Spec => []TypeOK
<1>1. TypeOK /\ [Next]_vars => TypeOK'
  BY TypeStep
<1> QED BY <1>1, TypeInit, PTL DEF Spec

-----------------------------------------------------------------------------
\* No edge asks for evidence beyond the five flags.
LEMMA FlagsSuffice == \A source, target : RequiredFlags(source, target) \subseteq Flags
<1> SUFFICES ASSUME NEW source, NEW target
             PROVE  RequiredFlags(source, target) \subseteq Flags
  OBVIOUS
<1>1. CASE source = "RECONCILING" /\ target \in {"VERIFYING", "RETRYABLE"}
  BY <1>1 DEF RequiredFlags, Flags
<1>2. CASE source = "RECONCILING" /\ target = "SAFE_STOP"
  BY <1>2 DEF RequiredFlags, Flags
<1>3. CASE source = "VERIFYING" /\ target = "COMPLETE"
  BY <1>3 DEF RequiredFlags, Flags
<1>4. CASE /\ ~(source = "RECONCILING" /\ target \in {"VERIFYING", "RETRYABLE", "SAFE_STOP"})
           /\ ~(source = "VERIFYING" /\ target = "COMPLETE")
  <2>1. RequiredFlags(source, target) = {}
    BY <1>4 DEF RequiredFlags
  <2> QED BY <2>1
<1> QED BY <1>1, <1>2, <1>3, <1>4

\* A call along an edge is accepted, other than a dispatch, which needs an identifier.
LEMMA AlongEdge ==
  ASSUME NEW a \in ActionIds, NEW edge \in NORMATIVE_TRANSITIONS, edge.source = state[a],
         edge.target \notin {"IN_FLIGHT", "VIOLATION"}
  PROVE  /\ RecordFor(a, edge.target, edge.cause, NoAttempt).reason = NoReason
         /\ RecordFor(a, edge.target, edge.cause, NoAttempt).resulting = edge.target
<1> DEFINE call == Call(a, edge.target, edge.cause, NoAttempt)
           edges == {e \in NORMATIVE_TRANSITIONS :
                       e.source = state[a] /\ e.target = call.target}
<1>1. /\ call.identity = IdentityOf(a) /\ call.attempt = NoAttempt
      /\ call.target = edge.target
      /\ call.evidence.cause = edge.cause /\ call.evidence.flags = Flags
  BY DEF Call
<1>2. EdgeFault(state[a], call) = NoReason
  <2>1. edge \in edges
    BY <1>1
  <2>2. RequiredFlags(state[a], call.target) \subseteq call.evidence.flags
    BY <1>1, FlagsSuffice
  <2>3. EdgeFault(state[a], call) =
          IF edges = {} THEN "transition is not allowed"
          ELSE IF \A e \in edges : e.cause # call.evidence.cause THEN "cause does not match"
          ELSE IF ~(RequiredFlags(state[a], call.target) \subseteq call.evidence.flags)
               THEN "evidence lacks flags" ELSE NoReason
    BY DEF EdgeFault
  <2> HIDE DEF edges, call
  <2>4. edges # {} /\ ~\A e \in edges : e.cause # call.evidence.cause
    BY <1>1, <2>1
  <2> QED BY <2>2, <2>3, <2>4
<1>3. AttemptFault(used[a], call) = NoReason
  BY <1>1 DEF AttemptFault
<1>4. ~ReportsViolation(call)
  BY <1>1 DEF ReportsViolation
<1>5. ViolationReason(state[a], used[a], IdentityOf(a), call) = NoReason
  BY <1>1, <1>2, <1>3, <1>4 DEF ViolationReason
<1> QED BY <1>1, <1>5 DEF RecordFor, RecordOf

\* The call a decision names is an edge of the machine where the check is made, or the
\* report of a violation.
THEOREM AnswersCorrect == Spec => []AnswersFitTheMachine
<1>1. TypeOK => AnswersFitTheMachine
  <2> SUFFICES ASSUME TypeOK, NEW a \in ActionIds, KindIn(state[a]) # "none",
                      NEW form \in FormsOf(KindIn(state[a]))
               PROVE  LET decision ==
                            check_authority(Grant(a), CheckOf(a, KindIn(state[a]), form))
                      IN  /\ MatrixRow(decision)
                          /\ decision.target # "none" =>
                               RecordFor(a, decision.target, decision.cause, NoAttempt).reason
                                 \in {NoReason, Reported}
    BY DEF AnswersFitTheMachine
  <2> DEFINE kind == KindIn(state[a])
             check == CheckOf(a, kind, form)
             decision == check_authority(Grant(a), check)
             call == Call(a, decision.target, decision.cause, NoAttempt)
  <2>1. MatrixRow(decision)
    BY DecisionsCanBeBuilt
  <2>2. check.kind = kind
    BY DEF CheckOf
  <2>3. ASSUME decision.target # "none"
        PROVE  RecordFor(a, decision.target, decision.cause, NoAttempt).reason
                 \in {NoReason, Reported}
    <3>1. decision.target \in {"AUTHORIZED", "SAFE_STOP", "VIOLATION"}
      BY <2>3, Decided
    <3>2. CASE decision.target = "VIOLATION"
      <4>1. RecordFor(a, decision.target, decision.cause, NoAttempt).reason
              = ViolationReason(state[a], used[a], IdentityOf(a), call)
        BY DEF RecordFor, RecordOf
      <4>2. call.identity = IdentityOf(a) /\ AttemptFault(used[a], call) = NoReason
        BY <3>2 DEF Call, AttemptFault
      <4>3. decision.cause = "invariant_violation"
        BY <3>2, Decided
      <4>4. ReportsViolation(call)
        BY <3>2, <4>3 DEF Call, ReportsViolation
      <4> QED BY <4>1, <4>2, <4>4 DEF ViolationReason
    <3>3. CASE decision.target = "AUTHORIZED"
      <4>1. check.kind = "AUTHORIZE" /\ decision.cause = "authority_confirmed"
        BY <3>3, Decided
      <4>2. state[a] = "PROPOSED"
        BY <2>2, <4>1, KindIsOne
      <4>3. Edge("PROPOSED", "AUTHORIZED", "authority_confirmed") \in NORMATIVE_TRANSITIONS
        BY DEF NORMATIVE_TRANSITIONS, Graph
      <4> HIDE DEF decision
      <4> QED BY <3>3, <4>1, <4>2, <4>3, AlongEdge DEF Edge
    <3>4. CASE decision.target = "SAFE_STOP"
      <4>1. check.kind = "PASSIVE_PRE_DISPATCH" /\ decision.cause = "safe_stop_selected"
        BY <3>4, Decided
      <4>2. state[a] = "AUTHORIZED"
        BY <2>2, <4>1, KindIsOne
      <4>3. Edge("AUTHORIZED", "SAFE_STOP", "safe_stop_selected") \in NORMATIVE_TRANSITIONS
        BY DEF NORMATIVE_TRANSITIONS, Graph
      <4> HIDE DEF decision
      <4> QED BY <3>4, <4>1, <4>2, <4>3, AlongEdge DEF Edge
    <3> QED BY <3>1, <3>2, <3>3, <3>4
  <2> QED BY <2>1, <2>3
<1> QED BY <1>1, TypeCorrect, PTL

-----------------------------------------------------------------------------
\* Membership of the sets of attempts, in both states of a step.
LEMMA Members ==
  /\ \A a \in ActionIds : \A t :
       /\ t \in InDoubt({a}) <=> t \in used[a] /\ fate[t] = "in_doubt"
       /\ t \in InDoubt({a})' <=> t \in used'[a] /\ fate'[t] = "in_doubt"
  /\ \A grant, t :
       /\ t \in Effects(grant) <=> \E c \in Under(grant) :
                                   t \in used[c] /\ fate[t] \in {"in_doubt", "committed"}
       /\ t \in Effects(grant)' <=> \E c \in Under(grant) :
                                   t \in used'[c] /\ fate'[t] \in {"in_doubt", "committed"}
BY DEF InDoubt, Committed, With, Effects, Under, Grant

\* Where no attempt and no answer of the service changes, no effect does.
LEMMA EffectsKept ==
  ASSUME UNCHANGED <<used, fate>>
  PROVE  \A grant : Effects(grant)' = Effects(grant)
BY DEF Effects, InDoubt, Committed, With, Under, Grant

\* The effects under a grant are finitely many.
LEMMA EffectsFinite ==
  ASSUME UsedAreSent, IsFiniteSet(Sent), NEW grant
  PROVE  IsFiniteSet(Effects(grant)) /\ Cardinality(Effects(grant)) \in Nat
<1>1. Effects(grant) \in SUBSET Sent
  BY Members DEF UsedAreSent, Under
<1>2. IsFiniteSet(Effects(grant))
  BY <1>1, FS_Subset
<1> QED BY <1>2, FS_CardinalityType

\* A step that adds no effect and no permission to write leaves room under every grant.
LEMMA RoomKept ==
  ASSUME GrantInv, overlapped \subseteq overlapped',
         \A grant : Effects(grant)' \subseteq Effects(grant),
         \A b \in ActionIds : Cleared(b)' => Cleared(b)
  PROVE  Room'
<1> SUFFICES ASSUME NEW a \in ActionIds, Grant(a).authority_id \notin overlapped'
             PROVE  /\ Cardinality(Effects(Grant(a))') <= Grant(a).max_effects
                    /\ Cleared(a)' =>
                         /\ Cardinality(Effects(Grant(a))') < Grant(a).max_effects
                         /\ \A b \in Under(Grant(a)) \ {a} : ~Cleared(b)'
  BY DEF Room, Grant, Under
<1>1. IsFiniteSet(Effects(Grant(a))) /\ Cardinality(Effects(Grant(a))) \in Nat
  BY EffectsFinite DEF GrantInv
<1>2. /\ IsFiniteSet(Effects(Grant(a))')
      /\ Cardinality(Effects(Grant(a))') <= Cardinality(Effects(Grant(a)))
  BY <1>1, FS_Subset
<1>3. Cardinality(Effects(Grant(a))') \in Nat
  BY <1>2, FS_CardinalityType
<1>4. /\ Cardinality(Effects(Grant(a))) <= Grant(a).max_effects
      /\ Cleared(a) => /\ Cardinality(Effects(Grant(a))) < Grant(a).max_effects
                       /\ \A b \in Under(Grant(a)) \ {a} : ~Cleared(b)
  BY DEF GrantInv, Room
<1>5. Grant(a).max_effects \in Nat
  BY Planned
<1>6. \A b \in Under(Grant(a)) : b \in ActionIds
  BY DEF Under
<1>7. Cardinality(Effects(Grant(a))') <= Grant(a).max_effects
  BY <1>1, <1>2, <1>3, <1>4, <1>5
<1>8. ASSUME Cleared(a)'
      PROVE  /\ Cardinality(Effects(Grant(a))') < Grant(a).max_effects
             /\ \A b \in Under(Grant(a)) \ {a} : ~Cleared(b)'
  <2>1. Cleared(a)
    BY <1>8
  <2> QED BY <1>1, <1>2, <1>3, <1>4, <1>5, <1>6, <2>1
<1> QED BY <1>7, <1>8

\* A permission to write is given under a grant with room, to one action at a time.
LEMMA RoomOfPermit ==
  ASSUME GrantInv, NEW a \in ActionIds, NEW form \in Forms, Ask(a, form),
         check_authority(Grant(a), CheckOf(a, KindIn(state[a]), form)).target = "none",
         KindIn(state[a]) \in Writes
  PROVE  Room'
<1> DEFINE kind == KindIn(state[a])
           check == CheckOf(a, kind, form)
           others == Under(Grant(a)) \ {a}
<1>1. /\ used' = used /\ fate' = fate
      /\ clearance' = [clearance EXCEPT ![a] = [kind |-> kind, tick |-> tick]]
      /\ overlapped' =
           IF InDoubt(others) # {} \/ \E b \in others : Cleared(b)
           THEN overlapped \cup {Grant(a).authority_id} ELSE overlapped
  BY DEF Ask, Cleared, Writes
<1>2. \A grant : Effects(grant)' = Effects(grant)
  BY <1>1, EffectsKept
<1>3. Winning(Grant(a), check) = 0 /\ check.kind = kind
  BY Decided, CheckFields
<1>4. check.committed_effect_count < Grant(a).max_effects
  BY <1>3, NothingWrong DEF WriteCapable, Writes, CardinalityValid
<1>5. Cardinality(Committed(Under(Grant(a)))) < Grant(a).max_effects
  BY <1>4, CheckFields
<1>6. InDoubt({a}) = {}
  BY KindIsOne DEF GrantInv, SettledBefore
<1>7. ASSUME InDoubt(others) = {}
      PROVE  Effects(Grant(a)) = Committed(Under(Grant(a)))
  BY <1>6, <1>7, Zenon DEF Effects, InDoubt, With
<1> SUFFICES ASSUME NEW b \in ActionIds, Grant(b).authority_id \notin overlapped'
             PROVE  /\ Cardinality(Effects(Grant(b))) <= Grant(b).max_effects
                    /\ Cleared(b)' =>
                         /\ Cardinality(Effects(Grant(b))) < Grant(b).max_effects
                         /\ \A c \in Under(Grant(b)) \ {b} : ~Cleared(c)'
  BY <1>2 DEF Room, Grant, Under
<1>8. Grant(b).authority_id \notin overlapped
  BY <1>1
<1>9. /\ Cardinality(Effects(Grant(b))) <= Grant(b).max_effects
      /\ Cleared(b) => /\ Cardinality(Effects(Grant(b))) < Grant(b).max_effects
                       /\ \A c \in Under(Grant(b)) \ {b} : ~Cleared(c)
  BY <1>8 DEF GrantInv, Room
<1>10. \A c \in ActionIds \ {a} : Cleared(c)' <=> Cleared(c)
  BY <1>1 DEF GrantInv, TypeOK, Cleared
<1>11. CASE Grant(b) # Grant(a)
  <2>1. \A c \in Under(Grant(b)) : c \in ActionIds \ {a}
    BY <1>11 DEF Under
  <2>2. b \in Under(Grant(b))
    BY DEF Under
  <2> QED BY <1>9, <1>10, <2>1, <2>2
<1>12. CASE Grant(b) = Grant(a)
  <2>1. InDoubt(others) = {} /\ \A c \in others : ~Cleared(c)
    BY <1>1, <1>12
  <2>2. Cardinality(Effects(Grant(b))) < Grant(b).max_effects
    BY <1>5, <1>7, <1>12, <2>1
  <2>3. \A c \in others : c \in ActionIds \ {a} /\ ~Cleared(c)'
    BY <1>10, <2>1 DEF Under
  <2>4. b \in Under(Grant(a))
    BY <1>12 DEF Under
  <2>5. Cleared(b)' => b = a
    BY <2>3, <2>4
  <2> QED BY <1>9, <1>12, <2>2, <2>3, <2>5
<1> QED BY <1>11, <1>12

\* What is let out uses up the room its permission stood for.
LEMMA RoomOfDispatch ==
  ASSUME GrantInv, NEW a \in ActionIds, NEW t \in AttemptIds, NEW kind \in Writes,
         NEW cause, Dispatch(a, kind, cause, t)
  PROVE  Room'
<1>1. /\ Cleared(a) /\ clearance' = [clearance EXCEPT ![a] = NotAsked]
      /\ fate[t] = "unsent"
      /\ used' = [used EXCEPT ![a] = @ \cup {t}]
      /\ fate' = [fate EXCEPT ![t] = "in_doubt"]
      /\ overlapped' = overlapped
  BY DEF Dispatch, Uses, Cleared
<1>2. \A c \in ActionIds : t \notin used[c]
  BY <1>1 DEF GrantInv, UsedAreSent, Sent
<1>3. Effects(Grant(a))' = Effects(Grant(a)) \cup {t}
  <2>1. a \in Under(Grant(a)) /\ Under(Grant(a)) \subseteq ActionIds
    BY DEF Under
  <2>2. ASSUME NEW u PROVE u \in Effects(Grant(a))' <=> u \in Effects(Grant(a)) \cup {t}
    <3>1. CASE u = t
      BY <1>1, <2>1, <3>1, Members DEF GrantInv, TypeOK
    <3>2. CASE u # t
      <4>1. \A c \in ActionIds : u \in used'[c] <=> u \in used[c]
        BY <1>1, <3>2 DEF GrantInv, TypeOK
      <4>2. \A c \in ActionIds : u \in used[c] => u \in AttemptIds
        BY DEF GrantInv, TypeOK
      <4>3. u \in AttemptIds => fate'[u] = fate[u]
        BY <1>1, <3>2 DEF GrantInv, TypeOK
      <4> QED BY <2>1, <3>2, <4>1, <4>2, <4>3, Members
    <3> QED BY <3>1, <3>2
  <2> QED BY <2>2
<1>4. ASSUME NEW b \in ActionIds, Grant(b) # Grant(a)
      PROVE  Effects(Grant(b))' = Effects(Grant(b))
  <2>1. \A c \in Under(Grant(b)) : c \in ActionIds /\ used'[c] = used[c]
    BY <1>1, <1>4 DEF GrantInv, TypeOK, Under
  <2>2. \A c \in ActionIds : \A u \in used[c] : fate'[u] = fate[u]
    BY <1>1, <1>2 DEF GrantInv, TypeOK
  <2>3. ASSUME NEW u PROVE u \in Effects(Grant(b))' <=> u \in Effects(Grant(b))
    BY <2>1, <2>2, Members
  <2> QED BY <2>3
<1>5. \A b \in ActionIds : Cleared(b)' => Cleared(b) /\ b # a
  BY <1>1 DEF GrantInv, TypeOK, Cleared
<1> SUFFICES ASSUME NEW b \in ActionIds, Grant(b).authority_id \notin overlapped
             PROVE  /\ Cardinality(Effects(Grant(b))') <= Grant(b).max_effects
                    /\ Cleared(b)' =>
                         /\ Cardinality(Effects(Grant(b))') < Grant(b).max_effects
                         /\ \A c \in Under(Grant(b)) \ {b} : ~Cleared(c)'
  BY <1>1 DEF Room, Grant, Under
<1>6. /\ Cardinality(Effects(Grant(b))) <= Grant(b).max_effects
      /\ Cleared(b) => /\ Cardinality(Effects(Grant(b))) < Grant(b).max_effects
                       /\ \A c \in Under(Grant(b)) \ {b} : ~Cleared(c)
  BY DEF GrantInv, Room
<1>7. CASE Grant(b) # Grant(a)
  <2>1. \A c \in Under(Grant(b)) : c \in ActionIds
    BY DEF Under
  <2> QED BY <1>4, <1>5, <1>6, <1>7, <2>1
<1>8. CASE Grant(b) = Grant(a)
  <2>1. /\ Cardinality(Effects(Grant(a))) < Grant(a).max_effects
        /\ \A c \in Under(Grant(a)) \ {a} : ~Cleared(c)
    BY <1>1, <1>8 DEF GrantInv, Room
  <2>2. IsFiniteSet(Effects(Grant(a))) /\ Cardinality(Effects(Grant(a))) \in Nat
    BY EffectsFinite DEF GrantInv
  <2>3. Cardinality(Effects(Grant(a)) \cup {t}) =
          IF t \in Effects(Grant(a)) THEN Cardinality(Effects(Grant(a)))
          ELSE Cardinality(Effects(Grant(a))) + 1
    BY <2>2, FS_AddElement
  <2>4. Cardinality(Effects(Grant(a))') <= Cardinality(Effects(Grant(a))) + 1
    BY <1>3, <2>2, <2>3
  <2>5. Cardinality(Effects(Grant(a))') \in Nat
    BY <1>3, <2>2, <2>3
  <2>6. Grant(a).max_effects \in Nat
    BY Planned
  <2>7. Cardinality(Effects(Grant(a))') <= Grant(a).max_effects
    BY <2>1, <2>2, <2>4, <2>5, <2>6
  <2>8. b \in Under(Grant(a))
    BY <1>8 DEF Under
  <2>9. ~Cleared(b)'
    BY <1>5, <2>1, <2>8
  <2> QED BY <1>8, <2>7, <2>9
<1> QED BY <1>7, <1>8

-----------------------------------------------------------------------------
\* The invariant holds at first: nothing was sent.
LEMMA GrantInit == Init => GrantInv
<1> SUFFICES ASSUME Init PROVE GrantInv
  OBVIOUS
<1>1. TypeOK
  BY TypeInit
<1>2. Sent = {} /\ IsFiniteSet(Sent)
  BY FS_EmptySet DEF Init, Sent
<1>3. UsedAreSent /\ SettledBefore
  BY Members DEF Init, UsedAreSent, SettledBefore
<1>4. \A a \in ActionIds : ~Cleared(a)
  BY DEF Init, Cleared
<1>5. \A a \in ActionIds : Effects(Grant(a)) = {}
  BY Members DEF Init, Under
<1>6. Room
  BY <1>4, <1>5, FS_EmptySet, Planned DEF Room
<1> QED BY <1>1, <1>2, <1>3, <1>4, <1>6 DEF GrantInv, ClearedInTime

\* What a step can do to the attempts, the machines and the permissions to write.
LEMMA SettledStep ==
  ASSUME GrantInv, UNCHANGED <<used, fate>>,
         \A a \in ActionIds :
           state'[a] \in {"PREPARED", "RETRYABLE", "AUTHORIZED", "PROPOSED"} =>
             \/ state[a] \in {"PREPARED", "RETRYABLE", "AUTHORIZED", "PROPOSED"}
             \/ InDoubt({a}) = {}
  PROVE  SettledBefore'
<1> SUFFICES ASSUME NEW a \in ActionIds,
                    state'[a] \in {"PREPARED", "RETRYABLE", "AUTHORIZED", "PROPOSED"}
             PROVE  InDoubt({a})' = {}
  BY DEF SettledBefore
<1>1. InDoubt({a}) = {}
  BY DEF GrantInv, SettledBefore
<1> QED BY <1>1, Members

\* And every step keeps it.
LEMMA GrantStep ==
  ASSUME GrantInv, [Next]_vars
  PROVE  GrantInv'
<1> USE DEF GrantInv
<1>1. TypeOK'
  BY TypeStep
<1>2. ASSUME NEW a \in ActionIds, NEW form \in Forms, Ask(a, form) PROVE GrantInv'
  <2> DEFINE kind == KindIn(state[a])
             check == CheckOf(a, kind, form)
             decision == check_authority(Grant(a), check)
  <2>1. used' = used /\ fate' = fate /\ tick' = tick /\ overlapped \subseteq overlapped'
    BY <1>2 DEF Ask
  <2>2. IsFiniteSet(Sent)' /\ UsedAreSent'
    BY <2>1 DEF Sent, UsedAreSent
  <2>3. \A grant : Effects(grant)' = Effects(grant)
    BY <2>1, EffectsKept
  <2>4. CASE decision.target # "none"
    <3>1. clearance' = clearance /\ Enter(a, decision.target, decision.cause, NoAttempt)
      BY <1>2, <2>4 DEF Ask
    <3>2. decision.target \in States /\ decision.cause \in Causes
      BY <2>4, Decided DEF States
    <3>3. SettledBefore'
      <4>1. \A b \in ActionIds : b # a => state'[b] = state[b]
        BY <3>1, <3>2, Entered
      <4>2. state'[a] \in {decision.target, "VIOLATION"}
        BY <3>1, <3>2, Entered
      <4>3. ASSUME decision.target = "AUTHORIZED" PROVE state[a] = "PROPOSED"
        <5>1. check.kind = "AUTHORIZE"
          BY <4>3, Decided
        <5>2. kind = "AUTHORIZE"
          BY <5>1, CheckFields
        <5> QED BY <5>2, KindIsOne
      <4>4. decision.target \in {"AUTHORIZED", "SAFE_STOP", "VIOLATION"}
        BY <2>4, Decided
      <4> QED BY <2>1, <4>1, <4>2, <4>3, <4>4, SettledStep
    <3>4. \A b \in ActionIds : Cleared(b)' => Cleared(b)
      BY <3>1 DEF Cleared
    <3>5. Room'
      BY <2>1, <2>3, <3>4, RoomKept
    <3>6. ClearedInTime'
      BY <2>1, <3>1, <3>4 DEF ClearedInTime, Grant
    <3> QED BY <1>1, <2>2, <3>3, <3>5, <3>6
  <2>5. CASE decision.target = "none"
    <3>1. clearance' = [clearance EXCEPT ![a] = [kind |-> kind, tick |-> tick]]
          /\ state' = state
      BY <1>2, <2>5 DEF Ask
    <3>2. SettledBefore'
      BY <2>1, <3>1, SettledStep
    <3>3. \A b \in ActionIds \ {a} : clearance'[b] = clearance[b]
      BY <3>1 DEF TypeOK
    <3>4. clearance'[a] = [kind |-> kind, tick |-> tick]
      BY <3>1 DEF TypeOK
    <3>5. kind \in Writes => tick <= Grant(a).expires_at_tick
      <4> SUFFICES ASSUME kind \in Writes PROVE tick <= Grant(a).expires_at_tick
        OBVIOUS
      <4>1. Winning(Grant(a), check) = 0
        BY <2>5, Decided
      <4>2. check.kind = kind /\ check.current_tick = tick
        BY CheckFields
      <4>3. TickValid(Grant(a), check)
        BY <4>1, <4>2, NothingWrong DEF WriteCapable, Writes
      <4> QED BY <4>2, <4>3 DEF TickValid
    <3>6. ClearedInTime'
      <4> SUFFICES ASSUME NEW b \in ActionIds, Cleared(b)'
                   PROVE  /\ clearance'[b].tick \in Nat
                          /\ clearance'[b].tick <= tick'
                          /\ clearance'[b].tick <= Grant(b).expires_at_tick
        BY DEF ClearedInTime, Grant
      <4>1. CASE b = a
        <5>1. kind \in Writes
          BY <3>4, <4>1 DEF Cleared
        <5> QED BY <2>1, <3>4, <3>5, <4>1, <5>1 DEF TypeOK, Ticks
      <4>2. CASE b # a
        BY <2>1, <3>3, <4>2 DEF ClearedInTime, Cleared
      <4> QED BY <4>1, <4>2
    <3>7. Room'
      <4>1. CASE kind \in Writes
        BY <1>2, <2>5, <4>1, RoomOfPermit
      <4>2. CASE kind \notin Writes
        <5>1. \A b \in ActionIds : Cleared(b)' => Cleared(b)
          BY <3>3, <3>4, <4>2 DEF Cleared
        <5> QED BY <2>1, <2>3, <5>1, RoomKept
      <4> QED BY <4>1, <4>2
    <3> QED BY <1>1, <2>2, <3>2, <3>6, <3>7
  <2> QED BY <2>4, <2>5
\* A call of a machine that lets nothing out.
<1>3. ASSUME NEW a \in ActionIds, NEW target \in States, NEW cause \in Causes,
             Enter(a, target, cause, NoAttempt),
             clearance' = [clearance EXCEPT ![a] = NotAsked],
             UNCHANGED <<tick, used, fate, overlapped>>,
             target \in {"PREPARED", "RETRYABLE", "AUTHORIZED", "PROPOSED"} =>
               \/ state'[a] = "VIOLATION"
               \/ state[a] \in {"PREPARED", "RETRYABLE", "AUTHORIZED", "PROPOSED"}
               \/ InDoubt({a}) = {}
      PROVE  GrantInv'
  <2>1. \A b \in ActionIds : b # a => state'[b] = state[b]
    BY <1>3, Entered
  <2>2. state'[a] \in {target, "VIOLATION"}
    BY <1>3, Entered
  <2>3. SettledBefore'
    BY <1>3, <2>1, <2>2, SettledStep
  <2>4. IsFiniteSet(Sent)' /\ UsedAreSent'
    BY <1>3 DEF Sent, UsedAreSent
  <2>5. \A grant : Effects(grant)' = Effects(grant)
    BY <1>3, EffectsKept
  <2>6. \A b \in ActionIds : Cleared(b)' => Cleared(b) /\ clearance'[b] = clearance[b]
    BY <1>3 DEF Cleared, TypeOK
  <2>7. Room'
    BY <1>3, <2>5, <2>6, RoomKept
  <2>8. ClearedInTime'
    BY <1>3, <2>6 DEF ClearedInTime, Grant
  <2> QED BY <1>1, <2>3, <2>4, <2>7, <2>8
<1>4. ASSUME NEW a \in ActionIds, Prepare(a) PROVE GrantInv'
  <2>1. "PREPARED" \in States /\ "preparation_durable" \in Causes
    BY DEF States, Causes
  <2>2. \/ state'[a] = "VIOLATION"
        \/ Edge(state[a], "PREPARED", "preparation_durable") \in NORMATIVE_TRANSITIONS
    BY <1>4, <2>1, Entered DEF Prepare
  <2>3. state'[a] = "VIOLATION" \/ state[a] = "AUTHORIZED"
    BY <2>2 DEF NORMATIVE_TRANSITIONS, Graph, Edge
  <2> QED BY <1>3, <1>4, <2>1, <2>3 DEF Prepare, Uses
<1>5. ASSUME NEW a \in ActionIds, NEW edge \in NORMATIVE_TRANSITIONS, Report(a, edge)
      PROVE  GrantInv'
  <2>1. clearance' = [clearance EXCEPT ![a] = NotAsked]
    BY <1>5 DEF Report, Uses
  <2>2. edge.cause \in {"precommit_rejection", "conclusive_absence"} => InDoubt({a}) = {}
    BY <1>5 DEF Report, Claim
  <2>3. edge.target \in {"PREPARED", "RETRYABLE", "AUTHORIZED", "PROPOSED"} =>
          edge.cause \in {"precommit_rejection", "conclusive_absence"}
    BY <1>5 DEF Report, NORMATIVE_TRANSITIONS, Graph, Edge
  <2> QED BY <1>3, <1>5, <2>1, <2>2, <2>3, EdgesTyped DEF Report
<1>6. ASSUME NEW a \in ActionIds, NEW t \in AttemptIds, NEW kind \in Writes,
             NEW cause \in {"attempt_delivered", "redispatch_authorized"},
             Dispatch(a, kind, cause, t)
      PROVE  GrantInv'
  <2>1. "IN_FLIGHT" \in States /\ cause \in Causes
    BY DEF States, Causes
  <2>2. /\ \A b \in ActionIds : b # a => state'[b] = state[b]
        /\ state'[a] \in {"IN_FLIGHT", "VIOLATION"}
    BY <1>6, <2>1, Entered DEF Dispatch
  <2>3. /\ fate[t] = "unsent"
        /\ used' = [used EXCEPT ![a] = @ \cup {t}]
        /\ fate' = [fate EXCEPT ![t] = "in_doubt"]
        /\ clearance' = [clearance EXCEPT ![a] = NotAsked]
        /\ tick' = tick
    BY <1>6 DEF Dispatch, Uses
  <2>4. Sent' = Sent \cup {t}
    BY <2>3 DEF Sent, TypeOK
  <2>5. IsFiniteSet(Sent)' /\ UsedAreSent'
    <3>1. IsFiniteSet(Sent \cup {t})
      BY FS_AddElement
    <3>2. \A b \in ActionIds : used'[b] \subseteq used[b] \cup {t}
      BY <2>3 DEF TypeOK
    <3>3. \A b \in ActionIds : used'[b] \subseteq Sent'
      BY <2>4, <3>2 DEF UsedAreSent
    <3> QED BY <2>4, <3>1, <3>3 DEF UsedAreSent
  <2>6. SettledBefore'
    <3> SUFFICES ASSUME NEW b \in ActionIds,
                        state'[b] \in {"PREPARED", "RETRYABLE", "AUTHORIZED", "PROPOSED"}
                 PROVE  InDoubt({b})' = {}
      BY DEF SettledBefore
    <3>1. b # a /\ state'[b] = state[b]
      BY <2>2
    <3>2. InDoubt({b}) = {}
      BY <3>1 DEF SettledBefore
    <3>3. used'[b] = used[b] /\ t \notin used[b] /\ used[b] \subseteq AttemptIds
      BY <2>3, <3>1 DEF UsedAreSent, Sent, TypeOK
    <3>4. \A u \in used[b] : fate'[u] = fate[u]
      BY <2>3, <3>3 DEF TypeOK
    <3> QED BY <3>2, <3>3, <3>4, Members
  <2>7. ClearedInTime'
    <3>1. \A b \in ActionIds : Cleared(b)' => Cleared(b) /\ clearance'[b] = clearance[b]
      BY <2>3 DEF Cleared, TypeOK
    <3> QED BY <2>3, <3>1 DEF ClearedInTime, Grant
  <2>8. Room'
    BY <1>6, RoomOfDispatch
  <2> QED BY <1>1, <2>5, <2>6, <2>7, <2>8
<1>7. ASSUME NEW t \in AttemptIds, NEW end \in {"committed", "dead"}, Settle(t, end)
      PROVE  GrantInv'
  <2>1. /\ fate[t] = "in_doubt" /\ fate' = [fate EXCEPT ![t] = end]
        /\ tick' = tick /\ state' = state /\ used' = used /\ clearance' = clearance
        /\ overlapped' = overlapped
    BY <1>7 DEF Settle
  <2>2. Sent' = Sent
    BY <2>1 DEF Sent, TypeOK
  <2>3. IsFiniteSet(Sent)' /\ UsedAreSent'
    BY <2>1, <2>2 DEF UsedAreSent
  <2>4. \A u \in AttemptIds : /\ fate'[u] = "in_doubt" => fate[u] = "in_doubt"
                             /\ fate'[u] \in {"in_doubt", "committed"} =>
                                  fate[u] \in {"in_doubt", "committed"}
    BY <2>1 DEF TypeOK
  <2>5. \A a \in ActionIds : used[a] \subseteq AttemptIds
    BY DEF TypeOK
  <2>6. SettledBefore'
    <3> SUFFICES ASSUME NEW b \in ActionIds,
                        state[b] \in {"PREPARED", "RETRYABLE", "AUTHORIZED", "PROPOSED"}
                 PROVE  InDoubt({b})' = {}
      BY <2>1 DEF SettledBefore
    <3>1. InDoubt({b}) = {}
      BY DEF SettledBefore
    <3> QED BY <2>1, <2>4, <2>5, <3>1, Members
  <2>7. \A grant : Effects(grant)' \subseteq Effects(grant)
    <3> SUFFICES ASSUME NEW grant, NEW u, u \in Effects(grant)' PROVE u \in Effects(grant)
      OBVIOUS
    <3>1. Under(grant) \subseteq ActionIds
      BY DEF Under
    <3>2. PICK c \in Under(grant) : u \in used'[c] /\ fate'[u] \in {"in_doubt", "committed"}
      BY Members
    <3>3. u \in used[c] /\ fate[u] \in {"in_doubt", "committed"}
      BY <2>1, <2>4, <2>5, <3>1, <3>2
    <3> QED BY <3>3, Members
  <2>8. \A b \in ActionIds : Cleared(b)' => Cleared(b)
    BY <2>1 DEF Cleared
  <2>9. Room'
    BY <2>1, <2>7, <2>8, RoomKept
  <2>10. ClearedInTime'
    BY <2>1, <2>8 DEF ClearedInTime, Grant
  <2> QED BY <1>1, <2>3, <2>6, <2>9, <2>10
\* Steps of the clock, and none.
<1>8. ASSUME UNCHANGED <<state, used, clearance, fate, overlapped>>, tick' \in {tick, tick + 1}
      PROVE  GrantInv'
  <2>1. IsFiniteSet(Sent)' /\ UsedAreSent'
    BY <1>8 DEF Sent, UsedAreSent
  <2>2. SettledBefore'
    BY <1>8, SettledStep
  <2>3. \A grant : Effects(grant)' = Effects(grant)
    BY <1>8, EffectsKept
  <2>4. \A b \in ActionIds : Cleared(b)' => Cleared(b)
    BY <1>8 DEF Cleared
  <2>5. Room'
    BY <1>8, <2>3, <2>4, RoomKept
  <2>6. tick \in Nat /\ tick <= tick'
    BY <1>8 DEF TypeOK, Ticks
  <2>7. ClearedInTime'
    BY <1>8, <2>4, <2>6 DEF ClearedInTime, Grant
  <2> QED BY <1>1, <2>1, <2>2, <2>5, <2>7
<1>9. CASE Tick
  BY <1>8, <1>9 DEF Tick
<1>10. CASE UNCHANGED vars
  BY <1>8, <1>10 DEF vars
<1> QED BY <1>2, <1>4, <1>5, <1>6, <1>7, <1>9, <1>10 DEF Next, Writes

-----------------------------------------------------------------------------
\* The cap of a grant holds for every effect that is or may still come to be, until a
\* write is allowed while another under the grant is outstanding.
THEOREM EffectsCorrect == Spec => []EffectsWithinGrant
<1>1. GrantInv /\ [Next]_vars => GrantInv'
  BY GrantStep
<1>2. GrantInv => EffectsWithinGrant
  BY DEF GrantInv, Room, EffectsWithinGrant, Effects
<1> QED BY <1>1, <1>2, GrantInit, PTL DEF Spec

\* Nothing is let out after its grant expired, unless the clock moved between the check
\* and the dispatch.
THEOREM LateCorrect == Spec => LateOnlyByDelay
<1>1. ASSUME GrantInv, [Next]_vars, NEW a \in ActionIds, used'[a] # used[a]
      PROVE  tick <= Grant(a).expires_at_tick \/ clearance[a].tick < tick
  <2>1. Cleared(a)
    <3>1. PICK b \in ActionIds, t \in AttemptIds, kind \in Writes,
               cause \in {"attempt_delivered", "redispatch_authorized"} :
            Dispatch(b, kind, cause, t)
      <4>1. ASSUME NEW b \in ActionIds, NEW form \in Forms, Ask(b, form) PROVE FALSE
        BY <1>1, <4>1 DEF Ask
      <4>2. ASSUME NEW b \in ActionIds, NEW edge \in NORMATIVE_TRANSITIONS, Report(b, edge)
            PROVE  FALSE
        BY <1>1, <4>2 DEF Report
      <4>3. ASSUME NEW t \in AttemptIds, NEW end \in {"committed", "dead"}, Settle(t, end)
            PROVE  FALSE
        BY <1>1, <4>3 DEF Settle
      <4>4. ASSUME NEW b \in ActionIds, Prepare(b) PROVE FALSE
        BY <1>1, <4>4 DEF Prepare
      <4>5. ~Tick /\ vars' # vars
        BY <1>1 DEF Tick, vars
      <4> QED BY <1>1, <4>1, <4>2, <4>3, <4>4, <4>5 DEF Next, Writes
    <3>2. used' = [used EXCEPT ![b] = @ \cup {t}] /\ Cleared(b)
      BY <3>1 DEF Dispatch, Uses, Cleared
    <3> QED BY <1>1, <3>2 DEF GrantInv, TypeOK
  <2>2. tick \in Nat
    BY <1>1 DEF GrantInv, TypeOK, Ticks
  <2>3. Grant(a).expires_at_tick \in Nat
    BY Planned
  <2> QED BY <1>1, <2>1, <2>2, <2>3 DEF GrantInv, ClearedInTime
<1>2. GrantInv /\ [Next]_vars =>
        [\A a \in ActionIds : used'[a] # used[a] =>
           tick <= Grant(a).expires_at_tick \/ clearance[a].tick < tick]_vars
  BY <1>1
<1>3. GrantInv /\ [Next]_vars => GrantInv'
  BY GrantStep
<1> QED BY <1>2, <1>3, GrantInit, PTL DEF Spec, LateOnlyByDelay

-----------------------------------------------------------------------------
\* A defect before expiry is a violation.
LEMMA DefectIsViolation ==
  ASSUME NEW grant, NEW check, NEW n \in 1..9, IsDefect(grant, check, REASON_PRECEDENCE[n])
  PROVE  check_authority(grant, check).target = "VIOLATION"
<1>1. n \in Places
  BY DEF Places
<1>2. Winning(grant, check) \in Places /\ Winning(grant, check) <= n
  <2>1. Winning(grant, check) # 0
    BY <1>1, WinningPlace
  <2> QED BY <1>1, <2>1, WinningPlace
<1>3. Winning(grant, check) # 0 /\ Winning(grant, check) # 10
  BY <1>2 DEF Places
<1>4. check_authority(grant, check)
        = Decision("VIOLATION", REASON_PRECEDENCE[Winning(grant, check)], "VIOLATION",
                   "invariant_violation")
  BY <1>3, Answers
<1> QED BY <1>4 DEF Decision

\* Every wrong way of asking is a defect before expiry.
LEMMA MistakeIsViolation ==
  ASSUME PlanIsRight, NEW a \in ActionIds, NEW kind, NEW form \in FormsOf(kind),
         form # "planned"
  PROVE  check_authority(Grant(a), CheckOf(a, kind, form)).target = "VIOLATION"
<1> DEFINE check == CheckOf(a, kind, form)
<1>1. /\ REASON_PRECEDENCE[1] = "IDENTITY_MISMATCH"
      /\ REASON_PRECEDENCE[3] = "SUBJECT_MISMATCH"
      /\ REASON_PRECEDENCE[6] = "INTENT_DIGEST_MISMATCH"
      /\ REASON_PRECEDENCE[8] = "COMPENSATION_NOT_AUTHORIZED"
  BY DEF REASON_PRECEDENCE
<1>2. Plan[a] \in [binding : Bindings, subject : Subjects, intent : Intents,
                   grant : Grants, original : Grants \cup {NoGrant}]
  BY PlanAssumption
<1>3. CASE form = "foreign confirmation"
  <2>1. check.confirmed.action_id # a
    BY <1>3, OthersAssumption DEF CheckOf, IdentityOf
  <2>2. check.candidate.action_id = a
    BY DEF CheckOf, IdentityOf
  <2>3. ~IdentityConfirmed(check)
    BY <2>1, <2>2 DEF IdentityConfirmed
  <2>4. IsDefect(Grant(a), check, "IDENTITY_MISMATCH")
    BY <2>3 DEF IsDefect
  <2> QED BY <1>1, <2>4, DefectIsViolation
<1>4. CASE form = "foreign subject"
  <2>1. check.subject_id # Plan[a].subject
    BY <1>2, <1>4, OthersAssumption DEF CheckOf
  <2>2. check.subject_id # Grant(a).subject_id
    BY <2>1 DEF PlanIsRight
  <2>3. IsDefect(Grant(a), check, "SUBJECT_MISMATCH")
    BY <2>2 DEF IsDefect
  <2> QED BY <1>1, <2>3, DefectIsViolation
<1>5. CASE form = "foreign intent"
  <2>1. check.intent # Plan[a].intent
    BY <1>2, <1>5, OthersAssumption DEF CheckOf
  <2>2. check.candidate.binding.intent_digest = Plan[a].intent
    BY DEF CheckOf, IdentityOf, PlanIsRight
  <2>3. IsDefect(Grant(a), check, "INTENT_DIGEST_MISMATCH")
    BY <2>1, <2>2 DEF IsDefect
  <2> QED BY <1>1, <2>3, DefectIsViolation
<1>6. CASE form = "own grant as original"
  <2>1. kind # "READ_ONLY"
    BY <1>6 DEF FormsOf
  <2>2. check.is_compensation
    BY <1>6, <2>1 DEF CheckOf
  <2>3. check.original_grant.authority_id = Grant(a).authority_id
    BY <1>6, <2>1, Planned DEF CheckOf, Grants
  <2>4. ~CompensationAuthorized(Grant(a), check)
    BY <2>3 DEF CompensationAuthorized
  <2>5. IsDefect(Grant(a), check, "COMPENSATION_NOT_AUTHORIZED")
    BY <2>2, <2>4 DEF IsDefect
  <2> QED BY <1>1, <2>5, DefectIsViolation
<1>7. form \in Forms
  BY DEF FormsOf
<1> QED BY <1>3, <1>4, <1>5, <1>6, <1>7, FormsAssumption

ErrorsAreViolations == \A a \in erred : state[a] = "VIOLATION"

\* A machine in VIOLATION stays there and lets nothing out.
LEMMA ViolationStays ==
  ASSUME TypeOK, [Next]_vars, NEW a \in ActionIds, state[a] = "VIOLATION"
  PROVE  state'[a] = "VIOLATION" /\ used'[a] = used[a]
<1>1. \A target \in States, cause \in Causes :
        Edge(state[a], target, cause) \notin NORMATIVE_TRANSITIONS
  BY DEF NORMATIVE_TRANSITIONS, Graph, Edge
<1>2. ASSUME NEW b \in ActionIds, NEW target \in States, NEW cause \in Causes,
             NEW attempt \in AttemptIds \cup {NoAttempt}, Enter(b, target, cause, attempt)
      PROVE  state'[a] = "VIOLATION"
  BY <1>1, <1>2, Entered
<1>3. ASSUME NEW b \in ActionIds, NEW form \in Forms, Ask(b, form)
      PROVE  state'[a] = "VIOLATION" /\ used'[a] = used[a]
  <2> DEFINE decision == check_authority(Grant(b), CheckOf(b, KindIn(state[b]), form))
  <2>1. CASE decision.target = "none"
    BY <1>3, <2>1 DEF Ask
  <2>2. CASE decision.target # "none"
    <3>1. Enter(b, decision.target, decision.cause, NoAttempt) /\ used' = used
      BY <1>3, <2>2 DEF Ask
    <3>2. decision.target \in States /\ decision.cause \in Causes
      BY <2>2, Decided DEF States
    <3> QED BY <1>2, <3>1, <3>2
  <2> QED BY <2>1, <2>2
<1>4. ASSUME NEW b \in ActionIds, Prepare(b)
      PROVE  state'[a] = "VIOLATION" /\ used'[a] = used[a]
  <2>1. "PREPARED" \in States /\ "preparation_durable" \in Causes
    BY DEF States, Causes
  <2> QED BY <1>2, <1>4, <2>1 DEF Prepare
<1>5. ASSUME NEW b \in ActionIds, NEW t \in AttemptIds, NEW kind,
             NEW cause \in {"attempt_delivered", "redispatch_authorized"},
             Dispatch(b, kind, cause, t)
      PROVE  state'[a] = "VIOLATION" /\ used'[a] = used[a]
  <2>1. "IN_FLIGHT" \in States /\ cause \in Causes
    BY DEF States, Causes
  <2>2. state'[a] = "VIOLATION"
    BY <1>2, <1>5, <2>1 DEF Dispatch
  <2>3. RecordFor(b, "IN_FLIGHT", cause, t).resulting = "IN_FLIGHT"
    BY <1>5 DEF Dispatch, IsDispatch
  <2>4. b # a
    BY <1>1, <2>1, <2>3, Recorded
  <2> QED BY <1>5, <2>2, <2>4 DEF Dispatch, TypeOK
<1>6. ASSUME NEW b \in ActionIds, NEW edge \in NORMATIVE_TRANSITIONS, Report(b, edge)
      PROVE  state'[a] = "VIOLATION" /\ used'[a] = used[a]
  BY <1>2, <1>6, EdgesTyped DEF Report
<1>7. CASE Tick \/ UNCHANGED vars
          \/ \E t \in AttemptIds, end \in {"committed", "dead"} : Settle(t, end)
  BY <1>7 DEF Tick, vars, Settle
<1> QED BY <1>3, <1>4, <1>5, <1>6, <1>7 DEF Next

\* An action asked for wrongly is in VIOLATION from that step on.
LEMMA ErrorsStep ==
  ASSUME TypeOK, PlanIsRight, ErrorsAreViolations, [Next]_vars
  PROVE  ErrorsAreViolations'
<1> SUFFICES ASSUME NEW a \in erred' PROVE state'[a] = "VIOLATION"
  BY DEF ErrorsAreViolations
<1>1. CASE a \in erred
  BY <1>1, ViolationStays DEF ErrorsAreViolations, TypeOK
<1>2. CASE a \notin erred
  <2>1. PICK form \in Forms : a \in ActionIds /\ Ask(a, form) /\ form # "planned"
    <3>1. PICK b \in ActionIds, form \in Forms : Ask(b, form)
      BY <1>2 DEF Next, Prepare, Dispatch, Report, Settle, Tick, vars
    <3> QED BY <1>2, <3>1 DEF Ask
  <2> DEFINE decision == check_authority(Grant(a), CheckOf(a, KindIn(state[a]), form))
  <2>2. decision.target = "VIOLATION"
    BY <2>1, MistakeIsViolation DEF Ask
  <2>3. decision.cause \in Causes /\ Enter(a, decision.target, decision.cause, NoAttempt)
    BY <2>1, <2>2, Decided DEF Ask
  <2>4. "VIOLATION" \in States
    BY DEF States
  <2> QED BY <2>1, <2>2, <2>3, <2>4, Entered
<1> QED BY <1>1, <1>2

\* A confirmation, a subject, an intent or a compensation cannot be borrowed by a caller
\* whose plan is right, however often it asks.
THEOREM ErrorsCorrect ==
  ASSUME PlanIsRight
  PROVE  Spec => ErrorsAreFinal
<1> DEFINE I == TypeOK /\ ErrorsAreViolations
<1>1. Init => I
  BY TypeInit DEF Init, ErrorsAreViolations
<1>2. I /\ [Next]_vars => I'
  BY TypeStep, ErrorsStep
<1>3. I /\ [Next]_vars =>
        [\A a \in erred : state[a] = "VIOLATION" /\ state'[a] = "VIOLATION"
                         /\ used'[a] = used[a]]_vars
  BY ViolationStays DEF ErrorsAreViolations, TypeOK
<1> QED BY <1>1, <1>2, <1>3, PTL DEF Spec, ErrorsAreFinal

-----------------------------------------------------------------------------
\* The two limits that only writes are held to.
LEMMA LimitDefects ==
  \A grant, check :
    /\ IsDefect(grant, check, "CARDINALITY_EXCEEDED") <=>
         WriteCapable(check) /\ ~CardinalityValid(grant, check)
    /\ IsDefect(grant, check, "AUTH_EXPIRED") <=>
         WriteCapable(check) /\ ~TickValid(grant, check)
<1> SUFFICES ASSUME NEW grant, NEW check
             PROVE  /\ IsDefect(grant, check, "CARDINALITY_EXCEEDED") <=>
                         WriteCapable(check) /\ ~CardinalityValid(grant, check)
                    /\ IsDefect(grant, check, "AUTH_EXPIRED") <=>
                         WriteCapable(check) /\ ~TickValid(grant, check)
  OBVIOUS
<1>1. IsDefect(grant, check, "CARDINALITY_EXCEEDED") <=>
        WriteCapable(check) /\ ~CardinalityValid(grant, check)
  BY Zenon DEF IsDefect
<1>2. IsDefect(grant, check, "AUTH_EXPIRED") <=>
        WriteCapable(check) /\ ~TickValid(grant, check)
  BY Zenon DEF IsDefect
<1> QED BY <1>1, <1>2

\* A later request of the same kind, with more effects committed, has every defect the
\* earlier one had.
LEMMA DefectsStay ==
  ASSUME NEW grant, NEW earlier, NEW later,
         grant.expires_at_tick \in Nat, grant.max_effects \in Nat,
         earlier.current_tick \in Nat, later.current_tick \in Nat,
         earlier.committed_effect_count \in Nat, later.committed_effect_count \in Nat,
         earlier.current_tick <= later.current_tick,
         earlier.committed_effect_count <= later.committed_effect_count,
         later.kind = earlier.kind, later.candidate = earlier.candidate,
         later.confirmed = earlier.confirmed, later.subject_id = earlier.subject_id,
         later.intent = earlier.intent, later.is_compensation = earlier.is_compensation,
         later.original_grant = earlier.original_grant,
         NEW n \in Places, IsDefect(grant, earlier, REASON_PRECEDENCE[n])
  PROVE  IsDefect(grant, later, REASON_PRECEDENCE[n])
<1>1. \A check : IsDefect(grant, check, "CARDINALITY_EXCEEDED") <=>
                   WriteCapable(check) /\ ~CardinalityValid(grant, check)
  BY LimitDefects
<1>2. \A check : IsDefect(grant, check, "AUTH_EXPIRED") <=>
                   WriteCapable(check) /\ ~TickValid(grant, check)
  BY LimitDefects
<1>3. n \in {1, 2, 3, 4, 5, 6, 7, 8, 9, 10}
  BY DEF Places
<1>4. CASE n = 9
  <2>1. REASON_PRECEDENCE[n] = "CARDINALITY_EXCEEDED"
    BY <1>4 DEF REASON_PRECEDENCE
  <2>2. WriteCapable(earlier) /\ ~CardinalityValid(grant, earlier)
    BY <1>1, <2>1
  <2>3. WriteCapable(later) /\ ~CardinalityValid(grant, later)
    BY <2>2 DEF WriteCapable, CardinalityValid
  <2> QED BY <1>1, <2>1, <2>3
<1>5. CASE n = 10
  <2>1. REASON_PRECEDENCE[n] = "AUTH_EXPIRED"
    BY <1>5 DEF REASON_PRECEDENCE
  <2>2. WriteCapable(earlier) /\ ~TickValid(grant, earlier)
    BY <1>2, <2>1
  <2>3. WriteCapable(later) /\ ~TickValid(grant, later)
    BY <2>2 DEF WriteCapable, TickValid
  <2> QED BY <1>2, <2>1, <2>3
<1>6. CASE n \in {1, 2, 3, 4, 5, 6, 7, 8}
  <2>1. REASON_PRECEDENCE[n] \in
          {"IDENTITY_MISMATCH", "AUTHORITY_ID_MISMATCH", "SUBJECT_MISMATCH",
           "SERVICE_MISMATCH", "OPERATION_MISMATCH", "INTENT_DIGEST_MISMATCH",
           "PARAMETERS_MISMATCH", "COMPENSATION_NOT_AUTHORIZED"}
    BY <1>6 DEF REASON_PRECEDENCE
  <2>2. IdentityConfirmed(later) <=> IdentityConfirmed(earlier)
    BY DEF IdentityConfirmed
  <2>3. CompensationAuthorized(grant, later) <=> CompensationAuthorized(grant, earlier)
    BY DEF CompensationAuthorized
  <2> QED BY <2>1, <2>2, <2>3, Zenon DEF IsDefect
<1> QED BY <1>3, <1>4, <1>5, <1>6

\* And an answer at least as bad.
LEMMA AnswersWorsen ==
  ASSUME NEW grant, NEW earlier, NEW later, later.kind = earlier.kind,
         \A n \in Places : IsDefect(grant, earlier, REASON_PRECEDENCE[n]) =>
                           IsDefect(grant, later, REASON_PRECEDENCE[n])
  PROVE  NoBetter(grant, later, earlier)
<1> DEFINE n == Winning(grant, earlier)
           m == Winning(grant, later)
           bad(d) == Severity(d.disposition)
<1>1. /\ Severity("ALLOW") = 0 /\ Severity("SAFE_STOP") = 1 /\ Severity("VIOLATION") = 2
  BY Zenon DEF Severity
<1>2. n # 0 => n \in Places /\ m \in Places /\ m <= n
  <2> SUFFICES ASSUME n # 0 PROVE n \in Places /\ m \in Places /\ m <= n
    OBVIOUS
  <2>1. n \in Places /\ IsDefect(grant, later, REASON_PRECEDENCE[n])
    BY WinningPlace
  <2>2. m # 0
    BY <2>1, WinningPlace
  <2> QED BY <2>1, <2>2, WinningPlace
<1>3. n # 0 => m \in 1..n
  BY <1>2 DEF Places
<1>4. \A check : check_authority(grant, check).disposition =
                  IF Winning(grant, check) = 0 THEN "ALLOW"
                  ELSE IF Winning(grant, check) = 10 /\ check.kind = "PASSIVE_PRE_DISPATCH"
                       THEN "SAFE_STOP" ELSE "VIOLATION"
  <2> SUFFICES ASSUME NEW check
               PROVE  check_authority(grant, check).disposition =
                        IF Winning(grant, check) = 0 THEN "ALLOW"
                        ELSE IF Winning(grant, check) = 10
                                /\ check.kind = "PASSIVE_PRE_DISPATCH"
                             THEN "SAFE_STOP" ELSE "VIOLATION"
    OBVIOUS
  <2>1. \A n1, t, c, r : Decision(n1, r, t, c).disposition = n1
    BY DEF Decision
  <2>2. 0 \notin Places
    BY DEF Places
  <2> QED BY <2>1, <2>2, Answers
<1>5. bad(check_authority(grant, later)) >= bad(check_authority(grant, earlier))
  <2>1. CASE n = 0
    BY <1>1, <1>4, <2>1
  <2>2. CASE n # 0 /\ m = 10
    <3>1. n = 10
      BY <1>2, <2>2 DEF Places
    <3>2. check_authority(grant, later).disposition
            = check_authority(grant, earlier).disposition
      BY <1>4, <2>2, <3>1
    <3> QED BY <1>1, <1>4, <3>2
  <2>3. CASE n # 0 /\ m # 10
    <3>1. m # 0
      BY <1>2, <2>3 DEF Places
    <3>2. check_authority(grant, later).disposition = "VIOLATION"
      BY <1>4, <2>3, <3>1
    <3> QED BY <1>1, <1>4, <3>2
  <2> QED BY <2>1, <2>2, <2>3
<1> QED BY <1>3, <1>5 DEF NoBetter

\* Attempts are only added, commitments stay, and the clock moves forward.
LEMMA OnlyForward ==
  ASSUME TypeOK, [Next]_vars
  PROVE  /\ tick \in Nat /\ tick' \in Nat /\ tick <= tick'
         /\ erred \subseteq erred'
         /\ \A b \in ActionIds : used[b] \subseteq used'[b]
         /\ \A t \in AttemptIds : fate[t] = "committed" => fate'[t] = "committed"
<1> USE DEF TypeOK, Ticks
<1>1. ASSUME NEW b \in ActionIds, NEW form \in Forms, Ask(b, form)
      PROVE  UNCHANGED <<tick, used, fate>> /\ erred \subseteq erred'
  BY <1>1 DEF Ask
<1>2. ASSUME NEW b \in ActionIds, Prepare(b) PROVE UNCHANGED <<tick, used, fate, erred>>
  BY <1>2 DEF Prepare
<1>3. ASSUME NEW b \in ActionIds, NEW edge, Report(b, edge)
      PROVE  UNCHANGED <<tick, used, fate, erred>>
  BY <1>3 DEF Report
<1>4. ASSUME NEW b \in ActionIds, NEW t \in AttemptIds, NEW kind, NEW cause,
             Dispatch(b, kind, cause, t)
      PROVE  /\ UNCHANGED <<tick, erred>> /\ \A c \in ActionIds : used[c] \subseteq used'[c]
             /\ \A u \in AttemptIds : fate[u] = "committed" => fate'[u] = "committed"
  <2>1. /\ UNCHANGED <<tick, erred>> /\ fate[t] = "unsent"
        /\ used' = [used EXCEPT ![b] = @ \cup {t}] /\ fate' = [fate EXCEPT ![t] = "in_doubt"]
    BY <1>4 DEF Dispatch
  <2> QED BY <2>1
<1>5. ASSUME NEW t \in AttemptIds, NEW end, Settle(t, end)
      PROVE  /\ UNCHANGED <<tick, erred, used>>
             /\ \A u \in AttemptIds : fate[u] = "committed" => fate'[u] = "committed"
  <2>1. /\ UNCHANGED <<tick, erred, used>> /\ fate[t] = "in_doubt"
        /\ fate' = [fate EXCEPT ![t] = end]
    BY <1>5 DEF Settle
  <2> QED BY <2>1
<1>6. CASE Tick
  BY <1>6 DEF Tick
<1>7. CASE UNCHANGED vars
  BY <1>7 DEF vars
<1> QED BY <1>1, <1>2, <1>3, <1>4, <1>5, <1>6, <1>7 DEF Next

\* Effects that are committed stay so.
LEMMA CommittedGrows ==
  ASSUME GrantInv, [Next]_vars, NEW a \in ActionIds
  PROVE  /\ Cardinality(Committed(Under(Grant(a)))) \in Nat
         /\ Cardinality(Committed(Under(Grant(a)))') \in Nat
         /\ Cardinality(Committed(Under(Grant(a)))) <= Cardinality(Committed(Under(Grant(a)))')
<1> DEFINE before == Committed(Under(Grant(a)))
           after == Committed(Under(Grant(a)))'
<1>1. GrantInv'
  BY GrantStep
<1>2. Under(Grant(a)) \subseteq ActionIds
  BY DEF Under
<1>3. before \in SUBSET Sent
  BY <1>2 DEF Committed, With, GrantInv, UsedAreSent
<1>4. after \in SUBSET Sent'
  BY <1>1, <1>2 DEF Committed, With, Under, Grant, GrantInv, UsedAreSent
<1>5. IsFiniteSet(after) /\ Cardinality(after) \in Nat
  <2>1. IsFiniteSet(Sent)'
    BY <1>1 DEF GrantInv
  <2>2. IsFiniteSet(after)
    BY <1>4, <2>1, FS_Subset
  <2> QED BY <2>2, FS_CardinalityType
<1>6. IsFiniteSet(before) /\ Cardinality(before) \in Nat
  <2>1. IsFiniteSet(before)
    BY <1>3, FS_Subset DEF GrantInv
  <2> QED BY <2>1, FS_CardinalityType
<1>7. /\ \A b \in ActionIds : used[b] \subseteq used'[b]
      /\ \A t \in AttemptIds : fate[t] = "committed" => fate'[t] = "committed"
  BY OnlyForward DEF GrantInv
<1>8. before \subseteq after
  <2> SUFFICES ASSUME NEW t \in before PROVE t \in after
    OBVIOUS
  <2>1. PICK b \in Under(Grant(a)) : t \in used[b]
    BY DEF Committed, With
  <2>2. fate[t] = "committed" /\ t \in AttemptIds
    BY <1>2, <2>1 DEF Committed, With, GrantInv, TypeOK
  <2>3. t \in used'[b] /\ fate'[t] = "committed"
    BY <1>2, <1>7, <2>1, <2>2
  <2> QED BY <2>1, <2>3 DEF Committed, With, Under, Grant
<1> HIDE DEF before, after
<1>9. Cardinality(before) <= Cardinality(after)
  BY <1>5, <1>8, FS_Subset
<1> QED BY <1>5, <1>6, <1>9 DEF before, after

\* Waiting never helps: the answer to the question an action has to ask only gets worse.
THEOREM AnswersWorsenCorrect == Spec => AnswersOnlyWorsen
<1>1. ASSUME GrantInv, [Next]_vars, NEW a \in ActionIds, NEW kind, NEW form
      PROVE  NoBetter(Grant(a), CheckOf(a, kind, form)', CheckOf(a, kind, form))
  <2> DEFINE earlier == CheckOf(a, kind, form)
             later == CheckOf(a, kind, form)'
  <2>1. /\ later.kind = earlier.kind /\ later.candidate = earlier.candidate
        /\ later.confirmed = earlier.confirmed /\ later.subject_id = earlier.subject_id
        /\ later.intent = earlier.intent /\ later.is_compensation = earlier.is_compensation
        /\ later.original_grant = earlier.original_grant
    BY DEF CheckOf, IdentityOf, Grant
  <2>2. /\ earlier.current_tick = tick /\ later.current_tick = tick'
        /\ earlier.committed_effect_count = Cardinality(Committed(Under(Grant(a))))
        /\ later.committed_effect_count = Cardinality(Committed(Under(Grant(a)))')
    BY DEF CheckOf, Grant, Under
  <2>3. tick \in Nat /\ tick' \in Nat /\ tick <= tick'
    BY <1>1, OnlyForward DEF GrantInv
  <2>4. Grant(a).expires_at_tick \in Nat /\ Grant(a).max_effects \in Nat
    BY Planned
  <2>5. /\ earlier.committed_effect_count \in Nat /\ later.committed_effect_count \in Nat
        /\ earlier.committed_effect_count <= later.committed_effect_count
    BY <1>1, <2>2, CommittedGrows
  <2> HIDE DEF earlier, later
  <2>6. \A n \in Places : IsDefect(Grant(a), earlier, REASON_PRECEDENCE[n]) =>
                          IsDefect(Grant(a), later, REASON_PRECEDENCE[n])
    BY <2>1, <2>2, <2>3, <2>4, <2>5, DefectsStay
  <2>7. NoBetter(Grant(a), later, earlier)
    BY <2>1, <2>6, AnswersWorsen
  <2> QED BY <2>7 DEF earlier, later
<1>2. GrantInv /\ [Next]_vars => GrantInv'
  BY GrantStep
<1>3. GrantInv /\ [Next]_vars =>
        [tick' # tick \/ fate' # fate =>
           \A a \in ActionIds, kind \in CheckKinds :
             kind = KindIn(state[a]) =>
               \A form \in FormsOf(kind) :
                 NoBetter(Grant(a), CheckOf(a, kind, form)', CheckOf(a, kind, form))]_vars
  BY <1>1
<1> QED BY <1>2, <1>3, GrantInit, PTL DEF Spec, AnswersOnlyWorsen

-----------------------------------------------------------------------------
\* A granted plan, asked for as planned, has no defect before the cap and expiry.
LEMMA PlannedDefects ==
  ASSUME PlanIsGranted, NEW a \in ActionIds, NEW kind,
         check_authority(Grant(a), CheckOf(a, kind, "planned")).target
           \notin {"none", "AUTHORIZED"}
  PROVE  /\ kind # "READ_ONLY"
         /\ \/ ~(Cardinality(Committed(Under(Grant(a)))) < Grant(a).max_effects)
            \/ ~(tick <= Grant(a).expires_at_tick)
<1> DEFINE check == CheckOf(a, kind, "planned")
           n == Winning(Grant(a), check)
<1>1. n # 0
  <2>1. \A disposition, reason, target, cause :
          Decision(disposition, reason, target, cause).target = target
    BY DEF Decision
  <2>2. 0 \notin Places
    BY DEF Places
  <2> QED BY <2>1, <2>2, Answers
<1>2. n \in Places /\ IsDefect(Grant(a), check, REASON_PRECEDENCE[n])
  BY <1>1, WinningPlace
<1>3. n \in {1, 2, 3, 4, 5, 6, 7, 8, 9, 10}
  BY <1>2 DEF Places
<1> HIDE DEF n
<1>4. /\ check.kind = kind /\ check.candidate = IdentityOf(a) /\ check.confirmed = IdentityOf(a)
      /\ check.subject_id = Plan[a].subject /\ check.intent = Plan[a].intent
      /\ check.is_compensation => kind # "READ_ONLY" /\ Plan[a].original # NoGrant
      /\ kind # "READ_ONLY" => check.original_grant = Plan[a].original
  BY DEF CheckOf
<1>5. IdentityOf(a).binding = Plan[a].binding /\ IdentityOf(a).action_id = a
  BY DEF IdentityOf
<1>6. IdentityConfirmed(check)
  BY <1>4 DEF IdentityConfirmed
<1>7. check.is_compensation => CompensationAuthorized(Grant(a), check)
  BY <1>4, <1>5 DEF CompensationAuthorized, PlanIsGranted, Grant
<1>8. /\ ~IsDefect(Grant(a), check, "IDENTITY_MISMATCH")
      /\ ~IsDefect(Grant(a), check, "COMPENSATION_NOT_AUTHORIZED")
  BY <1>6, <1>7, Zenon DEF IsDefect
<1>9. /\ check.candidate.binding.authority_id = Grant(a).authority_id
      /\ check.subject_id = Grant(a).subject_id
      /\ check.intent.service = Grant(a).service
      /\ check.intent.operation = Grant(a).operation
      /\ check.intent = check.candidate.binding.intent_digest
      /\ check.intent = Grant(a).semantic_intent_digest
      /\ check.intent.parameters = Grant(a).allowed_parameters
  BY <1>4, <1>5 DEF PlanIsGranted, PlanIsRight, Grant
<1>10. /\ ~IsDefect(Grant(a), check, "AUTHORITY_ID_MISMATCH")
       /\ ~IsDefect(Grant(a), check, "SUBJECT_MISMATCH")
       /\ ~IsDefect(Grant(a), check, "SERVICE_MISMATCH")
       /\ ~IsDefect(Grant(a), check, "OPERATION_MISMATCH")
       /\ ~IsDefect(Grant(a), check, "INTENT_DIGEST_MISMATCH")
       /\ ~IsDefect(Grant(a), check, "PARAMETERS_MISMATCH")
  BY <1>9, Zenon DEF IsDefect
<1>11. n \in {9, 10}
  <2>1. n \in {1, 2, 3, 4, 5, 6, 7, 8} =>
          REASON_PRECEDENCE[n] \in
            {"IDENTITY_MISMATCH", "AUTHORITY_ID_MISMATCH", "SUBJECT_MISMATCH",
             "SERVICE_MISMATCH", "OPERATION_MISMATCH", "INTENT_DIGEST_MISMATCH",
             "PARAMETERS_MISMATCH", "COMPENSATION_NOT_AUTHORIZED"}
    BY DEF REASON_PRECEDENCE
  <2> QED BY <1>2, <1>3, <1>8, <1>10, <2>1
<1>12. REASON_PRECEDENCE[9] = "CARDINALITY_EXCEEDED" /\ REASON_PRECEDENCE[10] = "AUTH_EXPIRED"
  BY DEF REASON_PRECEDENCE
<1>13. CASE n = 9
  <2>1. WriteCapable(check) /\ ~CardinalityValid(Grant(a), check)
    BY <1>2, <1>12, <1>13, LimitDefects
  <2> QED BY <1>4, <2>1, CheckFields DEF WriteCapable, CardinalityValid
<1>14. CASE n = 10
  <2>1. WriteCapable(check) /\ ~TickValid(Grant(a), check)
    BY <1>2, <1>12, <1>14, LimitDefects
  <2> QED BY <1>4, <2>1, CheckFields DEF WriteCapable, TickValid
<1> QED BY <1>11, <1>13, <1>14

-----------------------------------------------------------------------------
\* What is in doubt or committed of one action.
Reached(a) == InDoubt({a}) \cup Committed({a})
Passive(a) == clearance[a] # NotAsked /\ clearance[a].kind = "PASSIVE_PRE_DISPATCH"
Before == {"PREPARED", "RETRYABLE", "AUTHORIZED", "PROPOSED"}

\* A grant that allows no write any more, or a caller that asked wrongly.
Deserved(a) ==
  \/ a \in erred
  \/ tick > Grant(a).expires_at_tick
  \/ Cardinality(Committed(Under(Grant(a)))) >= Grant(a).max_effects

NothingReachedBefore ==
  \A a \in ActionIds : state[a] \in Before \/ Passive(a) => Reached(a) = {}
AnswersAreFresh ==
  \A a \in ActionIds :
    clearance[a] # NotAsked =>
      clearance[a].kind # "AUTHORIZE" /\ (clearance[a].kind = KindIn(state[a]) \/ Deserved(a))
ReachedStaysObservable ==
  \A a \in ActionIds : Reached(a) # {} => state[a] # "VIOLATION" \/ a \in erred

PunishInv ==
  /\ GrantInv /\ NothingReachedBefore /\ AnswersAreFresh
  /\ ViolationsAreDeserved /\ ReachedStaysObservable

\* Membership, as above.
LEMMA ReachedMembers ==
  \A a \in ActionIds : \A t :
    /\ t \in Reached(a) <=> t \in used[a] /\ fate[t] \in {"in_doubt", "committed"}
    /\ t \in Reached(a)' <=> t \in used'[a] /\ fate'[t] \in {"in_doubt", "committed"}
BY DEF Reached, InDoubt, Committed, With

\* The invariant of punishments holds at first.
LEMMA PunishInit == Init => PunishInv
<1> SUFFICES ASSUME Init PROVE PunishInv
  OBVIOUS
<1>1. \A a \in ActionIds : Reached(a) = {}
  BY ReachedMembers DEF Init
<1>2. \A a \in ActionIds : clearance[a] = NotAsked /\ state[a] # "VIOLATION"
  BY DEF Init
<1> QED BY <1>1, <1>2, GrantInit DEF PunishInv, NothingReachedBefore, AnswersAreFresh,
                                ViolationsAreDeserved, ReachedStaysObservable

\* What is deserved stays so.
LEMMA DeservedStays ==
  ASSUME GrantInv, [Next]_vars, NEW a \in ActionIds, Deserved(a)
  PROVE  Deserved(a)'
<1>1. /\ tick \in Nat /\ tick' \in Nat /\ tick <= tick' /\ erred \subseteq erred'
  BY OnlyForward DEF GrantInv
<1>2. Grant(a).expires_at_tick \in Nat /\ Grant(a).max_effects \in Nat
  BY Planned
<1>3. /\ Cardinality(Committed(Under(Grant(a)))) \in Nat
      /\ Cardinality(Committed(Under(Grant(a)))') \in Nat
      /\ Cardinality(Committed(Under(Grant(a)))) <= Cardinality(Committed(Under(Grant(a)))')
  BY CommittedGrows
<1>4. Deserved(a)' <=> \/ a \in erred'
                      \/ tick' > Grant(a).expires_at_tick
                      \/ Cardinality(Committed(Under(Grant(a)))') >= Grant(a).max_effects
  BY DEF Deserved, Grant, Under
<1> QED BY <1>1, <1>2, <1>3, <1>4 DEF Deserved

\* An answer that turns an action into a violation or stops it is deserved, and is never
\* given to a lookup of a granted plan.
LEMMA BadAnswers ==
  ASSUME PlanIsGranted, GrantInv, NEW a \in ActionIds, NEW form \in Forms,
         Ask(a, form),
         check_authority(Grant(a), CheckOf(a, KindIn(state[a]), form)).target
           \in {"SAFE_STOP", "VIOLATION"}
  PROVE  a \in erred' \/ (Deserved(a) /\ state[a] \in Before)
<1>1. CASE form # "planned"
  BY <1>1 DEF Ask
<1>2. CASE form = "planned"
  <2>1. /\ KindIn(state[a]) # "READ_ONLY"
        /\ \/ ~(Cardinality(Committed(Under(Grant(a)))) < Grant(a).max_effects)
           \/ ~(tick <= Grant(a).expires_at_tick)
    BY <1>2, PlannedDefects
  <2>2. /\ Cardinality(Committed(Under(Grant(a)))) \in Nat /\ tick \in Nat
        /\ Grant(a).expires_at_tick \in Nat /\ Grant(a).max_effects \in Nat
    <3>1. [Next]_vars
      BY DEF Next
    <3> QED BY <3>1, CommittedGrows, Planned DEF GrantInv, TypeOK, Ticks
  <2>3. Deserved(a)
    BY <2>1, <2>2 DEF Deserved
  <2>4. KindIn(state[a]) # "none"
    BY DEF Ask
  <2> QED BY <2>1, <2>3, <2>4, KindIsOne DEF CheckKinds, Writes, Before
<1> QED BY <1>1, <1>2

\* Where a machine enters VIOLATION.
LEMMA NewViolation ==
  ASSUME PlanIsGranted, PunishInv, [Next]_vars, NEW a \in ActionIds,
         state[a] # "VIOLATION", state'[a] = "VIOLATION"
  PROVE  a \in erred' \/ (Deserved(a) /\ Reached(a) = {} /\ UNCHANGED <<used, fate>>)
<1> USE DEF PunishInv, GrantInv
<1>1. ASSUME NEW b \in ActionIds, NEW form \in Forms, Ask(b, form)
      PROVE  a \in erred' \/ (Deserved(a) /\ Reached(a) = {} /\ UNCHANGED <<used, fate>>)
  <2> DEFINE decision == check_authority(Grant(b), CheckOf(b, KindIn(state[b]), form))
  <2>1. decision.target # "none"
    BY <1>1 DEF Ask
  <2>2. /\ Enter(b, decision.target, decision.cause, NoAttempt)
        /\ UNCHANGED <<used, fate>>
    BY <1>1, <2>1 DEF Ask
  <2>3. decision.target \in States /\ decision.cause \in Causes
    BY <2>1, Decided DEF States
  <2>4. b = a
    BY <2>2, <2>3, Entered
  <2>5. decision.target # "AUTHORIZED"
    <3> SUFFICES ASSUME decision.target = "AUTHORIZED" PROVE FALSE
      OBVIOUS
    <3>1. CheckOf(b, KindIn(state[b]), form).kind = "AUTHORIZE"
          /\ decision.cause = "authority_confirmed"
      BY Decided
    <3>2. state[b] = "PROPOSED"
      BY <3>1, CheckFields, KindIsOne
    <3>3. Edge("PROPOSED", "AUTHORIZED", "authority_confirmed") \in NORMATIVE_TRANSITIONS
      BY DEF NORMATIVE_TRANSITIONS, Graph
    <3>4. RecordFor(b, "AUTHORIZED", "authority_confirmed", NoAttempt).resulting = "AUTHORIZED"
      BY <3>2, <3>3, AlongEdge DEF Edge
    <3>5. Enter(b, "AUTHORIZED", "authority_confirmed", NoAttempt)
      BY <2>2, <3>1
    <3> QED BY <2>4, <3>4, <3>5 DEF Enter, TypeOK
  <2>6. decision.target \in {"SAFE_STOP", "VIOLATION"}
    BY <2>1, <2>5, Decided
  <2>7. a \in erred' \/ (Deserved(a) /\ state[a] \in Before)
    BY <1>1, <2>4, <2>6, BadAnswers
  <2> QED BY <2>2, <2>7 DEF NothingReachedBefore
<1>2. ASSUME NEW b \in ActionIds, Prepare(b)
      PROVE  Deserved(a) /\ Reached(a) = {} /\ UNCHANGED <<used, fate>>
  <2>1. /\ Passive(b) /\ Enter(b, "PREPARED", "preparation_durable", NoAttempt)
        /\ UNCHANGED <<used, fate>>
    BY <1>2 DEF Prepare, Uses, Passive
  <2>2. b = a
    <3>1. "PREPARED" \in States /\ "preparation_durable" \in Causes
      BY DEF States, Causes
    <3> QED BY <2>1, <3>1, Entered
  <2>3. state[a] # "AUTHORIZED"
    <3> SUFFICES ASSUME state[a] = "AUTHORIZED" PROVE FALSE
      OBVIOUS
    <3>1. Edge("AUTHORIZED", "PREPARED", "preparation_durable") \in NORMATIVE_TRANSITIONS
      BY DEF NORMATIVE_TRANSITIONS, Graph
    <3>2. RecordFor(a, "PREPARED", "preparation_durable", NoAttempt).resulting = "PREPARED"
      BY <3>1, AlongEdge DEF Edge
    <3> QED BY <2>1, <2>2, <3>2 DEF Enter, TypeOK
  <2>4. KindIn(state[a]) # "PASSIVE_PRE_DISPATCH"
    BY <2>3, KindIsOne
  <2>5. Deserved(a)
    BY <2>1, <2>2, <2>4 DEF AnswersAreFresh, Passive
  <2> QED BY <2>1, <2>2, <2>5 DEF NothingReachedBefore
<1>3. ASSUME NEW b \in ActionIds, NEW edge \in NORMATIVE_TRANSITIONS, Report(b, edge)
      PROVE  FALSE
  <2>1. edge.source = state[b] /\ Enter(b, edge.target, edge.cause, NoAttempt)
    BY <1>3 DEF Report
  <2>2. b = a
    BY <2>1, Entered, EdgesTyped
  <2>3. edge.target \notin {"IN_FLIGHT", "VIOLATION"}
    BY <1>3 DEF Report, NORMATIVE_TRANSITIONS, Graph, Edge
  <2>4. RecordFor(a, edge.target, edge.cause, NoAttempt).resulting = edge.target
    BY <2>1, <2>2, <2>3, AlongEdge
  <2> QED BY <2>1, <2>2, <2>3, <2>4 DEF Enter, TypeOK
<1>4. ASSUME NEW b \in ActionIds, NEW t \in AttemptIds, NEW kind, NEW cause,
             Dispatch(b, kind, cause, t)
      PROVE  FALSE
  <2>1. state' = [state EXCEPT ![b] = "IN_FLIGHT"]
    BY <1>4 DEF Dispatch, IsDispatch, Enter
  <2> QED BY <2>1 DEF TypeOK
<1>5. CASE Tick \/ UNCHANGED vars
          \/ \E t \in AttemptIds, end \in {"committed", "dead"} : Settle(t, end)
  BY <1>5 DEF Tick, vars, Settle
<1> QED BY <1>1, <1>2, <1>3, <1>4, <1>5 DEF Next

\* An attempt let out earlier never comes to be in doubt, or committed, again.
LEMMA ReachedShrinks ==
  ASSUME GrantInv, [Next]_vars, NEW a \in ActionIds, used'[a] = used[a]
  PROVE  Reached(a)' \subseteq Reached(a)
<1> USE DEF GrantInv
<1> SUFFICES ASSUME NEW u \in used[a], fate'[u] \in {"in_doubt", "committed"}
             PROVE  fate[u] \in {"in_doubt", "committed"}
  BY ReachedMembers
<1>1. u \in AttemptIds /\ fate[u] # "unsent"
  BY DEF UsedAreSent, Sent
<1>2. ASSUME NEW b \in ActionIds, NEW t \in AttemptIds, NEW kind, NEW cause,
             Dispatch(b, kind, cause, t)
      PROVE  fate'[u] = fate[u]
  <2>1. fate[t] = "unsent" /\ fate' = [fate EXCEPT ![t] = "in_doubt"]
    BY <1>2 DEF Dispatch
  <2> QED BY <1>1, <2>1 DEF TypeOK
<1>3. ASSUME NEW t \in AttemptIds, NEW end, Settle(t, end)
      PROVE  fate'[u] = fate[u] \/ fate[u] = "in_doubt"
  <2>1. fate[t] = "in_doubt" /\ fate' = [fate EXCEPT ![t] = end]
    BY <1>3 DEF Settle
  <2> QED BY <1>1, <2>1 DEF TypeOK
<1>4. ASSUME NEW b \in ActionIds, NEW form, Ask(b, form) PROVE fate' = fate
  BY <1>4 DEF Ask
<1>5. ASSUME NEW b \in ActionIds, NEW edge, Report(b, edge) PROVE fate' = fate
  BY <1>5 DEF Report
<1>6. ASSUME NEW b \in ActionIds, Prepare(b) PROVE fate' = fate
  BY <1>6 DEF Prepare
<1>7. CASE Tick \/ UNCHANGED vars
  BY <1>7 DEF Tick, vars
<1> QED BY <1>2, <1>3, <1>4, <1>5, <1>6, <1>7 DEF Next

\* A step that comes to be before a dispatch, or to hold the answer of a passive check,
\* had reached nothing.
LEMMA BeforeStep ==
  ASSUME PunishInv, [Next]_vars, NEW a \in ActionIds, state'[a] \in Before \/ Passive(a)'
  PROVE  Reached(a)' = {}
<1> USE DEF PunishInv, GrantInv
<1> SUFFICES used'[a] = used[a] /\ (state[a] \in Before \/ Passive(a) \/ Reached(a) = {})
  BY ReachedShrinks DEF NothingReachedBefore
<1>1. ASSUME NEW b \in ActionIds, NEW form \in Forms, Ask(b, form)
      PROVE  used'[a] = used[a] /\ (state[a] \in Before \/ Passive(a))
  <2> DEFINE decision == check_authority(Grant(b), CheckOf(b, KindIn(state[b]), form))
  <2>1. used' = used
    BY <1>1 DEF Ask
  <2>2. CASE decision.target = "none"
    <3>1. /\ clearance' = [clearance EXCEPT ![b] = [kind |-> KindIn(state[b]), tick |-> tick]]
          /\ state' = state
      BY <1>1, <2>2 DEF Ask
    <3>2. CASE a = b
      <4>1. Passive(a)' => KindIn(state[a]) = "PASSIVE_PRE_DISPATCH"
        BY <3>1, <3>2 DEF Passive, TypeOK
      <4> QED BY <2>1, <3>1, <4>1, KindIsOne DEF Before
    <3>3. CASE a # b
      <4>1. clearance'[a] = clearance[a]
        BY <3>1, <3>3 DEF TypeOK
      <4> QED BY <2>1, <3>1, <4>1 DEF Passive
    <3> QED BY <3>2, <3>3
  <2>3. CASE decision.target # "none"
    <3>1. clearance' = clearance /\ Enter(b, decision.target, decision.cause, NoAttempt)
      BY <1>1, <2>3 DEF Ask
    <3>2. decision.target \in States /\ decision.cause \in Causes
      BY <2>3, Decided DEF States
    <3>3. /\ \A c \in ActionIds : c # b => state'[c] = state[c]
          /\ state'[b] \in {decision.target, "VIOLATION"}
      BY <3>1, <3>2, Entered
    <3>4. decision.target \in {"AUTHORIZED", "SAFE_STOP", "VIOLATION"}
      BY <2>3, Decided
    <3>5. ASSUME decision.target = "AUTHORIZED" PROVE state[b] \in Before
      <4>1. CheckOf(b, KindIn(state[b]), form).kind = "AUTHORIZE"
        BY <3>5, Decided
      <4> QED BY <4>1, CheckFields, KindIsOne DEF Before
    <3>6. Passive(a)' => Passive(a)
      BY <3>1 DEF Passive
    <3> QED BY <2>1, <3>3, <3>4, <3>5, <3>6 DEF Before
  <2> QED BY <2>2, <2>3
<1>2. ASSUME NEW b \in ActionIds, Prepare(b)
      PROVE  used'[a] = used[a] /\ (state[a] \in Before \/ Passive(a))
  <2>1. /\ Passive(b) /\ clearance' = [clearance EXCEPT ![b] = NotAsked]
        /\ used' = used /\ Enter(b, "PREPARED", "preparation_durable", NoAttempt)
    BY <1>2 DEF Prepare, Uses, Passive
  <2>2. b # a => state'[a] = state[a] /\ clearance'[a] = clearance[a]
    BY <2>1 DEF Enter, TypeOK
  <2> QED BY <2>1, <2>2 DEF Passive
<1>3. ASSUME NEW b \in ActionIds, NEW edge \in NORMATIVE_TRANSITIONS, Report(b, edge)
      PROVE  used'[a] = used[a] /\ (state[a] \in Before \/ Passive(a) \/ Reached(a) = {})
  <2>1. /\ clearance' = [clearance EXCEPT ![b] = NotAsked]
        /\ used' = used /\ Enter(b, edge.target, edge.cause, NoAttempt)
    BY <1>3 DEF Report, Uses
  <2>2. CASE b # a
    <3>1. state'[a] = state[a] /\ clearance'[a] = clearance[a]
      BY <2>1, <2>2 DEF Enter, TypeOK
    <3> QED BY <2>1, <3>1 DEF Passive
  <2>3. CASE b = a
    <3>1. ~Passive(a)'
      BY <2>1, <2>3 DEF Passive, TypeOK
    <3>2. edge.target \in Before
      BY <2>1, <2>3, <3>1, Entered, EdgesTyped DEF Before
    <3>3. edge.cause \in {"precommit_rejection", "conclusive_absence"}
      BY <1>3, <3>2 DEF Report, NORMATIVE_TRANSITIONS, Graph, Edge, Before
    <3>4. Reached(a) = {}
      BY <1>3, <2>3, <3>3 DEF Report, Claim, Reached
    <3> QED BY <2>1, <3>4
  <2> QED BY <2>2, <2>3
<1>4. ASSUME NEW b \in ActionIds, NEW t \in AttemptIds, NEW kind, NEW cause,
             Dispatch(b, kind, cause, t)
      PROVE  used'[a] = used[a] /\ (state[a] \in Before \/ Passive(a))
  <2>1. /\ state' = [state EXCEPT ![b] = "IN_FLIGHT"]
        /\ clearance' = [clearance EXCEPT ![b] = NotAsked]
        /\ used' = [used EXCEPT ![b] = @ \cup {t}]
    BY <1>4 DEF Dispatch, IsDispatch, Enter, Uses
  <2>2. b # a
    BY <2>1 DEF TypeOK, Before, Passive
  <2>3. state'[a] = state[a] /\ clearance'[a] = clearance[a] /\ used'[a] = used[a]
    BY <2>1, <2>2 DEF TypeOK
  <2> QED BY <2>3 DEF Passive
<1>5. CASE Tick \/ UNCHANGED vars
          \/ \E t \in AttemptIds, end \in {"committed", "dead"} : Settle(t, end)
  <2>1. UNCHANGED <<state, clearance, used>>
    BY <1>5 DEF Tick, vars, Settle
  <2> QED BY <2>1 DEF Passive
<1> QED BY <1>1, <1>2, <1>3, <1>4, <1>5 DEF Next

\* An answer goes stale only by a stop or a violation of its own action.
LEMMA FreshStep ==
  ASSUME PlanIsGranted, PunishInv, [Next]_vars, NEW a \in ActionIds, clearance'[a] # NotAsked
  PROVE  clearance'[a].kind # "AUTHORIZE"
         /\ (clearance'[a].kind = KindIn(state'[a]) \/ Deserved(a)')
<1> USE DEF PunishInv, GrantInv
<1>1. Deserved(a) => Deserved(a)'
  BY DeservedStays
<1>2. CASE state'[a] = state[a] /\ clearance'[a] = clearance[a]
  BY <1>1, <1>2 DEF AnswersAreFresh
<1>3. ASSUME NEW form \in Forms, Ask(a, form)
      PROVE  clearance'[a].kind # "AUTHORIZE"
             /\ (clearance'[a].kind = KindIn(state'[a]) \/ Deserved(a)')
  <2> DEFINE decision == check_authority(Grant(a), CheckOf(a, KindIn(state[a]), form))
  <2>1. CASE decision.target = "none"
    <3>1. /\ clearance' = [clearance EXCEPT ![a] = [kind |-> KindIn(state[a]), tick |-> tick]]
          /\ state' = state
      BY <1>3, <2>1 DEF Ask
    <3>2. KindIn(state[a]) # "AUTHORIZE"
      BY <2>1, Decided, CheckFields
    <3> QED BY <3>1, <3>2 DEF TypeOK
  <2>2. CASE decision.target = "AUTHORIZED"
    <3>1. clearance' = clearance
      BY <1>3, <2>2 DEF Ask
    <3>2. KindIn(state[a]) = "AUTHORIZE"
      BY <2>2, Decided, CheckFields
    <3> QED BY <1>1, <3>1, <3>2 DEF AnswersAreFresh
  <2>3. CASE decision.target \in {"SAFE_STOP", "VIOLATION"}
    <3>1. clearance' = clearance
      BY <1>3, <2>3 DEF Ask
    <3>2. a \in erred' \/ Deserved(a)
      BY <1>3, <2>3, BadAnswers
    <3>3. Deserved(a)'
      BY <1>1, <3>2 DEF Deserved
    <3> QED BY <3>1, <3>3 DEF AnswersAreFresh
  <2> QED BY <2>1, <2>2, <2>3, Decided
<1>4. ASSUME NEW b \in ActionIds, NEW form \in Forms, Ask(b, form), b # a
      PROVE  state'[a] = state[a] /\ clearance'[a] = clearance[a]
  <2> DEFINE decision == check_authority(Grant(b), CheckOf(b, KindIn(state[b]), form))
  <2>1. CASE decision.target = "none"
    BY <1>4, <2>1 DEF Ask, TypeOK
  <2>2. CASE decision.target # "none"
    <3>1. Enter(b, decision.target, decision.cause, NoAttempt) /\ clearance' = clearance
      BY <1>4, <2>2 DEF Ask
    <3> QED BY <1>4, <3>1 DEF Enter, TypeOK
  <2> QED BY <2>1, <2>2
\* The other calls of an action take its answer away.
<1>5. ASSUME NEW b \in ActionIds, NEW target, NEW cause, NEW attempt,
             Enter(b, target, cause, attempt),
             clearance' = [clearance EXCEPT ![b] = NotAsked]
      PROVE  state'[a] = state[a] /\ clearance'[a] = clearance[a]
  BY <1>5 DEF Enter, TypeOK
<1>6. ASSUME NEW b \in ActionIds, Prepare(b)
      PROVE  state'[a] = state[a] /\ clearance'[a] = clearance[a]
  BY <1>5, <1>6 DEF Prepare, Uses
<1>7. ASSUME NEW b \in ActionIds, NEW t, NEW kind, NEW cause, Dispatch(b, kind, cause, t)
      PROVE  state'[a] = state[a] /\ clearance'[a] = clearance[a]
  BY <1>5, <1>7 DEF Dispatch, Uses
<1>8. ASSUME NEW b \in ActionIds, NEW edge, Report(b, edge)
      PROVE  state'[a] = state[a] /\ clearance'[a] = clearance[a]
  BY <1>5, <1>8 DEF Report, Uses
<1>9. CASE Tick \/ UNCHANGED vars
          \/ \E t \in AttemptIds, end \in {"committed", "dead"} : Settle(t, end)
  BY <1>2, <1>9 DEF Tick, vars, Settle
<1> QED BY <1>2, <1>3, <1>4, <1>6, <1>7, <1>8, <1>9 DEF Next

\* And every step keeps it.
LEMMA PunishStep ==
  ASSUME PlanIsGranted, PunishInv, [Next]_vars
  PROVE  PunishInv'
<1> USE DEF PunishInv
<1>1. GrantInv'
  BY GrantStep
<1>2. NothingReachedBefore'
  BY BeforeStep DEF NothingReachedBefore
<1>3. AnswersAreFresh'
  BY FreshStep DEF AnswersAreFresh
<1>4. ViolationsAreDeserved'
  <2> SUFFICES ASSUME NEW a \in ActionIds, state'[a] = "VIOLATION" PROVE Deserved(a)'
    BY DEF ViolationsAreDeserved, Deserved
  <2>1. CASE state[a] = "VIOLATION"
    BY <2>1, DeservedStays DEF ViolationsAreDeserved, Deserved
  <2>2. CASE state[a] # "VIOLATION"
    <3>1. a \in erred' \/ Deserved(a)
      BY <2>2, NewViolation
    <3> QED BY <3>1, DeservedStays DEF Deserved
  <2> QED BY <2>1, <2>2
<1>5. ReachedStaysObservable'
  <2> SUFFICES ASSUME NEW a \in ActionIds, state'[a] = "VIOLATION", Reached(a)' # {}
               PROVE  a \in erred'
    BY DEF ReachedStaysObservable
  <2>1. CASE state[a] = "VIOLATION"
    <3>1. used'[a] = used[a]
      BY <2>1, ViolationStays DEF GrantInv
    <3>2. a \in erred
      BY <2>1, <3>1, ReachedShrinks DEF ReachedStaysObservable
    <3> QED BY <3>2, OnlyForward DEF GrantInv
  <2>2. CASE state[a] # "VIOLATION"
    <3>1. a \in erred' \/ (Reached(a) = {} /\ UNCHANGED <<used, fate>>)
      BY <2>2, NewViolation
    <3> QED BY <3>1, ReachedMembers
  <2> QED BY <2>1, <2>2
<1> QED BY <1>1, <1>2, <1>3, <1>4, <1>5

\* An obedient caller of a live grant with room is never punished, for every plan the
\* grants cover.
THEOREM PunishmentCorrect ==
  ASSUME PlanIsGranted
  PROVE  Spec => []ViolationsAreDeserved
<1>1. PunishInv /\ [Next]_vars => PunishInv'
  BY PunishStep
<1>2. PunishInv => ViolationsAreDeserved
  BY DEF PunishInv
<1> QED BY <1>1, <1>2, PunishInit, PTL DEF Spec

\* Looking up an effect that is committed never turns its action into a violation, for
\* every plan the grants cover.
THEOREM ObservableCorrect ==
  ASSUME PlanIsGranted
  PROVE  Spec => []CommittedStaysObservable
<1>1. PunishInv /\ [Next]_vars => PunishInv'
  BY PunishStep
<1>2. PunishInv => CommittedStaysObservable
  BY DEF PunishInv, ReachedStaysObservable, CommittedStaysObservable, Reached
<1> QED BY <1>1, <1>2, PunishInit, PTL DEF Spec
=============================================================================
