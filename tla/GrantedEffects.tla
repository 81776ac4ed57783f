---------------------------- MODULE GrantedEffects ----------------------------
(***************************************************************************)
(* Several actions, the grants they share, the clock and the service: what *)
(* the authority engine's answers amount to once they are asked for one at *)
(* a time and used later.                                                  *)
(*                                                                         *)
(* The caller is external (the gateway is not in the repository); it is    *)
(* the one ARCHITECTURE.md describes.  It asks before every write and      *)
(* every lookup with the kind of check its state calls for, makes the call *)
(* a decision names at once, and may be slow to use an answer that names   *)
(* none.  It may also ask wrongly: with another action's confirmation, for *)
(* another subject or intent, or as a compensation nobody granted.  It     *)
(* counts the committed effects of the grant truthfully, and reports what  *)
(* the service did honestly (see EffectRecovery).                          *)
(***************************************************************************)
EXTENDS AuthorityEngine, FiniteSets

CONSTANTS
  Plan,      \* per action: its identity, subject, intent, grant and original grant
  Forms,     \* how the caller asks: "planned", or one of the errors of CheckOf
  NotAsked,  \* no unused answer
  MaxTick    \* bound: the largest tick of the clock

ASSUME PlanAssumption ==
  /\ Plan \in [ActionIds -> [binding : Bindings, subject : Subjects, intent : Intents,
                             grant : Grants, original : Grants \cup {NoGrant}]]
  /\ \A a, b \in ActionIds :
       Plan[a].grant.authority_id = Plan[b].grant.authority_id => Plan[a].grant = Plan[b].grant
ASSUME FormsAssumption ==
  Forms \subseteq {"planned", "foreign confirmation", "foreign subject", "foreign intent",
                   "own grant as original"}
\* There is something else to ask with.
ASSUME OthersAssumption ==
  /\ \A a \in ActionIds : \E b \in ActionIds : b # a
  /\ \A s \in Subjects : \E r \in Subjects : r # s
  /\ \A i \in Intents : \E j \in Intents : j # i
ASSUME MaxTickAssumption == MaxTick \in Nat

VARIABLES
  tick,       \* the logical clock
  state,      \* per action, the state of its machine
  used,       \* per action, the attempt identifiers its machine let out
  clearance,  \* per action, an ALLOW not used yet: the kind and tick of its check
  fate,       \* per attempt identifier, what became of it in the service
  erred,      \* auxiliary: the actions the caller asked wrongly for
  overlapped  \* auxiliary: the grants under which a write was allowed while another
              \* was allowed or in doubt

vars == <<tick, state, used, clearance, fate, erred, overlapped>>

Ticks == 0..MaxTick
Fates == {"unsent", "in_doubt", "committed", "dead"}

TypeOK ==
  /\ tick \in Ticks
  /\ state \in [ActionIds -> States]
  /\ used \in [ActionIds -> SUBSET AttemptIds]
  /\ clearance \in [ActionIds -> [kind : CheckKinds, tick : Ticks] \cup {NotAsked}]
  /\ fate \in [AttemptIds -> Fates]
  /\ erred \subseteq ActionIds
  /\ overlapped \subseteq Authorities

Init ==
  /\ tick = 0
  /\ state = [a \in ActionIds |-> "PROPOSED"]
  /\ used = [a \in ActionIds |-> {}]
  /\ clearance = [a \in ActionIds |-> NotAsked]
  /\ fate = [t \in AttemptIds |-> "unsent"]
  /\ erred = {}
  /\ overlapped = {}

-----------------------------------------------------------------------------
IdentityOf(a) == [action_id |-> a, binding |-> Plan[a].binding]
Grant(a) == Plan[a].grant
Under(grant) == {a \in ActionIds : Grant(a) = grant}

With(actions, end) == {t \in UNION {used[a] : a \in actions} : fate[t] = end}
InDoubt(actions) == With(actions, "in_doubt")
Committed(actions) == With(actions, "committed")

\* The kind of check that a write or a lookup from each state calls for; "none" where the
\* next step is neither.
KindIn(s) ==
  CASE s = "PROPOSED" -> "AUTHORIZE"
    [] s = "AUTHORIZED" -> "PASSIVE_PRE_DISPATCH"
    [] s = "PREPARED" -> "PRE_DISPATCH_WRITE"
    [] s = "RETRYABLE" -> "REDISPATCH"
    [] s \in {"RECONCILING", "VERIFYING"} -> "READ_ONLY"
    [] OTHER -> "none"

\* The request for an action in its state, asked in a form.
CheckOf(a, kind, form) ==
  [kind |-> kind,
   candidate |-> IdentityOf(a),
   confirmed |-> IF form = "foreign confirmation"
                 THEN [IdentityOf(a) EXCEPT !.action_id = CHOOSE b \in ActionIds : b # a]
                 ELSE IdentityOf(a),
   subject_id |-> IF form = "foreign subject"
                  THEN CHOOSE s \in Subjects : s # Plan[a].subject ELSE Plan[a].subject,
   intent |-> IF form = "foreign intent"
              THEN CHOOSE i \in Intents : i # Plan[a].intent ELSE Plan[a].intent,
   current_tick |-> tick,
   committed_effect_count |-> Cardinality(Committed(Under(Grant(a)))),
   is_compensation |-> /\ kind # "READ_ONLY"
                       /\ form = "own grant as original" \/ Plan[a].original # NoGrant,
   original_grant |->
     IF kind = "READ_ONLY" THEN NoGrant
     ELSE IF form = "own grant as original"
          THEN [Grant(a) EXCEPT !.allowed_compensation = a] ELSE Plan[a].original]

\* A lookup can be asked for wrongly in every way but as a compensation.
FormsOf(kind) == IF kind = "READ_ONLY" THEN Forms \ {"own grant as original"} ELSE Forms

\* The call of a machine, and the record it adds.
Call(a, target, cause, attempt) ==
  [target |-> target, evidence |-> [cause |-> cause, flags |-> Flags],
   identity |-> IdentityOf(a), attempt |-> attempt]
RecordFor(a, target, cause, attempt) ==
  RecordOf(state[a], used[a], IdentityOf(a), Call(a, target, cause, attempt))
Enter(a, target, cause, attempt) ==
  state' = [state EXCEPT ![a] = RecordFor(a, target, cause, attempt).resulting]

-----------------------------------------------------------------------------
\* One check.  The decision is acted on at once where it names a call; a clearance to
\* write counts as outstanding from the moment it is given.
Ask(a, form) ==
  LET kind == KindIn(state[a])
      decision == check_authority(Grant(a), CheckOf(a, kind, form))
      others == Under(Grant(a)) \ {a}
      writes == {"PRE_DISPATCH_WRITE", "REDISPATCH"}
  IN  /\ kind # "none"
      /\ form \in FormsOf(kind)
      /\ MatrixRow(decision)
      /\ erred' = IF form = "planned" THEN erred ELSE erred \cup {a}
      /\ IF decision.target = "none"
         THEN /\ clearance' = [clearance EXCEPT ![a] = [kind |-> kind, tick |-> tick]]
              /\ UNCHANGED state
         ELSE /\ Enter(a, decision.target, decision.cause, NoAttempt)
              /\ UNCHANGED clearance
      /\ overlapped' =
           IF /\ decision.target = "none" /\ kind \in writes
              /\ \/ InDoubt(others) # {}
                 \/ \E b \in others : clearance[b] # NotAsked /\ clearance[b].kind \in writes
           THEN overlapped \cup {Grant(a).authority_id} ELSE overlapped
      /\ UNCHANGED <<tick, used, fate>>

\* The action holds an answer to a check of this kind; using it takes it away.
Uses(a, kind) ==
  /\ clearance[a] # NotAsked
  /\ clearance[a].kind = kind
  /\ clearance' = [clearance EXCEPT ![a] = NotAsked]

Prepare(a) ==
  /\ Uses(a, "PASSIVE_PRE_DISPATCH")
  /\ Enter(a, "PREPARED", "preparation_durable", NoAttempt)
  /\ UNCHANGED <<tick, used, fate, erred, overlapped>>

\* A dispatch or a redispatch, with an identifier no action has used.
Dispatch(a, kind, cause, t) ==
  /\ Uses(a, kind)
  /\ fate[t] = "unsent"
  /\ IsDispatch(RecordFor(a, "IN_FLIGHT", cause, t))
  /\ Enter(a, "IN_FLIGHT", cause, t)
  /\ used' = [used EXCEPT ![a] = @ \cup {t}]
  /\ fate' = [fate EXCEPT ![t] = "in_doubt"]
  /\ UNCHANGED <<tick, erred, overlapped>>

\* What honest evidence of a cause says about the service.
Claim(a, cause) ==
  CASE cause \in {"success_receipt", "exact_effect_found"} -> Committed({a}) # {}
    [] cause \in {"precommit_rejection", "conclusive_absence"} ->
         InDoubt({a}) \cup Committed({a}) = {}
    [] cause = "fresh_postcondition" -> InDoubt({a}) = {} /\ Committed({a}) # {}
    [] OTHER -> TRUE

\* Any other edge of the machine: an answer, a lookup, a stop.  Lookups need an answer
\* of their own.
Report(a, edge) ==
  /\ edge.source = state[a]
  /\ edge.cause \notin {"authority_confirmed", "invariant_violation", "preparation_durable",
                        "attempt_delivered", "redispatch_authorized"}
  /\ edge.source = "AUTHORIZED" => edge.cause # "safe_stop_selected"
  /\ Claim(a, edge.cause)
  /\ IF KindIn(state[a]) = "READ_ONLY" THEN Uses(a, "READ_ONLY")
     ELSE clearance' = [clearance EXCEPT ![a] = NotAsked]
  /\ Enter(a, edge.target, edge.cause, NoAttempt)
  /\ UNCHANGED <<tick, used, fate, erred, overlapped>>

\* The service decides an attempt, in its own time.
Settle(t, end) ==
  /\ fate[t] = "in_doubt"
  /\ fate' = [fate EXCEPT ![t] = end]
  /\ UNCHANGED <<tick, state, used, clearance, erred, overlapped>>

Tick ==
  /\ tick < MaxTick
  /\ tick' = tick + 1
  /\ UNCHANGED <<state, used, clearance, fate, erred, overlapped>>

Next ==
  \/ \E a \in ActionIds :
       \/ \E form \in Forms : Ask(a, form)
       \/ Prepare(a)
       \/ \E t \in AttemptIds :
            \/ Dispatch(a, "PRE_DISPATCH_WRITE", "attempt_delivered", t)
            \/ Dispatch(a, "REDISPATCH", "redispatch_authorized", t)
       \/ \E edge \in NORMATIVE_TRANSITIONS : Report(a, edge)
  \/ \E t \in AttemptIds, end \in {"committed", "dead"} : Settle(t, end)
  \/ Tick

Spec == Init /\ [][Next]_vars

-----------------------------------------------------------------------------
(***************************************************************************)
(* Properties.                                                             *)
(***************************************************************************)

\* What the caller knows of its actions is right: the subject is the one granted, and the
\* binding holds the digest of the intent.
PlanIsRight ==
  \A a \in ActionIds : /\ Plan[a].subject = Grant(a).subject_id
                       /\ Plan[a].intent = Plan[a].binding.intent_digest

\* And its plan is granted: every action is one its grant covers, and a compensation one
\* the original grant names.
PlanIsGranted ==
  /\ PlanIsRight
  /\ \A a \in ActionIds :
       LET p == Plan[a] IN
       /\ p.binding.authority_id = p.grant.authority_id
       /\ p.intent.service = p.grant.service
       /\ p.intent.operation = p.grant.operation
       /\ p.intent = p.grant.semantic_intent_digest
       /\ p.intent.parameters = p.grant.allowed_parameters
       /\ p.original # NoGrant => /\ p.original.allowed_compensation = a
                                 /\ p.original.authority_id # p.grant.authority_id

\* A decision that names a call names one the machine accepts where the check is made,
\* or a reported violation, and every decision can be built: a check never raises and
\* never turns into a forbidden call of the engine's own making.
AnswersFitTheMachine ==
  \A a \in ActionIds :
    LET kind == KindIn(state[a]) IN
    kind # "none" =>
      \A form \in FormsOf(kind) :
        LET decision == check_authority(Grant(a), CheckOf(a, kind, form)) IN
        /\ MatrixRow(decision)
        /\ decision.target # "none" =>
             RecordFor(a, decision.target, decision.cause, NoAttempt).reason
               \in {NoReason, Reported}

\* Committed effects are counted at the check, not those on their way.  The grant's cap
\* therefore holds for everything that is or may come to be, as long as no write was
\* allowed while another under the grant was outstanding.
EffectsWithinGrant ==
  \A a \in ActionIds :
    \/ Grant(a).authority_id \in overlapped
    \/ Cardinality(InDoubt(Under(Grant(a))) \cup Committed(Under(Grant(a))))
         <= Grant(a).max_effects

\* An action is only in VIOLATION if the caller asked wrongly for it, or its grant is
\* expired or used up: an obedient caller of a live grant is never punished.
ViolationsAreDeserved ==
  \A a \in ActionIds :
    state[a] = "VIOLATION" =>
      \/ a \in erred
      \/ tick > Grant(a).expires_at_tick
      \/ Cardinality(Committed(Under(Grant(a)))) >= Grant(a).max_effects

\* An earlier effect stays observable after expiry and at the cap: looking it up never
\* turns an action that has one into a violation.
CommittedStaysObservable ==
  \A a \in ActionIds : Committed({a}) # {} => state[a] # "VIOLATION" \/ a \in erred

\* Confirmation, subject, intent and compensation cannot be borrowed, at any step: an
\* action asked for wrongly once is in VIOLATION for good and lets nothing out again.
ErrorsAreFinal ==
  [][ \A a \in erred : state[a] = "VIOLATION" /\ state'[a] = "VIOLATION" /\ used'[a] = used[a]
    ]_vars

\* Nothing is let out after its grant expired, except by a caller that let the clock
\* move between the check and the dispatch.
LateOnlyByDelay ==
  [][ \A a \in ActionIds :
        used'[a] # used[a] =>
          tick <= Grant(a).expires_at_tick \/ clearance[a].tick < tick ]_vars

Severity(disposition) ==
  CASE disposition = "ALLOW" -> 0 [] disposition = "SAFE_STOP" -> 1
    [] disposition = "VIOLATION" -> 2

\* One answer is at least as bad as another.
NoBetter(grant, later, earlier) ==
  /\ Severity(check_authority(grant, later).disposition)
       >= Severity(check_authority(grant, earlier).disposition)
  /\ Winning(grant, earlier) # 0 => Winning(grant, later) \in 1..Winning(grant, earlier)

\* Waiting never helps: as the clock moves and effects commit, the answer to the question
\* an action has to ask next only gets worse, in disposition and in the reason that wins.
AnswersOnlyWorsen ==
  [][ tick' # tick \/ fate' # fate =>
        \A a \in ActionIds, kind \in CheckKinds :
          kind = KindIn(state[a]) =>
            \A form \in FormsOf(kind) :
              NoBetter(Grant(a), CheckOf(a, kind, form)', CheckOf(a, kind, form)) ]_vars
=============================================================================
