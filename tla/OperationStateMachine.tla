------------------------ MODULE OperationStateMachine ------------------------
(***************************************************************************)
(* OperationStateMachine (state_machine.py): one in-memory machine for one *)
(* immutable semantic action.  Its only operation is transition(): the     *)
(* caller chooses the target, the evidence, the identity and the attempt   *)
(* identifier, and every choice is possible.  A call that raises           *)
(* InvalidTransitionError is a step like any other: it moves the machine   *)
(* to VIOLATION, except in VIOLATION itself, where it changes nothing.     *)
(* Calls whose arguments have the wrong Python type raise before they read *)
(* the machine and are not modelled.                                       *)
(***************************************************************************)
EXTENDS TransitionRules

CONSTANTS
  CallsMade,    \* the calls callers choose from
  MaxHistory    \* bound: calls that change the machine in one behaviour

ASSUME CallsAssumption == CallsMade \subseteq Calls
ASSUME MaxHistoryAssumption == MaxHistory \in Nat

VARIABLES
  identity,     \* _identity
  state,        \* _state
  attempt_ids,  \* _attempt_ids, in dispatch order
  history       \* _history

vars == <<identity, state, attempt_ids, history>>

Used == {attempt_ids[i] : i \in DOMAIN attempt_ids}

TypeOK ==
  /\ identity \in Identities
  /\ state \in States
  /\ attempt_ids \in Seq(AttemptIds)
  /\ history \in Seq(Records)

Init ==
  /\ identity \in Identities
  /\ state = "PROPOSED"
  /\ attempt_ids = <<>>
  /\ history = <<>>

\* Faulty variants: a failing call that forgets its record; a machine that goes on
\* after a violation.
TransitionForgettingFailures(call) ==
  /\ state # "VIOLATION"
  /\ LET record == RecordOf(state, Used, identity, call)
     IN  /\ state' = record.resulting
         /\ history' = IF record.reason = NoReason THEN Append(history, record) ELSE history
         /\ attempt_ids' = attempt_ids \o (IF IsDispatch(record) THEN <<record.attempt>> ELSE <<>>)
  /\ UNCHANGED identity
TransitionAfterViolation(call) ==
  /\ Len(history) < MaxHistory
  /\ LET record == RecordOf(state, Used, identity, call)
     IN  state' = record.resulting /\ history' = Append(history, record)
  /\ UNCHANGED <<identity, attempt_ids>>

\* One call in a state other than VIOLATION: _record_transition or _fail, then the
\* attempt identifier of an accepted dispatch.
Transition(call) ==
  /\ state # "VIOLATION"
  /\ Len(history) < MaxHistory
  /\ LET record == RecordOf(state, Used, identity, call)
     IN  /\ state' = record.resulting
         /\ history' = Append(history, record)
         /\ attempt_ids' = IF IsDispatch(record)
                           THEN Append(attempt_ids, record.attempt) ELSE attempt_ids
  /\ UNCHANGED identity

\* "VIOLATION is terminal": the call raises and neither state nor history changes.
TerminalCall == state = "VIOLATION" /\ UNCHANGED vars

Next == TerminalCall \/ \E call \in CallsMade : Transition(call)

Spec == Init /\ [][Next]_vars

-----------------------------------------------------------------------------
(***************************************************************************)
(* Properties.                                                             *)
(***************************************************************************)

\* The history accounts for the state: records are chained from PROPOSED, none starts
\* in VIOLATION, and the last one ends in the current state (what the ledger relies on
\* when it rebuilds a machine from its rows).
HistoryExplainsState ==
  /\ state = IF history = <<>> THEN "PROPOSED" ELSE history[Len(history)].resulting
  /\ \A i \in DOMAIN history :
       /\ history[i].source =
            IF i = 1 THEN "PROPOSED" ELSE history[i - 1].resulting
       /\ history[i].source # "VIOLATION"

\* The attempt identifiers are exactly those of the dispatch records, in the same
\* order, and no two dispatches share one.
AttemptsAreDispatches ==
  LET dispatches == {n \in DOMAIN history : IsDispatch(history[n])}
  IN  /\ Used = {history[n].attempt : n \in dispatches}
      /\ \A m, n \in dispatches :
           m < n => \E i, j \in DOMAIN attempt_ids :
                      /\ i < j
                      /\ attempt_ids[i] = history[m].attempt
                      /\ attempt_ids[j] = history[n].attempt
      /\ \A i, j \in DOMAIN attempt_ids : attempt_ids[i] = attempt_ids[j] => i = j

\* The records of a history after its i-th and before its j-th.
Between(h, i, j) == {h[k] : k \in {n \in DOMAIN h : i < n /\ n < j}}

\* Every retry is preceded by conclusive non-commit evidence: between two dispatches
\* lies a record that entered RETRYABLE, and if the earlier attempt ever became
\* INDETERMINATE or a receipt was believed, that record is a conclusive absence found
\* by reconciliation, not a rejection.
RetryNeedsNonCommitEvidence ==
  \A i, j \in DOMAIN history :
    i < j /\ IsDispatch(history[i]) /\ IsDispatch(history[j]) =>
      /\ \E r \in Between(history, i, j) : r.resulting = "RETRYABLE"
      /\ (\E r \in Between(history, i, j) : r.resulting \in {"INDETERMINATE", "VERIFYING"})
         /\ (\A r \in Between(history, i, j) : ~IsDispatch(r)) =>
           \E r \in Between(history, i, j) :
             r.source = "RECONCILING" /\ r.cause = "conclusive_absence"

\* An action that stops after a dispatch never does so straight from IN_FLIGHT or
\* INDETERMINATE: the last attempt was rejected before commit, was looked up in
\* RECONCILING, or was verified and found wanting.
StopOnlyWhenAccountedFor ==
  state = "SAFE_STOP" =>
    \A i \in DOMAIN history :
      IsDispatch(history[i]) =>
        \E r \in Between(history, i, Len(history) + 1) :
          \/ r.cause = "precommit_rejection"
          \/ r.source \in {"RECONCILING", "VERIFYING"}

\* A finished action is never revived: from COMPLETE or SAFE_STOP the only way on is to
\* VIOLATION, and VIOLATION itself is final.
FinishedStaysFinished ==
  [][ /\ state = "VIOLATION" => UNCHANGED vars
      /\ state \in {"COMPLETE", "SAFE_STOP"} => state' \in {state, "VIOLATION"} ]_vars

\* The abstract lifecycle, with this machine's action as the one that moves.
KnowledgeOf(s) ==
  CASE s \in {"PROPOSED", "AUTHORIZED", "PREPARED"} -> "unsent"
    [] s \in {"IN_FLIGHT", "INDETERMINATE", "RECONCILING"} -> "maybe"
    [] s = "VERIFYING" -> "found"
    [] s = "RETRYABLE" -> "absent"
    [] s = "COMPLETE" -> "complete"
    [] s = "SAFE_STOP" -> "stopped"
    [] s = "VIOLATION" -> "violated"

Lifecycle == INSTANCE ActionLifecycle WITH
  knowledge <- [a \in ActionIds |->
                 IF a = identity.action_id THEN KnowledgeOf(state) ELSE "unsent"],
  issued    <- [a \in ActionIds |-> IF a = identity.action_id THEN Used ELSE {}]

\* The machine implements ActionLifecycle: it never lets a second attempt out while one
\* may have an effect, nor under an identifier already used.
ImplementsLifecycle == Lifecycle!Spec
=============================================================================
