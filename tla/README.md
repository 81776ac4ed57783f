# TLA+ models of Side Effects Lab

Side Effects Lab (`src/`) builds a deterministic laboratory for one question: when a
program that acts on the outside world loses an answer, does it repeat the effect, stop
blindly, or find out first? At this commit the repository holds the kernel of that
laboratory, and the kernel is what is modelled here: the per-action state machine, the
durable ledger that replays it, the authority engine, and the logical clock, scheduler and
identifier allocator. Source paths below are relative to `src/src/side_effects_lab/`.

## 1. Inventory

| Component | Source | State | Operations |
|---|---|---|---|
| Operation state machine | `state_machine.py` | identity, state, attempt ids, history, in memory | `transition` |
| Operation ledger | `ledger.py` | SQLite tables `events`, `operations`, `transitions`, `attempts`; per handle an open connection | `create`, `reopen`, `close`, `append_event`, `register_operation`, `transition`, `record_dispatch`; readers `events`, `operation(s)`, `validate` |
| Logical clock and scheduler | `clock.py` | tick; ordinal counter and heap per scheduler | `advance`, `advance_to`, `schedule_at`, `schedule_after`, `pop_next` |
| Identifier allocator | `clock.py` | an attempt counter, one effect counter per kind | `next_attempt_id`, `next_effect_id` |
| Authority engine | `authority.py` | none: a function of grant and request | `check_authority` |
| Contract models | `models.py` | none: immutable, validated data | construction |
| Canonical JSON | `canonical.py` | none | encoding, digest |
| Schema generation, command line | `schema_generation.py`, `cli.py` | files | writing schemas, printing a version |
| Gateway, dummy services, fault scheduler, oracle, artifact writer, subjects | `docs/ARCHITECTURE.md` only | | described, not implemented at this commit |

**How they interact.** A caller (later the gateway) registers an action with the ledger,
asks the authority engine, and reports what happened as `transition` calls. Every ledger
call opens an immediate transaction, rebuilds the action's `OperationStateMachine` by
replaying its `transitions` rows, makes the new call on it, and writes event, transition,
operation and attempt rows together. The ledger keeps no machine in memory, so a handle in
another process, or a reopened one, continues from the rows. `record_dispatch` is the only
way into `IN_FLIGHT` and returns a `DispatchPermit` after its commit. Ticks come from the
logical clock and attempt identifiers from the allocator; both are plain arguments to the
ledger, which checks them itself (ticks do not go back, identifiers are new). So is the
sequence number of an appended event, which its author reads with `next_event_seq`.

**What is hard.**

- *Long call sequences.* The graph has cycles through `RETRYABLE`, `RECONCILING` and
  `VERIFYING`. Whether a redispatch or a stop is justified depends on what happened since
  the last dispatch, which no single guard looks at.
- *Atomicity.* A ledger call writes up to five rows in four tables and can fail at the last
  (an attempt identifier that another action has).
- *Crashes.* Between commit and return the permit is lost while the attempt is durable. What
  legal calls leave behind must pass a validation of about five hundred lines on reopen.
- *Two handles.* Sequence numbers and ticks a caller read are stale when it writes. Readers
  run several statements without a transaction.
- *Late effects.* The service may commit an attempt long after the answer was given up.
- *Stale answers.* The authority engine is asked, and its answer used later; it counts the
  effects that are committed, not those on their way; and the tick may pass the expiry in
  between.
- *Shared names.* An allocator lives in a process and the ledger outlives processes.
- *Ordering.* Items of one tick leave the scheduler in scheduling order, also when a third
  party moves the shared clock.

**What makes each component correct.**

- Machine: the history explains the state; identifiers are those of the dispatches; no
  redispatch without evidence of non-commit since the last one; no blind stop; a finished
  action is never revived.
- Ledger: it always reopens; rows are never rewritten; a permit is backed by durable rows
  and never shares its identifier; every forbidden call is recorded; a snapshot was true at
  one moment; creation replaces nothing, and half a creation is never opened.
- Machine and service together: at most one effect; complete means exactly one effect.
- Scheduler: order, no loss, no duplication, eventual delivery when it owns its clock.
- Allocator: no identifier twice within a run.
- Authority: what it returns is an edge the machine accepts where the check is made; answers
  only get worse as time and effects grow; the cap and the expiry hold for what is really
  let out, as far as a caller asks before it writes; nobody is punished who did nothing
  wrong; an effect stays observable.

## 2. Modules

| Module | What it is |
|---|---|
| `TransitionRules` | constant operators of one `transition` call: `NORMATIVE_TRANSITIONS`, the guard flags, the attempt and identity checks, the record produced. Shared by all modules below |
| `ActionLifecycle` | abstract specification: per action, what is known about its effect and which attempt identifiers were let out |
| `OperationStateMachine` | `OperationStateMachine.transition` as an action over identity, state, attempt ids, history |
| `EffectRecovery` | the machine composed with an external service that commits or drops each attempt in its own time |
| `OperationLedger` | `SQLiteLedger`: four tables, handles, permits, replay, validation, crash and reopen |
| `LedgerMachines` | the refinement mapping from the tables to one `OperationStateMachine` for each identity |
| `LedgerReaders` | `operation()` and `validate()`, one step per SELECT, and `next_event_seq()` with the later `append_event()`, between the writers of `OperationLedger` |
| `RunLifetime` | a run: `create()` step by step, `reopen()`, processes that race and die, and the allocator of each, around `OperationLedger` |
| `AuthorityEngine` | constant operators of `check_authority`: the ten defects, their precedence, the decisions and what a decision must look like |
| `GrantedEffects` | several machines under shared grants, the clock, a service, and a caller that asks the engine before it acts |
| `DeterministicScheduler` | `LogicalClock` and the `DeterministicScheduler`s that share it |
| `MC...` | instances for TLC: which calls are made, and symmetry |
| `...Proofs` | theorems and lemmas checked by TLAPS |

`TransitionRules` is the base. `OperationStateMachine` extends it with variables,
`EffectRecovery` extends the machine, and `OperationLedger` extends the rules directly,
because the ledger rebuilds machines instead of keeping them. `LedgerReaders` and
`RunLifetime` extend the ledger: a reader judges its picture of the tables by the ledger's
own definitions, instantiated on that picture. `AuthorityEngine` extends the rules and
`GrantedEffects` the engine. Both the machine and the ledger are shown to implement
`ActionLifecycle` by a refinement mapping, and the ledger to implement the machine:

```
   ActionLifecycle
      ^         ^
      |         |
OperationState  |
   Machine  <-- OperationLedger <-- RunLifetime
                     ^
                     +------------- LedgerReaders      (<-- : implements)
```

### Correspondence

**Machine.** The variables are the four slots of the class. `Transition(call)` is a whole
call in a state other than `VIOLATION`: identity check, attempt check, violation report,
edge, cause and flags in the order of the code (`ViolationReason`), then the record, the
new state and the attempt identifier. A failing call is a step too: it appends its record
and moves to `VIOLATION`. `TerminalCall` is the call that raises there and changes nothing.

**Ledger.** `events` and each action's `transitions` are sequences, because `seq` and the
ordinal are contiguous and are the index. `operations` is a function on the registered
actions, `attempts` a set of rows. `Loads` is `_load_machine_unlocked` and `ContentsValid`
is `_validate_contents`. Each writing call is one step, since `BEGIN IMMEDIATE` admits one
writer and `COMMIT` publishes all its rows; a call that raises before its commit changes
nothing and is absent, except where a property is about it (`ForbiddenButLate`). The commit
of a dispatch and the return of its permit are two steps (`LetOut`, `ReturnPermit`), and
`CloseOrCrash` may come between them.

**Rebuilt machines.** `LedgerMachines` says what the replay is for. The code never keeps a
machine: it rebuilds one for each call from the `transitions` rows, and stores its state and
its attempt identifiers a second time, in `operations` and `attempts`. `Machine(i)` is
`OperationStateMachine` on what the tables say of identity `i`: `StateOf` from the operations
row, `HistoryOf` from the transitions, the identifiers from the attempts by their ordinals
(`Ordered`). An identity that is not registered has a machine that was never called.

**Scheduler.** The heap is a set of (tick, ordinal) pairs whose least element `First`
picks. `Advance` is anybody else who holds the clock. A late head makes `pop_next` raise
and leave the queue as it is: `PopNext` is then disabled.

**Readers.** `operation()` loads the row, the transitions and the attempts of an action, and
then the row again; `validate()` reads all events, lists the operations, takes such a
snapshot of each and compares, in the order of registration (`Foremost` of `todo`, and then
of `unchecked`). Nothing holds a transaction around these statements, so any
writing call may come between two of them (`WriteStep`; opening and closing write nothing
and are left out there). `read` is what the reader has seen, and `Judge` is a check that
raises `LedgerIntegrityError`. The author of an event reads too: `ReadNumber` is
`next_event_seq()`, `SubmitEvent` the `append_event()` that uses the number, later, and is
refused (`EventSequenceError`) when another call has taken it.

**Lifetime.** `create()` is `RequireAbsent`, `CreateFile` (`O_EXCL`), `InitializeSchema` (one
transaction) and `FinishCreate`, with `AbandonCreate` possible between any two: the code
removes nothing it made. `next_attempt_id` and `next_effect_id` are the calls of the
allocator, whose counters start at 0 in every process.

**Authority.** `check_authority` is the function of the same name: `IsDefect` is
`_collect_defects`, `REASON_PRECEDENCE` and `Winning` pick the reason, and the decision names
the target and cause of the call that follows. The engine has no state; `GrantedEffects`
gives it a world. `Ask` is one check in the kind the action's state calls for, acted on at
once where the answer names a call, and kept as a *clearance* where it does not. `Prepare`,
`Dispatch` and `Report` use a clearance, later. `Settle` is the service, `Tick` the clock.
`overlapped` and `erred` record what the caller did that the engine cannot see.

### What the models abstract

- The triple (operation key, intent digest, authority id) is one model value, `binding`:
  the code compares the identity as a whole.
- The five evidence Booleans are the set of those that are true. `evidence_id` decides
  nothing and is left out. A `violation_reason` is a short token.
- Attempt identifiers are model values. One more, `Malformed`, stands for whatever the
  identifier adapter rejects; the rules record it as none.
- Arguments of the wrong Python type raise before any state is read and are left out.
- The ledger's file ownership and permissions, schema text, corruption made by others and
  event kinds beyond "managed" and "other" are left out. So is a locked database: the
  connection does not wait (`ledger.py:1071`), a writer that finds it locked raises before it
  has changed anything, and a reader raises too (`validate()` turns the error into
  `LedgerIntegrityError`).
- In `AuthorityEngine` the digest of an intent is the intent, since a canonical digest tells
  intents apart and does nothing else; parameters are model values; the binding of an
  identity is opened into key, digest and authority, because the engine looks inside it. The
  strict revalidation of tampered argument objects and the evidence payload of a decision are
  left out.
- In `RunLifetime` attempt identifiers are numbers (`attempt-<n>`), `MaxCounter` stands for
  2^64 - 1, and callers use their own identity and tick 0.

## 3. Runs

| Run | Instance | What it shows |
|---|---|---|
| `machine` | one action, own and foreign binding, three attempt ids and a malformed one, every edge with full evidence or one flag missing, any target with any cause; 11 calls | `TypeOK`, `HistoryExplainsState`, `AttemptsAreDispatches`, `RetryNeedsNonCommitEvidence`, `StopOnlyWhenAccountedFor`, `FinishedStaysFinished`, `ImplementsLifecycle` |
| `effect_recovery` | one action, three attempts, every cause in every state with full or partial evidence, service answers at any time; 11 calls | `AtMostOneEffect`, `CompleteMeansDone`, `RetryableMeansAbsent` |
| `ledger_one_action` | one handle, the whole graph, crash and reopen anywhere; 14 events | `TypeOK`, `AlwaysReopens`, `AppendOnly`, `ImplementsLifecycle` |
| `ledger_two_actions` | two actions that want the same two attempt ids; 12 events | `AlwaysReopens`, `PermitsAreDurable`, `ImplementsLifecycle` |
| `ledger_ticks` | two handles, two ticks, other events, wrong identities; 9 events | `AlwaysReopens`, `ImplementsMachines` |
| `scheduler_shared` | two schedulers and a third party on one clock, three items each, ticks 0 to 2 | `PopsInOrder`, `NothingLost`, `LateItemsBlock` |
| `scheduler_alone` | one scheduler that owns its clock, four items, ticks 0 to 3, fairness | `EveryItemPopped` |
| `ledger_readers` | one reader beside one writing handle, two actions, one attempt id, one violated action or one event of another kind; 7 events | `QuietReadsSucceed`, `SnapshotsWereTrue`, `ValidationSeesOneMoment`, `AppendsFollowTheirReading` |
| `run_lifetime` | two processes that race to create one run, die and reopen it, one action, attempt numbers 1 and 2, one effect kind; 8 events | `HandlesNeedASchema`, `AbandonedStaysClosed`, `NothingIsReplaced`, `ReuseOnlyAfterResumption` |
| `granted_effects` | two actions under one grant of one effect, the second a compensation, three attempts, ticks 0 to 2 with expiry at 1, five ways of asking | `AnswersFitTheMachine`, `EffectsWithinGrant`, `ViolationsAreDeserved`, `CommittedStaysObservable`, `ErrorsAreFinal`, `LateOnlyByDelay`, `AnswersOnlyWorsen` |
| `ledger_late_violation` | the instance of `ledger_ticks` | `ForbiddenCallsAreRecorded` is violated, see section 5 |
| `resumed_identifiers` | the instance of `run_lifetime` | `IdentifiersAreNew` is violated, see section 5 |

**Bounds.** `MaxHistory` 11 lets the machine dispatch, lose the answer, look up, redispatch
and do so once more (nine calls reach `COMPLETE` through one redispatch, eleven a third
dispatch), so "the dispatch before the last" is told apart from "some dispatch". `MaxEvents`
counts rows: proposal 1, authorization 1, preparation 2, dispatch 2, and one for each later
transition; fourteen reach `COMPLETE` after a redispatch, twelve let two actions each be
dispatched once, and nine reach a redispatch after a rejection, the first call that a
machine rebuilt without its identifiers would judge differently. Two ticks tell late from in
time. Three items per scheduler put two in one tick and one in another on each side. The
readers' seven events register both actions and dispatch one, with any statement of the
reader between any two calls; SQLite admits one writer at a time, so a second writing handle
adds no interleaving, nor does a second violated action, which nothing can be written to, or
an event of another kind beside it (`MaxAside` 1): a reader checks the one as it checks any
row, and the other by its tick and kind alone. In `run_lifetime` eight events reach a
dispatch, its rejection and a redispatch, and two is the smallest counter bound at which an
identifier can be handed out, used, and the counter be exhausted. In `granted_effects` the
cap 1 and the expiry at 1 of three ticks put a check before, at and after both limits, and
the third attempt lets one action retry while the other is under way. Each cfg begins with
this arithmetic.

**Deadlock** is not checked: the bounds stop every behaviour, and a machine in `VIOLATION`
or an empty scheduler has nothing left to do.

**Fairness** is assumed in `LiveSpec` of the scheduler alone: weak fairness of `PopNext`,
since the scheduler's owner calls `pop_next` until it returns `None`, and a head that is not
late stays poppable until popped. `scheduler_alone` gives the clock no other holder. With
one, a late item blocks the queue for good (that is `LateItemsBlock`), so eventual delivery
does not hold and is not claimed. The machine, the ledger and the engine promise no progress
by themselves, so no liveness is stated of them.

**Honest evidence.** `EffectRecovery` asks whether the guards demand enough, so it has to
say what evidence is worth. For `fresh_postcondition` that is most of `CompleteMeansDone`,
which then tests that the guards ask for the flags and that the graph leads nowhere else.
Evidence that bears the flags which vouch for its cause is true of the service, and for
`conclusive_absence` and `fresh_postcondition` stays true. A success receipt or a rejection
is true without flags: it is the service's own answer to the last attempt. Evidence without
its flags may say anything. A service that still commits after reporting conclusive absence
is outside the assumption.

**The caller of the engine.** `GrantedEffects` needs a caller, and the gateway that will be
one is not in the repository. The model has the caller the architecture describes: it asks
before every write and every lookup with the kind its state calls for, counts the committed
effects of the grant truthfully, reports the service honestly (full evidence, as above), and
makes at once the call a decision names. It may be slow to use an ALLOW, may ask for several
actions at a time, and may ask wrongly. What the properties then say has three parts. What
the engine guarantees alone: `AnswersFitTheMachine`, `AnswersOnlyWorsen`, `ErrorsAreFinal`,
`ViolationsAreDeserved`, `CommittedStaysObservable`. What it guarantees up to a delay:
`LateOnlyByDelay` (an effect can be let out after expiry, if the clock moves between check
and dispatch). What it leaves to the caller: `EffectsWithinGrant` holds until a second write
is allowed while one is outstanding, since the engine counts committed effects only.

**What a reader may meet.** `ledger_readers` confirms that only a reader with a concurrent
writer can be alarmed, and also shows the alarm to be reachable: `operation()` and
`validate()` then raise `LedgerIntegrityError` on a ledger that is in order. A snapshot that
is returned is true except for `updated_event_seq`, which is taken from the second reading
of the operations row and may be newer than the history beside it.

## 4. Proofs

All theorems hold for every value of the constants, under the named assumptions of the
modules: no attempt identifier, `NoAttempt` and `Malformed` are equal, `CallsMade` are
calls, `Requests` are requests, plans are well-formed, bounds are naturals. TLC evaluates
these assumptions of each instance.

`OperationStateMachineProofs` (lemmas on the rules in `TransitionRulesProofs`)

- `TypeCorrect`, `HistoryCorrect`, `AttemptsCorrect`, `FinishedCorrect`: each from the
  effect of one call (`TransitionEffect`) and facts about appending to a sequence. A used
  identifier is never dispatched again by `DispatchIsFresh`.
- `RetryCorrect`: `RetryNeedsNonCommitEvidence` speaks of pairs of dispatches and is not
  inductive, because it says nothing of a dispatch that is not yet followed by another. The
  strengthening `SinceDispatch` says, for every dispatch and every state the machine can be
  in, what the records since then contain: in `RETRYABLE` there is a record that entered it;
  in `IN_FLIGHT` with no later dispatch nothing became indeterminate; in `RETRYABLE` after
  an indeterminate outcome there is a conclusive absence. The graph carries it from state to
  state, and it gives the property at the moment of the next dispatch.
- `StopCorrect`: likewise, with `AccountedFor`: no state before the first dispatch has one in
  its history, and in `RETRYABLE` and `SAFE_STOP` every dispatch is followed by a record that
  accounts for it.
- `LifecycleImplemented`: initial states map to initial states, and every call maps to an
  abstract step or to a stutter.

`EffectRecoveryProofs`

- `RecoveryIsMachine`: the machine beside a service is still the machine, so everything
  above holds of it.
- `OneEffectCorrect`, `CompleteCorrect`, `AbsentCorrect` share `RecoveryInv`: only the
  last attempt can be outstanding (`OnlyLastOutstanding`), and where the next may be let out
  there is none (`NoneBeforeDispatch`). Honest evidence is used exactly where
  the machine enters `RETRYABLE`, `VERIFYING` and `COMPLETE`.

`OperationLedgerProofs`

- `TypeCorrect` and `AppendOnlyCorrect` share the lemma that every step makes the tables
  grow (`Grown`): the next state is well-typed and the old sequences are prefixes of the new
  ones. The lemma is proved call by call, and once for the part both calls share
  (`PersistGrows`).
- `PermitsCorrect`: permits are attempts (`IssuedAreAttempts`), every attempt has its
  dispatch event after a preparation (`AttemptsPlaced`), identifiers and events of attempts
  are not shared (`AttemptsOnce`). That the preparation is there when a dispatch comes is a
  fact about the state (`PreparedOnRecord`), which is what makes the four inductive.
- `AlwaysReopensCorrect`: the validation of `reopen()` itself is inductive with what the
  replays do not say (`RowsOwned`): rows stand only under registered actions, and an action
  has as many identifiers as dispatches. A call adds one row and one or
  two events (`CallAdds`); the new row replays to its record because the validation had just
  replayed the rows before it (`RowReplays`); events that were there are judged as before
  (`EventsStillAgree`), and the managed events are again exactly those some row accounts for
  (`AddedAccounted`).
- `LifecycleImplemented`: a row added to an action's replay is an abstract step of that
  action, a returned permit, a crash and a reopening are none.
- `MachinesImplemented` (`ImplementsMachines` of the run) and `EachMachineImplemented`
  (`Spec => Machine(i)!Spec`): a call that adds a row is the machine's own `Transition` of the
  same call, since the replay that made the record ends in the state and the identifiers the
  tables hold (`CalledMachineSteps`); every other machine rests. `MachinesInv` says what the
  mapping reads beyond `AlwaysReopens`: the ordinals of the attempts rows number them, read in
  that order they give the identifiers of the replay, a history is no longer than the events,
  and a registered identity stands under its own action. The proof needs the whole validation
  as an invariant: without it the rows could be right and their second copies stale. A
  theorem about an instance with a parameter cannot be cited, so the invariants of the
  machine are not carried over by name; the behaviour they are about is.

`LedgerReadersProofs`

- `ReadersAreHarmless`: a ledger with a reader beside it is the ledger, so all of the above
  holds there.
- `AppendsCorrect`: what the author has seen is still a prefix of the log, so that an equal
  number leaves nothing that could have come between. An event so appended follows the very
  rows its author has seen.
- `QuietReadsCorrect`, `SnapshotsCorrect`, `OneMomentCorrect` share `ReadInv`, which relates
  what the reader has seen to what the tables have become since. What was seen is a prefix of
  what is there (`PictureIsPast`); a loaded action was seen in one moment even though its rows
  and its row were read apart, since rows only grow and the replay agreed with the state
  (`SnapshotsHold`), and that moment is not before the call (`SinceTheCall`). For
  `validate()`: the events it read first fix a moment. All actions of that moment are in the
  reading with all their rows (`AllOfTheMoment`), and an action that passed its check has no
  row that came later, for its events would not be in the picture (`OnlyOfTheMoment`). As long
  as nobody writes, the picture is the ledger (`PictureIsCurrent`), and the ledger passes by
  `AlwaysReopens`. Each statement of the reader keeps the parts (`...Keeps`), and so does
  every write that comes between two of them (`BesideKeeps`), because the tables only grow and
  a new row is stamped after all events there are (`StampsAreLater`).

`RunLifetimeProofs`

- `SchemaCorrect`, `AbandonedCorrect`: who is still creating has nothing open, and whoever
  has committed the schema, or has a handle, finds a complete file (`LifetimeInv`).
- `NothingReplacedCorrect`: every step of a run is a step of its ledger or leaves it alone
  (`RunStepIsLedgerStep`), so the rows only grow by the ledger's own theorem.
- `RunReopens`, `RunPermitsAreDurable`, `RunImplementsLifecycle`, `RunImplementsMachines`: by
  the same lemma the ledger's promises hold of a run, which starts from an empty root instead
  of an open ledger, and whose processes come and go. They hold whatever the allocator of a
  resumed run repeats.
- `ReuseCorrect`: before the first reopening the file belongs to one process (`OneOwner`),
  the tables are empty until its creation is finished (`NothingYet`), and its counter bounds
  the identifiers in them, with the one it holds in none (`HeldIsNew`).

`GrantedEffectsProofs`

- `DecisionsCanBeBuilt`: for every grant and request the decision passes the validation of
  its own class. The reasons in their precedence (`PrecedenceShape`) put the winning defect
  at a definite place (`WinningPlace`), and each place has one shape of answer (`Answers`).
- `TypeCorrect` and `AnswersCorrect`, from the shape of the answers alone.
- `EffectsCorrect` and `LateCorrect` from `GrantInv`: the attempts let out are finitely
  many, and no used identifier is unsent (`UsedAreSent`); an action that may dispatch next
  has nothing in doubt (`SettledBefore`); a write is cleared only at a tick not past the
  expiry; and a grant that is not overlapped has room for what is cleared under it.
- `ErrorsCorrect` assumes `PlanIsRight`: a wrongly asked action was given a VIOLATION at
  once, and no call leaves that state.
- `AnswersWorsenCorrect`: time and the committed count never go back, and no answer gets
  better when they grow.
- `PunishmentCorrect` and `ObservableCorrect` assume `PlanIsGranted` (the instance's plan is
  one, by `MCPlanAssumption`). `PunishInv` adds to `GrantInv` that nothing has reached the
  service before the first dispatch, and that a clearance belongs to the state it was given
  in or the violation that follows is deserved.

`DeterministicSchedulerProofs`

- `OrderCorrect`, `NothingLostCorrect`, `LateItemsBlockCorrect`, for any number of
  schedulers, ticks and items. Order alone is not inductive. `PoppedIsPast` adds that what
  was handed out is not after the clock, and comes before everything still queued in the
  same scheduler.

Only model-checked: `EveryItemPopped`. Every other property of a passing run is a theorem.
Liveness under fairness, ENABLED, and what a recursive definition computes for every input
are beyond the prover; no module here declares a recursive operator.

## 5. Findings

`ledger_late_violation`. `docs/ARCHITECTURE.md:368-374` says that any actual attempted
write outside the allowed transition "transitions the action to `VIOLATION`, even when the
gateway prevents the effect". In the ledger the record of a forbidden call goes through
`_insert_event`, which refuses a tick before the last event's (`ledger.py:660`): the call
raises `EventSequenceError`, the transaction is rolled back, and the action can go on as if
nothing had been tried. The run shows the shortest case: `record_dispatch` on an action still
in `PROPOSED`, with an earlier tick. A caller that reads its tick, loses the race to another
handle and then makes a forbidden call meets it.

`resumed_identifiers`. `docs/ARCHITECTURE.md:650-651` says that "run-local attempt and
effect identifiers use stable prefixes and monotonic counters", and `:280-281` that attempt
ids are "`attempt-<decimal counter>` within that run". `RunScopedIdAllocator` starts every
counter at 0 (`clock.py:160`) and takes nothing from the ledger, so the allocator of a run
that is reopened, as `:193-195` expects of a crashed run that is reconciled, hands out
`attempt-1` again. That two allocators of one run id agree is wanted
(`tests/test_clock.py:240-249` expects it, for replays of a run); that a resumed run cannot
continue is what is missing. The run shows a creation, one allocation, a reopening in
another process and the same identifier allocated again. Used for a redispatch it turns the
action into a `VIOLATION` ("attempt_id was already used"); used by another action it raises.
The ledger is not deceived: `AlwaysReopens` and `PermitsAreDurable` hold whatever
identifiers are tried, and `ReuseOnlyAfterResumption` says that a run that was not reopened
cannot get there.

## 6. State of the project

Modelled, checked and proved: every operation that changes state of the machine, the ledger,
the clock, the scheduler, the allocator and the engine, with the compositions among them.

What could come next, once the code grows: the gateway between engine and ledger (it would
replace the caller of `GrantedEffects`, and answer whether two writes under one grant can be
allowed side by side), the fault scheduler and the dummy services (they would replace
`Settle`), and the reconciliation of a crashed run (it would have to restore the allocator's
counters).

**Not modelled**, and why.

- *Canonical JSON.* A pure conversion; the lifecycle depends on it only through "equal
  digests, equal intents", which the models assume.
- *Schema generation, command line.* They write files and print a version, and share no
  state with anything.
- *The rest of `models.py`.* `SemanticIntent` and `AuthorityGrant` are data of the engine,
  `LabEvent` with `EventKind` is the event row of the ledger, and `FrozenMap` holds immutable
  values in them. The classes for faults and claims have no operations, and only the schema
  generation uses them.
- *`make_run_id`.* A hash of its arguments.
- *A locked database.* A call that cannot begin changes nothing, which every behaviour of
  the models already allows; what a caller does about it is not in the repository.
- *Tampered arguments and files.* Strict revalidation in the engine, ownership and
  permissions of the ledger file, and rows changed by others: the models have only states
  the program itself produces.
- *Gateway, dummy services, fault scheduler, oracle, artifact writer, subjects.* They are
  documented only.
