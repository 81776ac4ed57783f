--------------------------- MODULE RunLifetimeProofs ---------------------------
(***************************************************************************)
(* Proofs about the lifetime of a run, for any number of processes that    *)
(* create, open, die and reopen, and any bound on the counters. A run is   *)
(* its ledger with more ways to come and go, so what is proved of the      *)
(* ledger is true of the run.                                              *)
(***************************************************************************)
EXTENDS RunLifetime, OperationLedgerProofs

-----------------------------------------------------------------------------
LifetimeTypeOK ==
  /\ file \in {"absent", "empty", "ready"}
  /\ creating \in [Handles -> {"no", "absent", "created", "initialized"}]
  /\ counters \in [Handles -> [Domains -> 0..MaxCounter]]
  /\ held \in [Handles -> AttemptIds \cup {None}]

\* The strengthening: who is still creating has nothing open, and whoever has committed
\* the schema or has the ledger open finds a complete file.
LifetimeInv ==
  /\ LifetimeTypeOK
  /\ \A h \in Handles : creating[h] # "no" => h \notin open
  /\ \A h \in Handles : creating[h] = "initialized" => file = "ready"
  /\ HandlesNeedASchema

\* What the steps that touch neither the file nor a creation do to the ledger's handles.
LEMMA WorkLeavesHandles ==
  ASSUME NEW h \in Handles, Work(h)
  PROVE  UNCHANGED <<open, file, creating, counters>>
BY DEF Work, DispatchHeld, OtherCall, RegisterOperation, TransitionCall, RecordDispatch,
       RecordOnly, LetOut, ForbiddenButLate, ReturnPermit, handles

\* No step of a run disturbs the invariant.
LEMMA LifetimeStep ==
  ASSUME LifetimeInv, NEW h \in Handles,
         \/ RequireAbsent(h) \/ CreateFile(h) \/ InitializeSchema(h) \/ FinishCreate(h)
         \/ AbandonCreate(h) \/ Resume(h) \/ Die(h)
         \/ next_attempt_id(h) \/ (\E kind \in EffectKinds : next_effect_id(h, kind))
         \/ Work(h)
  PROVE  LifetimeInv'
<1> USE DEF LifetimeInv, LifetimeTypeOK, HandlesNeedASchema
<1>0. NewAllocator \in [Domains -> 0..MaxCounter]
  BY CounterAssumption DEF NewAllocator
<1>1. CASE RequireAbsent(h)
  BY <1>1 DEF RequireAbsent, vars
<1>2. CASE CreateFile(h)
  BY <1>2 DEF CreateFile, vars
<1>3. CASE InitializeSchema(h)
  BY <1>3 DEF InitializeSchema, vars
<1>4. CASE FinishCreate(h)
  BY <1>0, <1>4 DEF FinishCreate
<1>5. CASE AbandonCreate(h)
  BY <1>5 DEF AbandonCreate, vars
<1>6. CASE Resume(h)
  BY <1>0, <1>6 DEF Resume, Reopen, HasLedger
<1>7. CASE Die(h)
  BY <1>7 DEF Die, CloseOrCrash
<1>8. CASE next_attempt_id(h)
  <2> DEFINE id == counters[h]["attempt"] + 1
  <2>1. "attempt" \in Domains
    BY DEF Domains
  <2>2. id \in AttemptIds /\ id \in 0..MaxCounter
    BY <1>8, <2>1, CounterAssumption DEF next_attempt_id, CanCount
  <2>3. counters' = [counters EXCEPT ![h] = [@ EXCEPT !["attempt"] = id]]
    BY <1>8, <2>1 DEF next_attempt_id, Counted
  <2>4. held' = [held EXCEPT ![h] = id] /\ UNCHANGED <<open, file, creating>>
    BY <1>8 DEF next_attempt_id, vars
  <2> HIDE DEF id
  <2> QED BY <2>1, <2>2, <2>3, <2>4
<1>9. ASSUME NEW kind \in EffectKinds, next_effect_id(h, kind) PROVE LifetimeInv'
  <2> DEFINE n == counters[h][kind] + 1
  <2>1. kind \in Domains
    BY DEF Domains
  <2>2. n \in 0..MaxCounter
    BY <1>9, <2>1, CounterAssumption DEF next_effect_id, CanCount
  <2>3. counters' = [counters EXCEPT ![h] = [@ EXCEPT ![kind] = n]]
    BY <1>9, <2>1 DEF next_effect_id, Counted
  <2>4. UNCHANGED <<open, file, creating, held>>
    BY <1>9 DEF next_effect_id, vars
  <2> HIDE DEF n
  <2> QED BY <2>1, <2>2, <2>3, <2>4
<1>10. CASE Work(h)
  <2>1. held' \in [Handles -> AttemptIds \cup {None}]
    BY <1>10 DEF Work, DispatchHeld, OtherCall
  <2> QED BY <1>10, <2>1, WorkLeavesHandles
<1> QED BY <1>1, <1>2, <1>3, <1>4, <1>5, <1>6, <1>7, <1>8, <1>9, <1>10

LEMMA LifetimeInvariant == RunSpec => []LifetimeInv
<1>1. RunInit => LifetimeInv
  BY CounterAssumption
  DEF RunInit, LifetimeInv, LifetimeTypeOK, HandlesNeedASchema, NewAllocator
<1>2. LifetimeInv /\ [RunNext]_run_vars => LifetimeInv'
  <2>1. CASE UNCHANGED run_vars
    BY <2>1
    DEF run_vars, vars, lifetime, LifetimeInv, LifetimeTypeOK, HandlesNeedASchema
  <2>2. CASE RunNext
    BY <2>2, LifetimeStep DEF RunNext
  <2> QED BY <2>1, <2>2
<1> QED BY <1>1, <1>2, PTL DEF RunSpec

\* A handle is only ever held on a complete ledger, however many processes race.
THEOREM SchemaCorrect == RunSpec => []HandlesNeedASchema
<1>1. LifetimeInv => HandlesNeedASchema
  BY DEF LifetimeInv
<1> QED BY <1>1, LifetimeInvariant, PTL

\* A creation abandoned halfway closes the root for good.
THEOREM AbandonedCorrect == RunSpec => AbandonedStaysClosed
<1>1. LifetimeInv /\ [RunNext]_run_vars =>
        [ file = "empty" /\ (\A h \in Handles : creating[h] # "created")
            => file' = "empty" /\ open' = {} ]_run_vars
  <2> SUFFICES ASSUME LifetimeInv, RunNext, file = "empty",
                      \A h \in Handles : creating[h] # "created"
               PROVE  file' = "empty" /\ open' = {}
    OBVIOUS
  <2>1. open = {} /\ \A h \in Handles : creating[h] \in {"no", "absent"}
    BY DEF LifetimeInv, LifetimeTypeOK, HandlesNeedASchema
  <2>2. PICK h \in Handles :
          \/ RequireAbsent(h) \/ CreateFile(h) \/ InitializeSchema(h) \/ FinishCreate(h)
          \/ AbandonCreate(h) \/ Resume(h) \/ Die(h)
          \/ next_attempt_id(h) \/ (\E kind \in EffectKinds : next_effect_id(h, kind))
          \/ Work(h)
    BY DEF RunNext
  <2>3. CASE RequireAbsent(h) \/ AbandonCreate(h) \/ Die(h)
    BY <2>1, <2>3 DEF RequireAbsent, AbandonCreate, Die, CloseOrCrash, vars
  <2>4. CASE CreateFile(h) \/ InitializeSchema(h) \/ FinishCreate(h) \/ Resume(h)
    BY <2>1, <2>4 DEF CreateFile, InitializeSchema, FinishCreate, Resume, HasLedger
  <2>5. CASE next_attempt_id(h) \/ (\E kind \in EffectKinds : next_effect_id(h, kind))
    BY <2>1, <2>5 DEF next_attempt_id, next_effect_id, vars
  <2>6. CASE Work(h)
    BY <2>1, <2>6, WorkLeavesHandles
  <2> QED BY <2>2, <2>3, <2>4, <2>5, <2>6
<1> QED BY <1>1, LifetimeInvariant, PTL DEF RunSpec, AbandonedStaysClosed

-----------------------------------------------------------------------------
\* Every step of a run is a step of its ledger, or none: create() returns as reopen()
\* does, and the allocator only limits which identifiers are tried.
LEMMA RunStepIsLedgerStep ==
  ASSUME LifetimeInv, [RunNext]_run_vars
  PROVE  [Next]_vars
<1>0. 0 \in Ticks
  BY BoundsAssumption DEF Ticks
<1>1. CASE UNCHANGED run_vars
  BY <1>1 DEF run_vars
<1>2. CASE RunNext
  <2>1. PICK h \in Handles :
          \/ RequireAbsent(h) \/ CreateFile(h) \/ InitializeSchema(h) \/ FinishCreate(h)
          \/ AbandonCreate(h) \/ Resume(h) \/ Die(h)
          \/ next_attempt_id(h) \/ (\E kind \in EffectKinds : next_effect_id(h, kind))
          \/ Work(h)
    BY <1>2 DEF RunNext
  <2>2. CASE \/ RequireAbsent(h) \/ CreateFile(h) \/ InitializeSchema(h) \/ AbandonCreate(h)
             \/ next_attempt_id(h) \/ (\E kind \in EffectKinds : next_effect_id(h, kind))
    BY <2>2
    DEF RequireAbsent, CreateFile, InitializeSchema, AbandonCreate, next_attempt_id,
        next_effect_id
  <2>3. CASE FinishCreate(h)
    <3>1. Reopen(h)
      BY <2>3 DEF FinishCreate, Reopen, LifetimeInv
    <3> QED BY <3>1 DEF Next
  <2>4. CASE Resume(h) \/ Die(h)
    BY <2>4 DEF Resume, Die, Next
  <2>5. CASE Work(h)
    <3>1. PICK identity \in Identities, request \in Requests :
            \/ DispatchHeld(h, identity.action_id, request, identity)
            \/ OtherCall(h, identity.action_id, request, identity)
      BY <2>5 DEF Work
    <3>2. identity.action_id \in ActionIds
      BY DEF Identities
    <3>3. CASE DispatchHeld(h, identity.action_id, request, identity)
      <4>1. held[h] \in AttemptIds
        BY <3>3 DEF DispatchHeld, LifetimeInv, LifetimeTypeOK
      <4>2. RecordDispatch(h, identity.action_id, held[h], request.evidence, identity, 0)
        BY <3>3 DEF DispatchHeld
      <4> QED BY <1>0, <3>2, <4>1, <4>2 DEF Next
    <3>4. CASE OtherCall(h, identity.action_id, request, identity)
      BY <1>0, <3>2, <3>4 DEF OtherCall, Next
    <3> QED BY <3>1, <3>3, <3>4
  <2> QED BY <2>1, <2>2, <2>3, <2>4, <2>5
<1> QED BY <1>1, <1>2

\* A run begins with nothing written, and stays well-typed.
LEMMA RunTyped == RunSpec => []TypeOK
<1>1. RunInit => TypeOK
  BY DEF RunInit, TypeOK
<1>2. TypeOK /\ LifetimeInv /\ [RunNext]_run_vars => TypeOK'
  BY RunStepIsLedgerStep, NextGrows DEF Grown
<1> QED BY <1>1, <1>2, LifetimeInvariant, PTL DEF RunSpec

LEMMA RunStartsEmpty == RunInit => NothingWritten
BY DEF RunInit, NothingWritten

\* The file that racing creations, deaths and reopenings leave behind passes the whole
\* validation of reopen(), from the empty root on.
THEOREM RunReopens == RunSpec => []AlwaysReopens
<1>1. TypeOK /\ TypeOK' /\ LifetimeInv /\ ReopenInv /\ [RunNext]_run_vars => ReopenInv'
  BY RunStepIsLedgerStep, ReopenStep
<1>2. ReopenInv => AlwaysReopens
  BY DEF ReopenInv, AlwaysReopens
<1> QED
  BY <1>1, <1>2, RunStartsEmpty, EmptyIsValid, RunTyped, LifetimeInvariant, PTL DEF RunSpec

\* Every permit that any process of the run ever held is backed by durable rows and shares
\* its identifier with no other.
THEOREM RunPermitsAreDurable == RunSpec => []PermitsAreDurable
<1>1. TypeOK /\ LifetimeInv /\ PermitInv /\ [RunNext]_run_vars => PermitInv'
  BY RunStepIsLedgerStep, PermitStep
<1> QED
  BY <1>1, PermitsBacked, RunStartsEmpty, NoPermitsYet, RunTyped, LifetimeInvariant, PTL
  DEF RunSpec

\* No action of a run is dispatched again while an earlier attempt may have an effect, even
\* when the allocator of a resumed run starts over with the identifiers of the first.
THEOREM RunImplementsLifecycle == RunSpec => ImplementsLifecycle
<1>1. NothingWritten => Lifecycle!Init
  BY DEF NothingWritten, Lifecycle!Init, AttemptsOf
<1>2. TypeOK /\ LifetimeInv /\ [RunNext]_run_vars => [Lifecycle!Next]_(Lifecycle!vars)
  BY RunStepIsLedgerStep, LifecycleStep
<1> QED
  BY <1>1, <1>2, RunStartsEmpty, RunTyped, LifetimeInvariant, PTL
  DEF RunSpec, ImplementsLifecycle, Lifecycle!Spec

\* What the tables say of an action is one machine's life, through all the processes that
\* rebuild it and die.
THEOREM RunImplementsMachines == RunSpec => ImplementsMachines
<1>1. TypeOK /\ TypeOK' /\ LifetimeInv /\ ReopenInv /\ MachinesInv /\ [RunNext]_run_vars
        => ReopenInv' /\ MachinesInv' /\ EveryMachineSteps
  BY RunStepIsLedgerStep, ReopenStep, MachinesStep
<1> QED
  BY <1>1, RunStartsEmpty, EmptyIsValid, MachinesStart, RunTyped, LifetimeInvariant, PTL
  DEF RunSpec, ImplementsMachines

\* However many processes race to create, die, reopen and write, no file and no row that
\* is already there is ever replaced.
THEOREM NothingReplacedCorrect == RunSpec => NothingIsReplaced
<1>1. LifetimeInv /\ [RunNext]_run_vars =>
        (file # "absent" => file' # "absent") /\ (file = "ready" => file' = "ready")
  BY WorkLeavesHandles
  DEF RunNext, run_vars, lifetime, RequireAbsent, CreateFile, InitializeSchema, FinishCreate,
      AbandonCreate, Resume, Die, next_attempt_id, next_effect_id
<1>2. TypeOK /\ LifetimeInv /\ [RunNext]_run_vars =>
        [ /\ file # "absent" => file' # "absent"
          /\ file = "ready" => file' = "ready"
          /\ IsPrefix(events, events')
          /\ \A a \in ActionIds : IsPrefix(transitions[a], transitions'[a])
          /\ attempts \subseteq attempts' ]_run_vars
  BY <1>1, RunStepIsLedgerStep, NextGrows DEF Grown
<1> QED BY <1>2, RunTyped, LifetimeInvariant, PTL DEF RunSpec, NothingIsReplaced

-----------------------------------------------------------------------------
(***************************************************************************)
(* Before the run is first reopened it belongs to one process, the one     *)
(* that made the file, and to one allocator.  What that allocator handed   *)
(* out bounds the identifiers in the tables; the one it handed out last,   *)
(* if not used yet, is in no table.                                        *)
(***************************************************************************)

Reused == "attempt_id was already used"
HasTheFile(h) == h \in open \/ creating[h] \in {"created", "initialized"}

OneOwner ==
  /\ \A g, h \in Handles : HasTheFile(g) /\ HasTheFile(h) => g = h
  /\ file = "absent" => \A h \in Handles : ~HasTheFile(h)
NothingYet ==
  file = "absent" \/ (\E h \in Handles : creating[h] \in {"created", "initialized"})
    => \A a \in ActionIds : transitions[a] = <<>>
HeldIsNew ==
  \A h \in Handles :
    /\ h \notin open => held[h] = None
    /\ h \in open => \A a \in ActionIds :
         ReplayedAttempts(a) \subseteq 1..counters[h]["attempt"]
    /\ h \in open /\ held[h] # None =>
         /\ held[h] \in 1..counters[h]["attempt"]
         /\ \A a \in ActionIds : held[h] \notin ReplayedAttempts(a)
NoReuse ==
  \A a \in ActionIds : \A n \in DOMAIN transitions[a] : transitions[a][n].record.reason # Reused

FirstLife == OneOwner /\ NothingYet /\ HeldIsNew /\ NoReuse
ReuseInv == resumed \/ FirstLife

\* Where nothing is recorded, no identifier was used.
LEMMA NoRowsNoAttempts ==
  ASSUME NEW a, transitions[a] = <<>>
  PROVE  ReplayedAttempts(a) = {} /\ DOMAIN transitions[a] = {}
BY DEF ReplayedAttempts, UsedBefore, DispatchRows

\* A recorded call adds its identifier to those of its action if it is a dispatch, and
\* is recorded as a repetition only if the action had used its identifier before.
LEMMA CallUses ==
  ASSUME TypeOK, TypeOK', NEW h \in Handles, NEW a \in ActionIds, Callable(h, a),
         NEW call \in Calls, NEW before,
         PersistTransition(a, before, RecordInLedger(a, call), call, 0), NoReuse,
         call.attempt \notin ReplayedAttempts(a)
  PROVE  /\ NoReuse'
         /\ \A b \in ActionIds :
              ReplayedAttempts(b)' \subseteq ReplayedAttempts(b) \cup
                (IF IsDispatch(RecordInLedger(a, call)) THEN {call.attempt} ELSE {})
<1> DEFINE record == RecordInLedger(a, call)
           row == [seq |-> Len(events'), record |-> record,
                   candidate |-> call.identity, flags |-> call.evidence.flags]
<1>1. /\ transitions \in [ActionIds -> Seq(TransitionRows)]
      /\ transitions[a] \in Seq(TransitionRows) /\ Len(events') \in Nat
  BY DEF TypeOK
<1>2. /\ transitions'[a] = Append(transitions[a], row)
      /\ \A b \in ActionIds : b # a => transitions'[b] = transitions[b]
  BY <1>1 DEF PersistTransition
<1>3. row \in TransitionRows
  BY <1>1, LedgerRecordTyped DEF TransitionRows, Calls, Evidence
<1>4. record.reason # Reused
  <2>1. AttemptFault(ReplayedAttempts(a), call) # Reused
    BY DEF AttemptFault, Reused, NoReason
  <2>2. EdgeFault(ReplayedState(a), call) # Reused
    BY DEF EdgeFault, Reused, NoReason
  <2> QED BY <2>1, <2>2 DEF RecordInLedger, RecordOf, ViolationReason, Reused, Reported
<1>5. IsDispatch(record) => record.attempt = call.attempt
  <2> SUFFICES ASSUME IsDispatch(record) PROVE record.attempt = call.attempt
    OBVIOUS
  <2>1. ReplayedState(a) \in States
    BY <1>1, StateBeforeTyped DEF ReplayedState
  <2>2. record.attempt \in AttemptIds
    BY <2>1, DispatchIsFresh DEF RecordInLedger
  <2> QED BY <2>2, AttemptAssumption DEF RecordInLedger, RecordOf, AttemptForRecord
<1>6. row.record = record
  OBVIOUS
<1> HIDE DEF row, record
<1>7. Longer(transitions[a], row, transitions'[a])
  BY <1>1, <1>2, <1>3, ReplayAppended
<1>8. ReplayedAttempts(a)' = ReplayedAttempts(a) \cup
        (IF IsDispatch(record) THEN {record.attempt} ELSE {})
  <2>1. Len(transitions'[a]) + 1 = Len(transitions[a]) + 2
    BY <1>1, <1>2, <1>3
  <2> QED BY <1>6, <1>7, <2>1 DEF ReplayedAttempts, Longer
<1>9. \A b \in ActionIds : b # a => ReplayedAttempts(b)' = ReplayedAttempts(b)
  BY <1>2 DEF ReplayedAttempts
<1>10. NoReuse'
  <2> SUFFICES ASSUME NEW b \in ActionIds, NEW n \in DOMAIN transitions'[b]
               PROVE  transitions'[b][n].record.reason # Reused
    BY DEF NoReuse
  <2>1. CASE b # a
    BY <1>2, <2>1 DEF NoReuse
  <2>2. CASE b = a /\ n \in DOMAIN transitions[a]
    <3>1. transitions'[a][n] = transitions[a][n]
      BY <1>1, <1>2, <1>3, <2>2, AppendFacts
    <3> QED BY <2>2, <3>1 DEF NoReuse
  <2>3. CASE b = a /\ n \notin DOMAIN transitions[a]
    <3>1. transitions'[a][n] = row
      BY <1>1, <1>2, <1>3, <2>3, AppendFacts
    <3> QED BY <1>4, <1>6, <2>3, <3>1
  <2> QED BY <2>1, <2>2, <2>3
<1>11. \A b \in ActionIds :
         ReplayedAttempts(b)' \subseteq ReplayedAttempts(b) \cup
           (IF IsDispatch(record) THEN {call.attempt} ELSE {})
  BY <1>5, <1>8, <1>9
<1> QED BY <1>10, <1>11 DEF record

\* A call of the only process keeps its identifiers ahead of the tables.
LEMMA WorkIsNew ==
  ASSUME TypeOK, TypeOK', LifetimeInv, FirstLife, NEW h \in Handles, Work(h)
  PROVE  HeldIsNew' /\ NoReuse'
<1>1. UNCHANGED <<open, file, creating, counters>>
  BY WorkLeavesHandles
<1>2. PICK identity \in Identities, request \in Requests :
        \/ DispatchHeld(h, identity.action_id, request, identity)
        \/ OtherCall(h, identity.action_id, request, identity)
  BY DEF Work
<1>3. PICK a \in ActionIds : a = identity.action_id
  BY DEF Identities
<1>4. request.evidence \in Evidence /\ request.target \in States
  BY RequestsAssumption
<1>5. ASSUME UNCHANGED <<transitions, held>> PROVE HeldIsNew' /\ NoReuse'
  BY <1>1, <1>5 DEF FirstLife, HeldIsNew, NoReuse, ReplayedAttempts
<1>6. ASSUME NEW call \in Calls, NEW before,
             PersistTransition(a, before, RecordInLedger(a, call), call, 0),
             Callable(h, a), call.attempt \notin ReplayedAttempts(a),
             \/ UNCHANGED held /\ ~IsDispatch(RecordInLedger(a, call))
             \/ held[h] # None /\ call.attempt = held[h] /\ held' = [held EXCEPT ![h] = None]
      PROVE  HeldIsNew' /\ NoReuse'
  <2> DEFINE added == IF IsDispatch(RecordInLedger(a, call)) THEN {call.attempt} ELSE {}
  <2>1. /\ NoReuse'
        /\ \A b \in ActionIds : ReplayedAttempts(b)' \subseteq ReplayedAttempts(b) \cup added
    BY <1>6, CallUses DEF FirstLife
  <2>2. h \in open /\ \A g \in open : g = h
    BY <1>6 DEF Callable, Idle, FirstLife, OneOwner, HasTheFile, TypeOK
  <2>3. held \in [Handles -> AttemptIds \cup {None}]
    BY DEF LifetimeInv, LifetimeTypeOK
  <2>4. added \subseteq 1..counters[h]["attempt"]
    BY <1>6, <2>2 DEF FirstLife, HeldIsNew
  <2>5. held'[h] # None =>
          /\ held'[h] = held[h] /\ added = {}
    BY <1>6, <2>3
  <2>6. \A g \in Handles : g # h => held'[g] = held[g]
    BY <1>6, <2>3
  <2> HIDE DEF added
  <2> QED BY <1>1, <2>1, <2>2, <2>4, <2>5, <2>6 DEF FirstLife, HeldIsNew
<1>7. CASE DispatchHeld(h, a, request, identity)
  <2>1. PICK call : call = [target |-> "IN_FLIGHT", evidence |-> request.evidence,
                            identity |-> identity, attempt |-> held[h]]
    OBVIOUS
  <2>2. /\ held[h] # None /\ held' = [held EXCEPT ![h] = None]
        /\ held[h] \in AttemptIds
    BY <1>7 DEF DispatchHeld, LifetimeInv, LifetimeTypeOK
  <2>3. call \in Calls
    BY <1>4, <2>1, <2>2 DEF Calls, CallAttempts, States
  <2>4. /\ Callable(h, a)
        /\ LetOut(h, a, call, 0) \/ RecordOnly(a, call, 0) \/ ForbiddenButLate(a, call, 0)
    BY <1>7, <2>1 DEF DispatchHeld, RecordDispatch
  <2>5. call.attempt = held[h] /\ held[h] \notin ReplayedAttempts(a)
    BY <2>1, <2>2, <2>4 DEF Callable, Idle, FirstLife, HeldIsNew
  <2>6. CASE LetOut(h, a, call, 0) \/ RecordOnly(a, call, 0)
    <3>1. \E before : PersistTransition(a, before, RecordInLedger(a, call), call, 0)
      BY <2>6 DEF LetOut, RecordOnly
    <3> QED BY <1>6, <2>2, <2>3, <2>4, <2>5, <3>1
  <2>7. CASE ForbiddenButLate(a, call, 0)
    <3>1. transitions' = transitions
      BY <2>7 DEF ForbiddenButLate, tables
    <3>2. \A g \in Handles : held'[g] # None => held'[g] = held[g]
      BY <2>2 DEF LifetimeInv, LifetimeTypeOK
    <3>3. \A g \in Handles : held[g] = None => held'[g] = None
      BY <2>2 DEF LifetimeInv, LifetimeTypeOK
    <3> QED BY <1>1, <3>1, <3>2, <3>3 DEF FirstLife, HeldIsNew, NoReuse, ReplayedAttempts
  <2> QED BY <2>4, <2>6, <2>7
<1>8. CASE OtherCall(h, a, request, identity)
  <2>1. CASE RegisterOperation(h, identity, 0) \/ ReturnPermit(h)
    BY <1>5, <1>8, <2>1 DEF OtherCall, RegisterOperation, ReturnPermit, tables
  <2>2. CASE TransitionCall(h, a, request, identity, 0)
    <3>1. PICK call : call = [target |-> request.target, evidence |-> request.evidence,
                              identity |-> identity, attempt |-> NoAttempt]
      OBVIOUS
    <3>2. call \in Calls
      BY <1>4, <3>1 DEF Calls, CallAttempts
    <3>3. /\ Callable(h, a) /\ call.target # "IN_FLIGHT"
          /\ RecordOnly(a, call, 0) \/ ForbiddenButLate(a, call, 0)
      BY <2>2, <3>1 DEF TransitionCall
    <3>4. call.attempt \notin ReplayedAttempts(a)
      <4>1. h \in open
        BY <3>3 DEF Callable, Idle
      <4>2. ReplayedAttempts(a) \subseteq AttemptIds
        <5>1. ReplayedAttempts(a) \subseteq 1..counters[h]["attempt"]
          BY <4>1 DEF FirstLife, HeldIsNew
        <5>2. "attempt" \in Domains /\ counters[h]["attempt"] \in 0..MaxCounter
          BY DEF LifetimeInv, LifetimeTypeOK, Domains
        <5> QED BY <5>1, <5>2, CounterAssumption
      <4> QED BY <3>1, <4>2, AttemptAssumption
    <3>5. CASE RecordOnly(a, call, 0)
      <4>1. /\ PersistTransition(a, <<>>, RecordInLedger(a, call), call, 0)
            /\ ~IsDispatch(RecordInLedger(a, call))
        BY <3>5 DEF RecordOnly
      <4> QED BY <1>6, <1>8, <3>2, <3>3, <3>4, <4>1 DEF OtherCall
    <3>6. CASE ForbiddenButLate(a, call, 0)
      BY <1>5, <1>8, <3>6 DEF ForbiddenButLate, OtherCall, tables
    <3> QED BY <3>3, <3>5, <3>6
  <2> QED BY <1>8, <2>1, <2>2 DEF OtherCall
<1> QED BY <1>2, <1>3, <1>7, <1>8

\* No step of a run disturbs it.
LEMMA ReuseStep ==
  ASSUME TypeOK, TypeOK', LifetimeInv, ReuseInv, RunNext
  PROVE  ReuseInv'
<1>1. PICK h \in Handles :
        \/ RequireAbsent(h) \/ CreateFile(h) \/ InitializeSchema(h) \/ FinishCreate(h)
        \/ AbandonCreate(h) \/ Resume(h) \/ Die(h)
        \/ next_attempt_id(h) \/ (\E kind \in EffectKinds : next_effect_id(h, kind))
        \/ Work(h)
  BY DEF RunNext
<1>2. CASE resumed
  <2>1. resumed'
    BY <1>1, <1>2
    DEF RequireAbsent, CreateFile, InitializeSchema, FinishCreate, AbandonCreate, Resume,
        Die, next_attempt_id, next_effect_id, Work
  <2> QED BY <2>1 DEF ReuseInv
<1> SUFFICES ASSUME FirstLife, ~Resume(h) PROVE FirstLife'
  BY <1>1, <1>2 DEF ReuseInv, Resume
<1> USE DEF FirstLife
<1>3. /\ creating \in [Handles -> {"no", "absent", "created", "initialized"}]
      /\ counters \in [Handles -> [Domains -> 0..MaxCounter]]
      /\ held \in [Handles -> AttemptIds \cup {None}] /\ "attempt" \in Domains
      /\ \A g \in Handles : creating[g] # "no" => g \notin open
      /\ \A g \in Handles : creating[g] = "initialized" => file = "ready"
  BY DEF LifetimeInv, LifetimeTypeOK, Domains
<1>4. ASSUME transitions' = transitions
      PROVE  NoReuse' /\ \A a : ReplayedAttempts(a)' = ReplayedAttempts(a)
  BY <1>4 DEF NoReuse, ReplayedAttempts
<1>5. CASE RequireAbsent(h) \/ AbandonCreate(h)
  <2>1. UNCHANGED <<transitions, open, file, counters, held>>
    BY <1>5 DEF RequireAbsent, AbandonCreate, vars
  <2>2. \A g \in Handles : creating'[g] = creating[g] \/ creating'[g] \in {"no", "absent"}
    BY <1>3, <1>5 DEF RequireAbsent, AbandonCreate
  <2> QED BY <1>4, <2>1, <2>2 DEF OneOwner, HasTheFile, NothingYet, HeldIsNew
<1>6. CASE CreateFile(h)
  <2>1. /\ UNCHANGED <<transitions, open, counters, held>> /\ file = "absent"
        /\ file' = "empty" /\ creating' = [creating EXCEPT ![h] = "created"]
    BY <1>6 DEF CreateFile, vars
  <2> QED BY <1>3, <1>4, <2>1 DEF OneOwner, HasTheFile, NothingYet, HeldIsNew
<1>7. CASE InitializeSchema(h)
  <2>1. /\ UNCHANGED <<transitions, open, counters, held>> /\ creating[h] = "created"
        /\ file' = "ready" /\ creating' = [creating EXCEPT ![h] = "initialized"]
    BY <1>7 DEF InitializeSchema, vars
  <2> QED BY <1>3, <1>4, <2>1 DEF OneOwner, HasTheFile, NothingYet, HeldIsNew
<1>8. CASE FinishCreate(h)
  <2>1. /\ UNCHANGED <<transitions, file, held>> /\ creating[h] = "initialized"
        /\ open' = open \cup {h} /\ creating' = [creating EXCEPT ![h] = "no"]
        /\ counters' = [counters EXCEPT ![h] = NewAllocator]
    BY <1>8 DEF FinishCreate, tables
  <2>2. /\ file = "ready" /\ h \notin open /\ held[h] = None
        /\ \A g \in Handles : HasTheFile(g) <=> g = h
    BY <1>3, <2>1 DEF OneOwner, HasTheFile, HeldIsNew
  <2>3. \A a \in ActionIds : transitions[a] = <<>> /\ ReplayedAttempts(a) = {}
    BY <2>1, NoRowsNoAttempts DEF NothingYet
  <2>4. OneOwner' /\ NothingYet'
    BY <1>3, <2>1, <2>2, <2>3 DEF OneOwner, HasTheFile, NothingYet
  <2>5. HeldIsNew'
    BY <1>3, <1>4, <2>1, <2>2, <2>3 DEF HasTheFile, HeldIsNew
  <2> QED BY <1>4, <2>1, <2>4, <2>5
<1>9. CASE Die(h)
  <2>1. /\ UNCHANGED <<transitions, file, creating, counters>>
        /\ open' = open \ {h} /\ held' = [held EXCEPT ![h] = None]
    BY <1>9 DEF Die, CloseOrCrash, tables
  <2> QED BY <1>3, <1>4, <2>1 DEF OneOwner, HasTheFile, NothingYet, HeldIsNew
<1>10. CASE next_attempt_id(h)
  <2> DEFINE n == counters[h]["attempt"]
  <2>1. n \in Nat /\ \A g \in open : g = h
    BY <1>3, <1>10 DEF next_attempt_id, CanCount, OneOwner, HasTheFile, TypeOK
  <2>2. /\ UNCHANGED <<transitions, file, creating, open>> /\ h \in open
        /\ held' = [held EXCEPT ![h] = n + 1]
        /\ counters' = [counters EXCEPT ![h] = [@ EXCEPT !["attempt"] = n + 1]]
    BY <1>3, <1>10 DEF next_attempt_id, CanCount, Counted, vars
  <2>3. counters'[h]["attempt"] = n + 1 /\ held'[h] = n + 1
    BY <1>3, <2>2
  <2>4. \A a \in ActionIds : ReplayedAttempts(a) \subseteq 1..n
    BY <2>2 DEF HeldIsNew
  <2> HIDE DEF n
  <2>5. \A a \in ActionIds :
          n + 1 \notin ReplayedAttempts(a) /\ ReplayedAttempts(a) \subseteq 1..(n + 1)
    BY <2>1, <2>4
  <2>6. \A g \in Handles : g # h => held'[g] = held[g]
    BY <1>3, <2>2
  <2>7. HeldIsNew'
    BY <1>4, <2>1, <2>2, <2>3, <2>5, <2>6 DEF HeldIsNew
  <2> QED BY <1>4, <2>2, <2>7 DEF OneOwner, HasTheFile, NothingYet
<1>11. ASSUME NEW kind \in EffectKinds, next_effect_id(h, kind) PROVE FirstLife'
  <2>1. /\ UNCHANGED <<transitions, file, creating, open, held>>
        /\ counters' = [counters EXCEPT ![h] = Counted(@, kind)]
    BY <1>11 DEF next_effect_id, vars
  <2>2. \A g \in Handles : counters'[g]["attempt"] = counters[g]["attempt"]
    BY <1>3, <2>1, DomainAssumption DEF Counted
  <2> QED BY <1>4, <2>1, <2>2 DEF OneOwner, HasTheFile, NothingYet, HeldIsNew
<1>12. CASE Work(h)
  <2>1. UNCHANGED <<open, file, creating, counters>>
    BY <1>12, WorkLeavesHandles
  <2>2. OneOwner'
    BY <2>1 DEF OneOwner, HasTheFile
  <2>3. NothingYet'
    <3>1. CASE h \in open
      BY <1>3, <2>1, <3>1 DEF OneOwner, HasTheFile, NothingYet
    <3>2. CASE h \notin open
      <4>1. transitions' = transitions
        BY <1>12, <3>2
        DEF Work, DispatchHeld, OtherCall, RegisterOperation, RecordDispatch, TransitionCall,
            ReturnPermit, Callable, Idle, tables
      <4> QED BY <2>1, <4>1 DEF NothingYet
    <3> QED BY <3>1, <3>2
  <2> QED BY <1>12, <2>2, <2>3, WorkIsNew
<1> QED BY <1>1, <1>5, <1>6, <1>7, <1>8, <1>9, <1>10, <1>11, <1>12

\* Within one process the allocator never leads an action into VIOLATION by repeating
\* itself: an identifier is met twice only in a run that was reopened.
THEOREM ReuseCorrect == RunSpec => []ReuseOnlyAfterResumption
<1>1. RunInit => TypeOK /\ ReuseInv
  <2> SUFFICES ASSUME RunInit PROVE TypeOK /\ ReuseInv
    OBVIOUS
  <2>1. TypeOK
    BY DEF RunInit, TypeOK
  <2>2. FirstLife
    BY DEF RunInit, FirstLife, OneOwner, HasTheFile, NothingYet, HeldIsNew, NoReuse
  <2> QED BY <2>1, <2>2 DEF ReuseInv
<1>2. TypeOK /\ LifetimeInv /\ ReuseInv /\ [RunNext]_run_vars => TypeOK' /\ ReuseInv'
  <2> SUFFICES ASSUME TypeOK, LifetimeInv, ReuseInv, [RunNext]_run_vars
               PROVE  TypeOK' /\ ReuseInv'
    OBVIOUS
  <2>1. TypeOK'
    BY RunStepIsLedgerStep, NextGrows DEF Grown
  <2>2. CASE UNCHANGED run_vars
    BY <2>1, <2>2
    DEF run_vars, vars, lifetime, ReuseInv, FirstLife, OneOwner, HasTheFile, NothingYet,
        HeldIsNew, NoReuse, ReplayedAttempts
  <2>3. CASE RunNext
    BY <2>1, <2>3, ReuseStep
  <2> QED BY <2>1, <2>2, <2>3
<1>3. ReuseInv => ReuseOnlyAfterResumption
  BY DEF ReuseInv, FirstLife, NoReuse, Reused, ReuseOnlyAfterResumption
<1> QED BY <1>1, <1>2, <1>3, LifetimeInvariant, PTL DEF RunSpec
=============================================================================
