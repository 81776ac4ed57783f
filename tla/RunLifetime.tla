------------------------------ MODULE RunLifetime ------------------------------
(***************************************************************************)
(* A run from its empty root to its last process: create() and reopen()    *)
(* (ledger.py) step by step, the processes that hold the ledger open, and  *)
(* the RunScopedIdAllocator (clock.py) each of them starts for the run.    *)
(*                                                                         *)
(* create() is four steps of the file system: look for the file, create it *)
(* exclusively, commit the schema, validate.  A process may die, or a step *)
(* may raise (a full disk, a locked database), between any two.  The       *)
(* ledger outlives its processes; an allocator lives in one of them.       *)
(*                                                                         *)
(* Attempt identifiers are the numbers of attempt-<n>; MaxCounter stands   *)
(* for 2^64 - 1.  Callers here use their own identity and tick 0, and the  *)
(* identifiers of their allocator; which call they make is free.           *)
(***************************************************************************)
EXTENDS OperationLedger

CONSTANTS
  EffectKinds,   \* the effect kinds asked for
  MaxCounter     \* the largest value of a counter

ASSUME CounterAssumption == MaxCounter \in Nat /\ AttemptIds = 1..MaxCounter
ASSUME DomainAssumption == "attempt" \notin EffectKinds

VARIABLES
  file,       \* the database file: absent, empty (no schema) or ready
  creating,   \* per handle, how far its create() has come
  counters,   \* per handle, the counters of its process's allocator
  held,       \* per handle, the attempt identifier allocated last, if not used yet
  handed,     \* auxiliary: the attempt identifiers handed out in the run
  repeated,   \* auxiliary: those handed out twice
  resumed     \* auxiliary: whether reopen() ever succeeded

lifetime == <<file, creating, counters, held, handed, repeated, resumed>>
run_vars == <<vars, lifetime>>

Domains == {"attempt"} \cup EffectKinds
NewAllocator == [d \in Domains |-> 0]

\* The root of the run is empty and nobody has it open.
RunInit ==
  /\ events = <<>>
  /\ operations = [a \in {} |-> None]
  /\ transitions = [a \in ActionIds |-> <<>>]
  /\ attempts = {} /\ permits = {} /\ attempted = {}
  /\ open = {}
  /\ returning = [h \in Handles |-> None]
  /\ file = "absent"
  /\ creating = [h \in Handles |-> "no"]
  /\ counters = [h \in Handles |-> NewAllocator]
  /\ held = [h \in Handles |-> None]
  /\ handed = {} /\ repeated = {} /\ resumed = FALSE

-----------------------------------------------------------------------------
(***************************************************************************)
(* create() and reopen().                                                  *)
(***************************************************************************)

\* _require_absent_database
RequireAbsent(h) ==
  /\ h \notin open /\ creating[h] = "no"
  /\ file = "absent"
  /\ creating' = [creating EXCEPT ![h] = "absent"]
  /\ UNCHANGED <<vars, file, counters, held, handed, repeated, resumed>>

\* Faulty variant: the file is opened without O_EXCL and truncated.
CreateFileTruncating(h) ==
  /\ creating[h] = "absent"
  /\ file' = "empty"
  /\ events' = <<>> /\ operations' = [a \in {} |-> None]
  /\ transitions' = [a \in ActionIds |-> <<>>] /\ attempts' = {}
  /\ creating' = [creating EXCEPT ![h] = "created"]
  /\ UNCHANGED <<handles, attempted, counters, held, handed, repeated, resumed>>

\* os.open with O_CREAT | O_EXCL
CreateFile(h) ==
  /\ creating[h] = "absent"
  /\ file = "absent"
  /\ file' = "empty"
  /\ creating' = [creating EXCEPT ![h] = "created"]
  /\ UNCHANGED <<vars, counters, held, handed, repeated, resumed>>

\* _initialize_schema: five tables and the metadata row, in one transaction
InitializeSchema(h) ==
  /\ creating[h] = "created"
  /\ file' = "ready"
  /\ creating' = [creating EXCEPT ![h] = "initialized"]
  /\ UNCHANGED <<vars, counters, held, handed, repeated, resumed>>

\* validate(), and create() returns a handle.
FinishCreate(h) ==
  /\ creating[h] = "initialized"
  /\ ContentsValid
  /\ open' = open \cup {h}
  /\ creating' = [creating EXCEPT ![h] = "no"]
  /\ counters' = [counters EXCEPT ![h] = NewAllocator]
  /\ UNCHANGED <<tables, returning, permits, attempted, file, held, handed, repeated, resumed>>

\* create() raises or its process dies, leaving behind what it has made.
AbandonCreate(h) ==
  /\ creating[h] # "no"
  /\ creating' = [creating EXCEPT ![h] = "no"]
  /\ UNCHANGED <<vars, file, counters, held, handed, repeated, resumed>>

\* Faulty variant: a file is enough.
HasLedgerFile == file # "absent"

\* What reopen() finds: a file with the schema and the metadata of this run.
HasLedger == file = "ready"

\* reopen() in a process of its own, which makes a new allocator for the run.
Resume(h) ==
  /\ creating[h] = "no"
  /\ HasLedger
  /\ Reopen(h)
  /\ counters' = [counters EXCEPT ![h] = NewAllocator]
  /\ resumed' = TRUE
  /\ UNCHANGED <<file, creating, held, handed, repeated>>

Die(h) ==
  /\ CloseOrCrash(h)
  /\ held' = [held EXCEPT ![h] = None]
  /\ UNCHANGED <<file, creating, counters, handed, repeated, resumed>>

-----------------------------------------------------------------------------
(***************************************************************************)
(* The allocator.                                                          *)
(***************************************************************************)

\* Faulty variant: one counter for every domain, read but not stored for attempts.
CountedWithoutStoring(allocator, domain) ==
  [allocator EXCEPT ![domain] = IF domain = "attempt" THEN @ ELSE @ + 1]

\* _next_counter, stored under its domain alone.
Counted(allocator, domain) == [allocator EXCEPT ![domain] = @ + 1]

\* The counter of a domain is not exhausted (OverflowError).
CanCount(h, domain) == h \in open /\ counters[h][domain] < MaxCounter

next_attempt_id(h) ==
  LET id == counters[h]["attempt"] + 1 IN
  /\ CanCount(h, "attempt")
  /\ counters' = [counters EXCEPT ![h] = Counted(@, "attempt")]
  /\ held' = [held EXCEPT ![h] = id]
  /\ handed' = handed \cup {id}
  /\ repeated' = repeated \cup (handed \cap {id})
  /\ UNCHANGED <<vars, file, creating, resumed>>

next_effect_id(h, kind) ==
  /\ CanCount(h, kind)
  /\ counters' = [counters EXCEPT ![h] = Counted(@, kind)]
  /\ UNCHANGED <<vars, file, creating, held, handed, repeated, resumed>>

-----------------------------------------------------------------------------
(***************************************************************************)
(* The calls of a process on the ledger.                                   *)
(***************************************************************************)

\* record_dispatch() with the identifier allocated last.
DispatchHeld(h, a, request, identity) ==
  /\ request.target = "IN_FLIGHT"
  /\ held[h] # None
  /\ RecordDispatch(h, a, held[h], request.evidence, identity, 0)
  /\ held' = [held EXCEPT ![h] = None]

OtherCall(h, a, request, identity) ==
  /\ \/ RegisterOperation(h, identity, 0)
     \/ TransitionCall(h, a, request, identity, 0)
     \/ ReturnPermit(h)
  /\ UNCHANGED held

Work(h) ==
  /\ \E identity \in Identities, request \in Requests :
       \/ DispatchHeld(h, identity.action_id, request, identity)
       \/ OtherCall(h, identity.action_id, request, identity)
  /\ UNCHANGED <<file, creating, counters, handed, repeated, resumed>>

RunNext ==
  \E h \in Handles :
    \/ RequireAbsent(h) \/ CreateFile(h) \/ InitializeSchema(h) \/ FinishCreate(h)
    \/ AbandonCreate(h) \/ Resume(h) \/ Die(h)
    \/ next_attempt_id(h) \/ \E kind \in EffectKinds : next_effect_id(h, kind)
    \/ Work(h)

RunSpec == RunInit /\ [][RunNext]_run_vars

-----------------------------------------------------------------------------
(***************************************************************************)
(* Properties.                                                             *)
(***************************************************************************)

\* However many processes race to create the run, at most one gets to make the file, and
\* none ever replaces a file or a row that is already there.
NothingIsReplaced ==
  [][ /\ file # "absent" => file' # "absent"
      /\ file = "ready" => file' = "ready"
      /\ IsPrefix(events, events')
      /\ \A a \in ActionIds : IsPrefix(transitions[a], transitions'[a])
      /\ attempts \subseteq attempts' ]_run_vars

\* A handle is only ever held on a complete ledger; a creation abandoned halfway closes
\* the root for good: no create() and no reopen() succeeds on it again.
HandlesNeedASchema == open # {} => file = "ready"
AbandonedStaysClosed ==
  [][ file = "empty" /\ (\A h \in Handles : creating[h] # "created")
        => file' = "empty" /\ open' = {} ]_run_vars

\* Within one process the allocator never leads an action into VIOLATION by repeating
\* itself: the ledger only ever meets a used identifier in a run that was reopened.
ReuseOnlyAfterResumption ==
  \A a \in ActionIds : \A n \in DOMAIN transitions[a] :
    transitions[a][n].record.reason = "attempt_id was already used" => resumed

\* ARCHITECTURE.md: "run-local attempt and effect identifiers use stable prefixes and
\* monotonic counters": within a run, an attempt identifier is handed out once.
IdentifiersAreNew == repeated = {}
=============================================================================
