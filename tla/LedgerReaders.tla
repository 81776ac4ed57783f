---------------------------- MODULE LedgerReaders ----------------------------
(***************************************************************************)
(* operation() and validate() while other handles write.  Both run several *)
(* SELECTs with no transaction around them, so each statement sees the     *)
(* tables as they are when it runs: here a reading is a sequence of steps, *)
(* one per statement, and any writing call may come between two of them.   *)
(*                                                                         *)
(* A reading fills in its own picture of the tables, "view", and judges it *)
(* by the definitions of OperationLedger, instantiated on the picture.     *)
(* The attempts table is not kept: it is compared as it is read.           *)
(*                                                                         *)
(* An author of events reads, too: next_event_seq() tells it the number    *)
(* its event must bear, and append_event() is a later call.                *)
(*                                                                         *)
(* The reader is a handle of its own.  Errors of a locked database (the    *)
(* connection does not wait) end a reading early and are left out.         *)
(***************************************************************************)
EXTENDS OperationLedger

CONSTANT MaxAside   \* bound: the actions in VIOLATION and the events of another kind, together

ASSUME AsideAssumption == MaxAside \in Nat

VARIABLE read   \* the reading in progress, or its outcome

all_vars == <<vars, read>>

Reading == {"list", "row", "rows", "attempts", "row again", "check"}
\* alarm: LedgerIntegrityError; refused: EventSequenceError
Outcomes == {"returned", "not found", "alarm", "appended", "refused"}

NoRows == [a \in {} |-> None]
Resting ==
  [stage |-> "resting", task |-> "none", todo |-> {}, unchecked |-> {}, events |-> <<>>,
   operations |-> NoRows, transitions |-> [a \in ActionIds |-> <<>>], managed |-> {},
   start |-> 0, quiet |-> TRUE]

\* The ledger as the reading knows it so far.
View == INSTANCE OperationLedger WITH
  events <- read.events, operations <- read.operations, transitions <- read.transitions

Bounded ==
  Cardinality({a \in DOMAIN operations : operations[a].state = "VIOLATION"})
    + Cardinality({n \in DOMAIN events : events[n].kind = "OTHER"}) <= MaxAside

ReadInit == Init /\ read = Resting

-----------------------------------------------------------------------------
\* start and quiet are auxiliary: the rows of the action when operation() began, and
\* whether nothing was written since the reading began.
BeginOperation(a) ==
  /\ read = Resting
  /\ read' = [Resting EXCEPT !.task = "operation", !.stage = "row", !.todo = {a},
                             !.start = Len(transitions[a])]

\* A check of the reading: it goes on as "next", or LedgerIntegrityError ends it.
Judge(ok, next) ==
  read' = IF ok THEN next ELSE [Resting EXCEPT !.stage = "alarm", !.quiet = read.quiet]

\* validate() reads all events first; their ticks and numbers are judged at once.
BeginValidate ==
  /\ read = Resting
  /\ Judge(TicksNondecreasing,
           [Resting EXCEPT !.task = "validate", !.stage = "list", !.events = events])

\* The managed events of the picture are those that the checked operations account for.
ManagedAgree(accounted) ==
  {n \in DOMAIN read.events : read.events[n].kind \in ManagedKinds} = accounted

\* operations() lists the actions; the readings below take them in the order they were
\* registered.
ReadList ==
  LET listed == DOMAIN operations
  IN  /\ read.stage = "list"
      /\ Judge(listed # {} \/ ManagedAgree({}),
               [read EXCEPT !.todo = listed, !.unchecked = listed,
                            !.stage = IF listed # {} THEN "row" ELSE "returned"])

\* The next of some actions: the one registered first (a proposal event never changes).
Foremost(a, actions) ==
  /\ a \in actions
  /\ \A b \in actions \ {a} : operations[a].created < operations[b].created

\* The statements of one snapshot, that of the action the reading has come to.
ReadRow(a) ==
  /\ read.stage = "row"
  /\ Foremost(a, read.todo)
  /\ read' = IF a \in DOMAIN operations
             THEN [read EXCEPT !.operations = [b \in DOMAIN @ \cup {a} |->
                                                 IF b = a THEN operations[a] ELSE @[b]],
                               !.stage = "rows"]
             ELSE [read EXCEPT !.stage = "not found"]

\* The rows are replayed as they come, against the row of the operation read before.
ReadRows(a) ==
  LET rows == transitions[a]
      cached == read.operations[a]
  IN  /\ read.stage = "rows"
      /\ Foremost(a, read.todo)
      /\ Judge(/\ RowsReplay(rows, cached.identity)
               /\ cached.state = StateBefore(rows, Len(rows) + 1),
               [read EXCEPT !.transitions[a] = rows, !.stage = "attempts"])

ReadAttempts(a) ==
  /\ read.stage = "attempts"
  /\ Foremost(a, read.todo)
  /\ Judge(View!AttemptsAgree(a), [read EXCEPT !.stage = "row again"])

\* Faulty variant: the snapshot's state comes from the second reading too.
WholeRowAgain(row, again) == again

\* What of the second reading of the row goes into the snapshot.
RowAgain(row, again) == [row EXCEPT !.created = again.created, !.updated = again.updated]

ReadRowAgain(a) ==
  /\ read.stage = "row again"
  /\ Foremost(a, read.todo)
  /\ read' = [read EXCEPT
       !.operations[a] = RowAgain(@, operations[a]),
       !.todo = @ \ {a},
       !.stage = IF read.todo # {a} THEN "row"
                 ELSE IF read.task = "validate" THEN "check" ELSE "returned"]

\* Faulty variant: validate() only loads the operations.
CheckNothing(a) ==
  /\ read.stage = "check"
  /\ read' = [read EXCEPT !.stage = "returned"]

\* One more SELECT per snapshot, of its attempts; after the last, the count of managed
\* events decides.
CheckSnapshot(a) ==
  LET accounted == read.managed \cup View!ReferencedEvents(a)
      last == read.unchecked = {a}
  IN  /\ read.stage = "check"
      /\ Foremost(a, read.unchecked)
      /\ Judge(View!OperationEventsAgree(a) /\ (last => ManagedAgree(accounted)),
               [read EXCEPT !.managed = accounted, !.unchecked = @ \ {a},
                            !.stage = IF last THEN "returned" ELSE "check"])

\* next_event_seq(): the picture keeps the events that the number was read from.
ReadNumber ==
  /\ read = Resting
  /\ read' = [Resting EXCEPT !.task = "append", !.stage = "numbered", !.events = events]

\* append_event() with that number, now or after others have written: the event is
\* appended, or its number or its tick is refused and nothing is.
SubmitEvent(h, tick) ==
  LET seq == Len(read.events) + 1
  IN  /\ read.stage = "numbered"
      /\ Idle(h)
      /\ \/ /\ AppendEvent(h, seq, tick)
            /\ Bounded'
            /\ read' = [Resting EXCEPT !.stage = "appended"]
         \/ /\ seq # Len(events) + 1 \/ ~InOrder(tick)
            /\ read' = [Resting EXCEPT !.stage = "refused"]
            /\ UNCHANGED vars

\* The reader has had its answer.
Rest == read.stage \in Outcomes /\ read' = Resting

ReadStep ==
  /\ \/ BeginValidate \/ ReadList \/ ReadNumber \/ Rest
     \/ \E a \in ActionIds :
          \/ BeginOperation(a) \/ ReadRow(a) \/ ReadRows(a) \/ ReadAttempts(a)
          \/ ReadRowAgain(a) \/ CheckSnapshot(a)
  /\ UNCHANGED vars

\* Any writing call, between two statements of the reader.  Opening and closing a handle
\* writes nothing (CloseOrCrash, Reopen), so that a reader cannot tell.
WriteStep ==
  /\ Len(events) < MaxEvents
  /\ Next
  /\ open' = open
  /\ Bounded'
  /\ read' = [read EXCEPT !.quiet = @ /\ (read.stage \in Reading => tables' = tables)]

ReadersNext ==
  \/ ReadStep
  \/ WriteStep
  \/ \E h \in Handles, tick \in Ticks : SubmitEvent(h, tick)

ReadersSpec == ReadInit /\ [][ReadersNext]_all_vars

-----------------------------------------------------------------------------
(***************************************************************************)
(* Properties.                                                             *)
(***************************************************************************)

\* A reading never calls a ledger corrupt that nobody wrote to meanwhile: no state the
\* writers leave behind, between any two of their calls, fails a reader's checks.
QuietReadsSucceed == read.stage = "alarm" => ~read.quiet

\* The snapshot operation() returns was true at one moment of the reading, for all that
\* identity, state, attempts and history say: the history is one the action had, not
\* older than the call, and the state is the one that history ends in.  Only the number
\* of the last event may be newer.
SnapshotsWereTrue ==
  read.stage = "returned" /\ read.task = "operation" =>
    \A a \in DOMAIN read.operations :
      LET seen == read.transitions[a] IN
      /\ IsPrefix(seen, transitions[a])
      /\ Len(seen) >= read.start
      /\ read.operations[a].identity = operations[a].identity
      /\ read.operations[a].state = View!ReplayedState(a)
      /\ read.operations[a].created = operations[a].created
      /\ \/ seen = <<>> /\ read.operations[a].updated = operations[a].created
         \/ \E n \in DOMAIN transitions[a] :
              n >= Len(seen) /\ read.operations[a].updated = transitions[a][n].seq

\* A validate() that passes has seen the ledger as it was at one moment, the one at which
\* it read the events, although its statements ran at several: all the actions and rows
\* of that moment, and none written later.
ValidationSeesOneMoment ==
  read.stage = "returned" /\ read.task = "validate" =>
    LET moment == Len(read.events) IN
    /\ IsPrefix(read.events, events)
    /\ DOMAIN read.operations = {a \in DOMAIN operations : operations[a].created <= moment}
    /\ \A a \in DOMAIN read.operations :
         LET seen == read.transitions[a] IN
         /\ IsPrefix(seen, transitions[a])
         /\ \A n \in DOMAIN transitions[a] :
              n <= Len(seen) <=> transitions[a][n].seq <= moment

\* The number of an event is an optimistic lock: what is appended directly follows the
\* log its author read the number from, row by row, and not merely one as long. Of two
\* authors with the same number only one gets its event in, and whoever was overtaken is
\* refused.
AppendsFollowTheirReading ==
  [][ read.stage = "numbered" /\ read'.stage = "appended" =>
        /\ Len(events') = Len(read.events) + 1
        /\ SubSeq(events', 1, Len(read.events)) = read.events ]_all_vars
=============================================================================
