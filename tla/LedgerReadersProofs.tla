------------------------- MODULE LedgerReadersProofs -------------------------
(***************************************************************************)
(* Proofs about readers that run beside writers, for any writers and any   *)
(* bounds: what a snapshot or a validation has seen was true at one moment,*)
(* and only a reader that was disturbed can call the ledger corrupt.       *)
(***************************************************************************)
EXTENDS LedgerReaders, OperationLedgerProofs

Moment == Len(read.events)
InRow == {"rows", "attempts", "row again"}
Snapshots == UNION {[S -> OperationRows] : S \in SUBSET ActionIds}

Pictures ==
  [stage : Reading \cup Outcomes \cup {"resting", "numbered"},
   task : {"none", "operation", "validate", "append"},
   todo : SUBSET ActionIds, unchecked : SUBSET ActionIds, events : Seq(EventRows),
   operations : Snapshots, transitions : [ActionIds -> Seq(TransitionRows)],
   managed : SUBSET Int, start : Nat, quiet : BOOLEAN]

\* The rows of the action are in the picture.
Loaded(a) ==
  /\ a \in DOMAIN read.operations
  /\ a \in read.todo => read.stage \in {"attempts", "row again"}

\* The parts of the invariant.
OneAtATime ==
  /\ \A a \in read.todo : a \in DOMAIN read.operations =>
       read.stage \in InRow /\ Foremost(a, read.todo)
  /\ read.stage \in InRow =>
       \A a \in read.todo : Foremost(a, read.todo) => a \in DOMAIN read.operations
  /\ read.stage \in {"check", "returned"} => read.todo = {}
  /\ \A a, b \in read.todo : a # b => a \in DOMAIN operations
  /\ read.stage \in {"list", "check"} => read.task = "validate"

PictureIsPast ==
  /\ IsPrefix(read.events, events)
  /\ \A a \in DOMAIN read.operations :
       /\ a \in DOMAIN operations
       /\ read.operations[a].identity = operations[a].identity
       /\ read.operations[a].created = operations[a].created
  /\ \A a \in ActionIds : IsPrefix(read.transitions[a], transitions[a])

SnapshotsHold ==
  /\ \A a \in ActionIds : Loaded(a) => read.operations[a].state = Reached(read.transitions[a])
  /\ \A a \in DOMAIN read.operations : a \notin read.todo =>
       \/ read.transitions[a] = <<>> /\ read.operations[a].updated = operations[a].created
       \/ \E n \in DOMAIN transitions[a] :
            n >= Len(read.transitions[a]) /\ read.operations[a].updated = transitions[a][n].seq

SinceTheCall ==
  read.task = "operation" =>
    /\ \A a \in read.todo : Len(transitions[a]) >= read.start
    /\ \A a \in ActionIds : Loaded(a) => Len(read.transitions[a]) >= read.start

\* The actions of the moment are all in the reading, with their rows of the moment, and
\* those that are checked have no others.
AllOfTheMoment ==
  /\ read.stage # "list" =>
       \A a \in DOMAIN operations :
         operations[a].created <= Moment => a \in read.todo \cup DOMAIN read.operations
  /\ \A a \in ActionIds :
       Loaded(a) => \A n \in DOMAIN transitions[a] :
         n > Len(read.transitions[a]) => transitions[a][n].seq > Moment
OnlyOfTheMoment ==
  \A a \in DOMAIN read.operations : a \notin read.unchecked =>
    /\ read.operations[a].created <= Moment
    /\ \A n \in DOMAIN read.transitions[a] : read.transitions[a][n].seq <= Moment
ChecksFollow ==
  /\ read.todo \subseteq read.unchecked
  /\ read.unchecked \subseteq read.todo \cup DOMAIN read.operations
  /\ read.stage \notin {"check", "returned"} => DOMAIN read.operations \subseteq read.unchecked
  /\ read.stage = "returned" => read.unchecked = {}
  /\ read.stage = "list" => read.todo = {} /\ DOMAIN read.operations = {}
MomentKept == read.task = "validate" => AllOfTheMoment /\ OnlyOfTheMoment /\ ChecksFollow

\* Nobody wrote since the reading began: the picture is the ledger as it is.
PictureIsCurrent ==
  /\ \A a \in DOMAIN read.operations : read.operations[a] = operations[a]
  /\ \A a \in ActionIds : Loaded(a) => read.transitions[a] = transitions[a]
  /\ read.task = "validate" =>
       /\ read.events = events
       /\ read.stage # "list" => read.todo \cup DOMAIN read.operations = DOMAIN operations
       /\ read.managed =
            UNION {ReferencedEvents(a) : a \in DOMAIN read.operations \ read.unchecked}
Undisturbed == read.quiet /\ read.stage \in Reading => PictureIsCurrent

ReadInv ==
  /\ read \in Pictures
  /\ OneAtATime /\ PictureIsPast /\ SnapshotsHold /\ SinceTheCall /\ MomentKept
  /\ Undisturbed /\ QuietReadsSucceed

-----------------------------------------------------------------------------
\* The picture of an action replays to the state that its rows end in.
LEMMA ViewReplays ==
  ASSUME NEW a
  PROVE  View!ReplayedState(a) = Reached(read.transitions[a])
BY DEF View!ReplayedState, View!StateBefore, StateBefore, Reached

\* Where the picture shows the rows of an action as they are, so does a comparison with its
\* attempts.
LEMMA ViewAttempts ==
  ASSUME NEW a, read.transitions[a] = transitions[a]
  PROVE  View!AttemptsAgree(a) <=> AttemptsAgree(a)
<1>1. \A S : View!Cardinality(S) = Cardinality(S)
  BY DEF View!Cardinality, Cardinality
<1> QED
  BY <1>1 DEF View!AttemptsAgree, AttemptsAgree, View!AttemptsOf, AttemptsOf, View!DispatchRows,
              DispatchRows, View!IsDispatch, IsDispatch

\* A picture that is the ledger passes the checks that the ledger passes.
LEMMA ViewEvents ==
  ASSUME NEW a, read.events = events, read.operations[a] = operations[a],
         read.transitions[a] = transitions[a]
  PROVE  /\ View!OperationEventsAgree(a) <=> OperationEventsAgree(a)
         /\ View!ReferencedEvents(a) = ReferencedEvents(a)
<1>1. \A n, k, i, t, f : View!HasEvent(n, k, i, t, f) <=> HasEvent(n, k, i, t, f)
  BY DEF View!HasEvent, HasEvent
<1>2. \A r : View!Prepares(r) <=> Prepares(r)
  BY DEF View!Prepares, Prepares, View!NoReason, NoReason
<1>3. View!TransitionEventsAgree(a) <=> TransitionEventsAgree(a)
  BY <1>1, <1>2 DEF View!TransitionEventsAgree, TransitionEventsAgree
<1>4. View!AttemptEventsAgree(a) <=> AttemptEventsAgree(a)
  BY <1>1 DEF View!AttemptEventsAgree, AttemptEventsAgree, View!AttemptsOf, AttemptsOf,
     View!DispatchRows, DispatchRows, View!IsDispatch, IsDispatch
<1>5. View!OperationEventsAgree(a) <=> OperationEventsAgree(a)
  BY <1>1, <1>3, <1>4 DEF View!OperationEventsAgree, OperationEventsAgree
<1>6. View!ReferencedEvents(a) = ReferencedEvents(a)
  BY <1>2 DEF View!ReferencedEvents, ReferencedEvents, View!AttemptsOf, AttemptsOf
<1> QED BY <1>5, <1>6

\* An operation that passes its check speaks of events of the picture only.
LEMMA ViewBounds ==
  ASSUME NEW a, View!OperationEventsAgree(a)
  PROVE  /\ read.operations[a].created \in DOMAIN read.events
         /\ \A n \in DOMAIN read.transitions[a] : read.transitions[a][n].seq \in DOMAIN read.events
BY DEF View!OperationEventsAgree, View!TransitionEventsAgree, View!HasEvent

-----------------------------------------------------------------------------
(***************************************************************************)
(* The writers.                                                            *)
(***************************************************************************)

\* What a writer does to a reading: nothing but to disturb it.
Beside ==
  /\ read' \in Pictures
  /\ read'.stage = read.stage /\ read'.task = read.task /\ read'.todo = read.todo
  /\ read'.unchecked = read.unchecked /\ read'.events = read.events
  /\ read'.operations = read.operations /\ read'.transitions = read.transitions
  /\ read'.managed = read.managed /\ read'.start = read.start
  /\ read'.quiet => read.quiet
  /\ read'.quiet /\ read.stage \in Reading => tables' = tables
  /\ read.stage = "alarm" /\ ~read.quiet => ~read'.quiet

\* The sorts of the tables and of the picture, spelled out for the provers.
LEMMA Typed ==
  ASSUME TypeOK, read \in Pictures
  PROVE  /\ events \in Seq(EventRows) /\ read.events \in Seq(EventRows)
         /\ Len(events) \in Nat /\ Moment \in Nat
         /\ DOMAIN operations \subseteq ActionIds /\ DOMAIN read.operations \subseteq ActionIds
         /\ \A a \in DOMAIN operations : operations[a] \in OperationRows
         /\ \A a \in DOMAIN read.operations : read.operations[a] \in OperationRows
         /\ \A a \in ActionIds :
              /\ transitions[a] \in Seq(TransitionRows)
              /\ read.transitions[a] \in Seq(TransitionRows)
              /\ Len(transitions[a]) \in Nat /\ Len(read.transitions[a]) \in Nat
              /\ DOMAIN transitions[a] = 1..Len(transitions[a])
              /\ DOMAIN read.transitions[a] = 1..Len(read.transitions[a])
         /\ read.todo \subseteq ActionIds /\ read.unchecked \subseteq ActionIds
<1>1. /\ events \in Seq(EventRows) /\ read.events \in Seq(EventRows)
      /\ \A a \in ActionIds :
           transitions[a] \in Seq(TransitionRows) /\ read.transitions[a] \in Seq(TransitionRows)
      /\ read.todo \subseteq ActionIds /\ read.unchecked \subseteq ActionIds
  BY DEF TypeOK, Pictures
<1>2. /\ DOMAIN operations \subseteq ActionIds
      /\ \A a \in DOMAIN operations : operations[a] \in OperationRows
  BY DEF TypeOK
<1>3. /\ DOMAIN read.operations \subseteq ActionIds
      /\ \A a \in DOMAIN read.operations : read.operations[a] \in OperationRows
  BY DEF Pictures, Snapshots
<1> QED BY <1>1, <1>2, <1>3 DEF Moment

\* A writing call leaves the picture as it is: only the record of quiet moves.
LEMMA WriteIsBeside ==
  ASSUME read \in Pictures, WriteStep
  PROVE  Beside /\ Next
<1>1. read' = [read EXCEPT !.quiet = @ /\ (read.stage \in Reading => tables' = tables)]
  BY DEF WriteStep
<1>2. read.quiet \in BOOLEAN
  BY DEF Pictures
<1> QED BY <1>1, <1>2 DEF Beside, Pictures, WriteStep

\* So a writing call beside a reading preserves what holds of the reading.
LEMMA BesideKeeps ==
  ASSUME TypeOK, TypeOK', [Next]_vars, ReadInv, Beside
  PROVE  ReadInv'
<1>1. Grown /\ StampedLater
  BY NextGrows, StampsAreLater
<1>2. /\ read'.stage = read.stage /\ read'.task = read.task /\ read'.todo = read.todo
      /\ read'.unchecked = read.unchecked /\ read'.events = read.events
      /\ read'.operations = read.operations /\ read'.transitions = read.transitions
      /\ read'.managed = read.managed /\ read'.start = read.start
      /\ Moment' = Moment
      /\ read' \in Pictures
  BY DEF Beside, Moment
<1>3. \A a : Loaded(a)' <=> Loaded(a)
  BY <1>2 DEF Loaded
<1>4. read \in Pictures
  BY DEF ReadInv
<1>5. /\ events' \in Seq(EventRows) /\ Len(events') \in Nat
      /\ \A a \in ActionIds : /\ transitions'[a] \in Seq(TransitionRows)
                              /\ Len(transitions'[a]) \in Nat
                              /\ DOMAIN transitions'[a] = 1..Len(transitions'[a])
  BY DEF TypeOK
<1>6. \A a \in ActionIds : /\ Len(transitions[a]) <= Len(transitions'[a])
                           /\ \A n \in 1..Len(transitions[a]) :
                                transitions'[a][n] = transitions[a][n]
  BY <1>1, <1>4, <1>5, Typed, PrefixMeans DEF Grown
<1>7. \A a \in DOMAIN operations : /\ a \in DOMAIN operations'
                                   /\ operations'[a].identity = operations[a].identity
                                   /\ operations'[a].created = operations[a].created
  BY <1>1 DEF Grown
<1>8. PictureIsPast'
  <2>1. IsPrefix(read.events, events')
    BY <1>1, <1>4, <1>5, Typed, PrefixTransitive DEF ReadInv, PictureIsPast, Grown
  <2>2. \A a \in ActionIds : IsPrefix(read.transitions[a], transitions'[a])
    BY <1>1, <1>4, <1>5, Typed, PrefixTransitive DEF ReadInv, PictureIsPast, Grown
  <2> QED BY <1>2, <1>7, <2>1, <2>2 DEF ReadInv, PictureIsPast
<1>9. Moment <= Len(events)
  BY <1>4, Typed, PrefixMeans DEF ReadInv, PictureIsPast, Moment
<1>10. OneAtATime'
  <2>1. \A a, b \in read.todo : a # b => /\ operations'[a].created = operations[a].created
                                         /\ operations'[b].created = operations[b].created
    BY <1>7 DEF ReadInv, OneAtATime
  <2>2. \A a : Foremost(a, read.todo)' <=> Foremost(a, read.todo)
    BY <1>2, <2>1 DEF Foremost
  <2> QED BY <1>2, <1>7, <2>2 DEF ReadInv, OneAtATime
<1>11. SnapshotsHold'
  <2>1. ASSUME NEW a \in DOMAIN read.operations, a \notin read.todo
        PROVE  \/ read.transitions[a] = <<>> /\ read.operations[a].updated = operations'[a].created
               \/ \E n \in DOMAIN transitions'[a] :
                    /\ n >= Len(read.transitions[a])
                    /\ read.operations[a].updated = transitions'[a][n].seq
    <3>1. a \in DOMAIN operations /\ a \in ActionIds
      BY <1>4, <2>1, Typed DEF ReadInv, PictureIsPast
    <3>2. CASE read.transitions[a] = <<>> /\ read.operations[a].updated = operations[a].created
      BY <1>7, <3>1, <3>2
    <3>3. ASSUME NEW n \in DOMAIN transitions[a],
                 n >= Len(read.transitions[a]), read.operations[a].updated = transitions[a][n].seq
          PROVE  \E m \in DOMAIN transitions'[a] :
                   /\ m >= Len(read.transitions[a])
                   /\ read.operations[a].updated = transitions'[a][m].seq
      <4>1. n \in 1..Len(transitions[a]) /\ Len(transitions[a]) \in Nat
        BY <1>4, <3>1, <3>3, Typed
      <4>2. n \in DOMAIN transitions'[a] /\ transitions'[a][n] = transitions[a][n]
        BY <1>5, <1>6, <3>1, <4>1
      <4> QED BY <3>3, <4>2
    <3> QED BY <2>1, <3>2, <3>3 DEF ReadInv, SnapshotsHold
  <2> QED BY <1>2, <1>3, <2>1 DEF ReadInv, SnapshotsHold
<1>12. SinceTheCall'
  <2>1. read.start \in Nat /\ \A a \in read.todo : a \in ActionIds
    BY <1>4, Typed DEF Pictures
  <2>2. read.task = "operation" => \A a \in read.todo : Len(transitions'[a]) >= read.start
    BY <1>4, <1>5, <1>6, <2>1, Typed DEF ReadInv, SinceTheCall
  <2> QED BY <1>2, <1>3, <2>2 DEF ReadInv, SinceTheCall
<1>13. MomentKept'
  <2>1. ASSUME read.task = "validate" PROVE AllOfTheMoment'
    <3>1. ASSUME read.stage # "list", NEW a \in DOMAIN operations', operations'[a].created <= Moment
          PROVE  a \in read.todo \cup DOMAIN read.operations
      <4>1. operations'[a].created \in Nat
        BY DEF TypeOK, OperationRows
      <4>2. a \in DOMAIN operations
        BY <1>1, <1>4, <1>9, <3>1, <4>1, Typed DEF StampedLater
      <4> QED BY <1>7, <2>1, <3>1, <4>2 DEF ReadInv, MomentKept, AllOfTheMoment
    <3>2. ASSUME NEW a \in ActionIds, Loaded(a), NEW n \in DOMAIN transitions'[a],
                 n > Len(read.transitions[a])
          PROVE  transitions'[a][n].seq > Moment
      <4>1. n \in Nat /\ transitions'[a][n].seq \in Nat
        <5>1. n \in 1..Len(transitions'[a]) /\ Len(transitions'[a]) \in Nat
          BY <1>5
        <5>2. transitions'[a][n] \in TransitionRows
          BY <1>5, <5>1
        <5> QED BY <5>1, <5>2 DEF TransitionRows
      <4>2. CASE n > Len(transitions[a])
        BY <1>1, <1>4, <1>9, <4>1, <4>2, Typed DEF StampedLater
      <4>3. CASE ~(n > Len(transitions[a]))
        <5>1. n \in DOMAIN transitions[a] /\ transitions'[a][n] = transitions[a][n]
          BY <1>4, <1>5, <1>6, <4>1, <4>3, Typed
        <5> QED BY <2>1, <3>2, <5>1 DEF ReadInv, MomentKept, AllOfTheMoment
      <4> QED BY <4>2, <4>3
    <3> QED BY <1>2, <1>3, <3>1, <3>2 DEF AllOfTheMoment
  <2>2. read.task = "validate" => OnlyOfTheMoment' /\ ChecksFollow'
    BY <1>2 DEF ReadInv, MomentKept, OnlyOfTheMoment, ChecksFollow
  <2> QED BY <1>2, <2>1, <2>2 DEF MomentKept
<1>14. Undisturbed'
  <2> SUFFICES ASSUME read'.quiet, read.stage \in Reading PROVE PictureIsCurrent'
    BY <1>2 DEF Undisturbed
  <2>1. /\ read.quiet /\ events' = events /\ operations' = operations
        /\ transitions' = transitions /\ attempts' = attempts
    BY DEF Beside, tables
  <2>2. PictureIsCurrent
    BY <2>1 DEF ReadInv, Undisturbed
  <2>3. \A a : ReferencedEvents(a)' = ReferencedEvents(a)
    BY <2>1 DEF ReferencedEvents, AttemptsOf
  <2> QED BY <1>2, <1>3, <2>1, <2>2, <2>3 DEF PictureIsCurrent
<1>15. QuietReadsSucceed'
  BY DEF ReadInv, Beside, QuietReadsSucceed
<1> QED BY <1>2, <1>8, <1>10, <1>11, <1>12, <1>13, <1>14, <1>15 DEF ReadInv

-----------------------------------------------------------------------------
(***************************************************************************)
(* The statements of a reading.                                            *)
(***************************************************************************)

\* A picture that shows no action yet.
Blank ==
  /\ read' \in Pictures
  /\ DOMAIN read'.operations = {}
  /\ \A a \in ActionIds : read'.transitions[a] = <<>>
  /\ IsPrefix(read'.events, events')

\* The empty picture has the sorts of a picture.
LEMMA NoRowsShape ==
  /\ NoRows \in Snapshots /\ DOMAIN NoRows = {}
  /\ [a \in ActionIds |-> <<>>] \in [ActionIds -> Seq(TransitionRows)]
  /\ <<>> \in Seq(EventRows)
<1>1. NoRows \in [{} -> OperationRows] /\ {} \in SUBSET ActionIds
  BY DEF NoRows
<1>2. NoRows \in Snapshots /\ DOMAIN NoRows = {}
  BY <1>1 DEF Snapshots, NoRows
<1>3. [a \in ActionIds |-> <<>>] \in [ActionIds -> Seq(TransitionRows)]
  OBVIOUS
<1>4. <<>> \in Seq(EventRows)
  OBVIOUS
<1> QED BY <1>2, <1>3, <1>4

\* An empty picture is past and holds no snapshot that could be wrong.
LEMMA BlankHolds ==
  ASSUME TypeOK', Blank
  PROVE  PictureIsPast' /\ SnapshotsHold' /\ \A a : ~Loaded(a)'
<1>1. \A a \in ActionIds : IsPrefix(<<>>, transitions'[a])
  BY EmptyIsPrefix DEF TypeOK
<1>2. PictureIsPast'
  BY <1>1 DEF Blank, PictureIsPast
<1>3. \A a : ~Loaded(a)'
  BY DEF Blank, Loaded
<1> QED BY <1>2, <1>3 DEF SnapshotsHold, Blank

\* Resting, or at an end that leaves nothing of the picture.
LEMMA BlankRest ==
  ASSUME TypeOK',
         \/ read' = Resting
         \/ read' = [Resting EXCEPT !.stage = "appended"]
         \/ read' = [Resting EXCEPT !.stage = "refused"]
         \/ read' = [Resting EXCEPT !.stage = "alarm", !.quiet = FALSE]
  PROVE  ReadInv'
<1>1. /\ read' \in Pictures /\ DOMAIN read'.operations = {}
      /\ \A a \in ActionIds : read'.transitions[a] = <<>>
      /\ read'.events = <<>> /\ read'.todo = {} /\ read'.task = "none"
      /\ read'.stage \in {"resting", "appended", "refused", "alarm"}
      /\ read'.stage = "alarm" => ~read'.quiet
  <2>1. CASE read' = Resting
    BY <2>1, NoRowsShape DEF Resting, Pictures, Outcomes
  <2>3. CASE read' = [Resting EXCEPT !.stage = "appended"]
    BY <2>3, NoRowsShape DEF Resting, Pictures, Outcomes
  <2>4. CASE read' = [Resting EXCEPT !.stage = "refused"]
    BY <2>4, NoRowsShape DEF Resting, Pictures, Outcomes
  <2>2. CASE read' = [Resting EXCEPT !.stage = "alarm", !.quiet = FALSE]
    BY <2>2, NoRowsShape DEF Resting, Pictures, Outcomes
  <2> QED BY <2>1, <2>2, <2>3, <2>4
<1>2. Blank
  BY <1>1, EmptyIsPrefix DEF Blank, TypeOK
<1>3. PictureIsPast' /\ SnapshotsHold'
  BY <1>2, BlankHolds
<1>4. OneAtATime' /\ SinceTheCall' /\ MomentKept'
  BY <1>1 DEF OneAtATime, SinceTheCall, MomentKept, InRow
<1>5. Undisturbed' /\ QuietReadsSucceed'
  BY <1>1 DEF Undisturbed, Reading, QuietReadsSucceed
<1> QED BY <1>1, <1>3, <1>4, <1>5 DEF ReadInv

\* operation() begins.
LEMMA BeginOperationKeeps ==
  ASSUME TypeOK, ReadInv, NEW a \in ActionIds, BeginOperation(a), UNCHANGED vars
  PROVE  ReadInv'
<1>1. /\ DOMAIN read'.operations = {}
      /\ \A b \in ActionIds : read'.transitions[b] = <<>>
      /\ read'.events = <<>> /\ read'.stage = "row" /\ read'.todo = {a}
      /\ read'.task = "operation" /\ read'.start = Len(transitions[a])
      /\ read' \in Pictures
  <2>1. Len(transitions[a]) \in Nat
    BY DEF TypeOK
  <2> QED BY <2>1, NoRowsShape DEF BeginOperation, Resting, Pictures, Reading
<1>2. /\ events' = events /\ transitions' = transitions /\ TypeOK'
  BY DEF vars, TypeOK
<1>3. Blank
  BY <1>1, <1>2, EmptyIsPrefix DEF Blank, TypeOK
<1>4. PictureIsPast' /\ SnapshotsHold' /\ \A b : ~Loaded(b)'
  BY <1>2, <1>3, BlankHolds
<1>5. OneAtATime'
  BY <1>1 DEF OneAtATime, InRow
<1>6. SinceTheCall'
  <2>1. Len(transitions[a]) \in Nat
    BY DEF TypeOK
  <2> QED BY <1>1, <1>2, <1>4, <2>1 DEF SinceTheCall
<1>7. MomentKept' /\ QuietReadsSucceed'
  BY <1>1 DEF MomentKept, QuietReadsSucceed
<1>8. Undisturbed'
  BY <1>1, <1>4 DEF Undisturbed, PictureIsCurrent
<1> QED BY <1>1, <1>4, <1>5, <1>6, <1>7, <1>8 DEF ReadInv

\* validate() reads the events.
LEMMA BeginValidateKeeps ==
  ASSUME TypeOK, ContentsValid, ReadInv, BeginValidate, UNCHANGED vars
  PROVE  ReadInv'
<1>0. read' = [Resting EXCEPT !.task = "validate", !.stage = "list", !.events = events]
  BY DEF BeginValidate, Judge, ContentsValid
<1>1. /\ DOMAIN read'.operations = {}
      /\ \A b \in ActionIds : read'.transitions[b] = <<>>
      /\ read'.events = events /\ read'.stage = "list" /\ read'.todo = {}
      /\ read'.unchecked = {} /\ read'.managed = {}
      /\ read'.task = "validate"
      /\ read' \in Pictures
  <2>1. events \in Seq(EventRows)
    BY DEF TypeOK
  <2> QED BY <1>0, <2>1, NoRowsShape DEF Resting, Pictures, Reading
<1>2. events' = events /\ TypeOK'
  BY DEF vars, TypeOK
<1>3. Blank
  BY <1>1, <1>2, PrefixOfItself DEF Blank, TypeOK
<1>4. PictureIsPast' /\ SnapshotsHold' /\ \A b : ~Loaded(b)'
  BY <1>2, <1>3, BlankHolds
<1>5. OneAtATime' /\ SinceTheCall' /\ QuietReadsSucceed'
  BY <1>1 DEF OneAtATime, InRow, SinceTheCall, QuietReadsSucceed
<1>6. MomentKept'
  BY <1>1, <1>4 DEF MomentKept, AllOfTheMoment, OnlyOfTheMoment, ChecksFollow
<1>7. Undisturbed'
  <2>1. PictureIsCurrent'
    BY <1>1, <1>2, <1>4 DEF PictureIsCurrent
  <2> QED BY <2>1 DEF Undisturbed
<1> QED BY <1>1, <1>4, <1>5, <1>6, <1>7 DEF ReadInv

\* An author reads the number of its event.
LEMMA ReadNumberKeeps ==
  ASSUME TypeOK, ReadInv, ReadNumber, UNCHANGED vars
  PROVE  ReadInv'
<1>0. read' = [Resting EXCEPT !.task = "append", !.stage = "numbered", !.events = events]
  BY DEF ReadNumber
<1>1. /\ DOMAIN read'.operations = {}
      /\ \A b \in ActionIds : read'.transitions[b] = <<>>
      /\ read'.events = events /\ read'.stage = "numbered" /\ read'.todo = {}
      /\ read'.task = "append"
      /\ read' \in Pictures
  <2>1. events \in Seq(EventRows)
    BY DEF TypeOK
  <2> QED BY <1>0, <2>1, NoRowsShape DEF Resting, Pictures
<1>2. events' = events /\ TypeOK'
  BY DEF vars, TypeOK
<1>3. Blank
  BY <1>1, <1>2, PrefixOfItself DEF Blank, TypeOK
<1>4. PictureIsPast' /\ SnapshotsHold'
  BY <1>2, <1>3, BlankHolds
<1>5. OneAtATime' /\ SinceTheCall' /\ MomentKept' /\ QuietReadsSucceed'
  BY <1>1 DEF OneAtATime, InRow, SinceTheCall, MomentKept, QuietReadsSucceed
<1>6. Undisturbed'
  BY <1>1 DEF Undisturbed, Reading
<1> QED BY <1>1, <1>4, <1>5, <1>6 DEF ReadInv

\* The event of the author is appended or refused.
LEMMA SubmitEventKeeps ==
  ASSUME TypeOK', NEW h, NEW tick, SubmitEvent(h, tick)
  PROVE  ReadInv'
BY BlankRest DEF SubmitEvent

\* Appending an event is a step of the ledger, being refused is none.
LEMMA SubmitEventSteps ==
  ASSUME NEW h \in Handles, NEW tick \in Ticks, SubmitEvent(h, tick)
  PROVE  [Next]_vars
<1>1. CASE AppendEvent(h, Len(read.events) + 1, tick)
  <2>1. Len(read.events) + 1 = Len(events) + 1
    BY <1>1 DEF AppendEvent
  <2>2. AppendEvent(h, Len(events) + 1, tick)
    BY <1>1, <2>1
  <2> QED BY <2>2 DEF Next
<1> QED BY <1>1 DEF SubmitEvent

\* A check that fails ends a reading that was disturbed.
LEMMA AlarmKeeps ==
  ASSUME TypeOK, ReadInv, UNCHANGED vars, NEW next, Judge(FALSE, next), ~read.quiet
  PROVE  ReadInv'
<1>1. TypeOK' /\ read.quiet \in BOOLEAN
  BY DEF vars, TypeOK, ReadInv, Pictures
<1>2. read' = [Resting EXCEPT !.stage = "alarm", !.quiet = FALSE]
  BY <1>1 DEF Judge
<1> QED BY <1>1, <1>2, BlankRest

\* The reader that has its answer is at rest again.
LEMMA RestKeeps ==
  ASSUME TypeOK, Rest, UNCHANGED vars
  PROVE  ReadInv'
<1>1. TypeOK'
  BY DEF vars, TypeOK
<1>2. read' = Resting
  BY DEF Rest
<1> QED BY <1>1, <1>2, BlankRest

\* Where the ledger stays, the definitions of the picture speak of the same tables.
Stays ==
  /\ events' = events /\ operations' = operations /\ transitions' = transitions
  /\ attempts' = attempts

\* validate() lists the operations.
LEMMA ReadListKeeps ==
  ASSUME TypeOK, ContentsValid, ReadInv, ReadList, UNCHANGED vars
  PROVE  ReadInv'
<1>1. read.stage = "list" /\ read \in Pictures /\ read.task = "validate" /\ Stays
  BY DEF ReadList, ReadInv, OneAtATime, vars, Stays
<1>2. read.todo = {} /\ DOMAIN read.operations = {} /\ read.unchecked = {} /\ \A a : ~Loaded(a)
  BY <1>1 DEF ReadInv, MomentKept, ChecksFollow, Loaded
<1>3. CASE DOMAIN operations = {} /\ ~ManagedAgree({})
  <2>1. ~read.quiet
    <3> SUFFICES ASSUME read.quiet PROVE ManagedAgree({})
      BY <1>3
    <3>1. read.events = events
      BY <1>1 DEF ReadInv, Undisturbed, PictureIsCurrent, Reading
    <3> QED BY <1>3, <3>1 DEF ManagedAgree, ContentsValid
  <2>2. \E next : Judge(FALSE, next)
    BY <1>3 DEF ReadList, Judge
  <2> QED BY <2>1, <2>2, AlarmKeeps
<1>4. CASE DOMAIN operations # {} \/ ManagedAgree({})
  <2>1. PICK listed : listed = DOMAIN operations
    OBVIOUS
  <2>2. listed \subseteq ActionIds
    BY <2>1 DEF TypeOK
  <2>3. read' = [read EXCEPT !.todo = listed, !.unchecked = listed,
                             !.stage = IF listed # {} THEN "row" ELSE "returned"]
    BY <1>4, <2>1 DEF ReadList, Judge
  <2>4. /\ read' \in Pictures /\ read'.todo = listed /\ read'.unchecked = listed
        /\ read'.stage = (IF listed # {} THEN "row" ELSE "returned")
        /\ read'.events = read.events /\ read'.operations = read.operations
        /\ read'.transitions = read.transitions /\ read'.managed = read.managed
        /\ read'.task = read.task /\ read'.quiet = read.quiet
    BY <1>1, <2>2, <2>3 DEF Pictures, Reading, Outcomes
  <2>5. \A a : ~Loaded(a)'
    BY <1>2, <2>4 DEF Loaded
  <2>6. OneAtATime'
    BY <1>1, <1>2, <2>1, <2>4 DEF OneAtATime, InRow, Stays
  <2>7. PictureIsPast'
    BY <1>1, <2>4 DEF ReadInv, PictureIsPast, Stays
  <2>8. SnapshotsHold' /\ SinceTheCall' /\ QuietReadsSucceed'
    BY <1>1, <1>2, <2>4, <2>5 DEF SnapshotsHold, SinceTheCall, QuietReadsSucceed
  <2>9. MomentKept'
    BY <1>1, <1>2, <2>1, <2>4, <2>5
    DEF MomentKept, AllOfTheMoment, OnlyOfTheMoment, ChecksFollow, Stays
  <2>10. Undisturbed'
    <3> SUFFICES ASSUME read.quiet PROVE PictureIsCurrent'
      BY <2>4 DEF Undisturbed
    <3>1. PictureIsCurrent
      BY <1>1 DEF ReadInv, Undisturbed, Reading
    <3>2. read'.managed = {} /\ DOMAIN read'.operations = {} /\ read'.events = events'
      BY <1>1, <1>2, <2>4, <3>1 DEF PictureIsCurrent, Stays
    <3> QED BY <1>1, <2>1, <2>4, <2>5, <3>2 DEF PictureIsCurrent, Stays
  <2> QED BY <2>4, <2>6, <2>7, <2>8, <2>9, <2>10 DEF ReadInv
<1> QED BY <1>3, <1>4

\* No two actions are foremost.
LEMMA ForemostIsOne ==
  ASSUME TypeOK, ReadInv, NEW a, NEW b, Foremost(a, read.todo), Foremost(b, read.todo)
  PROVE  a = b
<1> SUFFICES ASSUME a # b PROVE FALSE
  OBVIOUS
<1>1. a \in DOMAIN operations /\ b \in DOMAIN operations
  BY DEF ReadInv, OneAtATime, Foremost
<1>2. operations[a].created \in Nat /\ operations[b].created \in Nat
  BY <1>1 DEF TypeOK, OperationRows
<1> QED BY <1>2 DEF Foremost

\* What a step keeps that moves the reading on and leaves the picture as it is.
LEMMA MovingOnKeeps ==
  ASSUME ReadInv, Stays, \A b : Loaded(b)' <=> Loaded(b),
         read'.todo = read.todo, read'.unchecked = read.unchecked, read'.start = read.start,
         read'.events = read.events, read'.operations = read.operations,
         read'.transitions = read.transitions, read'.managed = read.managed,
         read'.task = read.task, read'.stage = "list" <=> read.stage = "list"
  PROVE  /\ SnapshotsHold' /\ SinceTheCall'
         /\ PictureIsCurrent => PictureIsCurrent'
<1>1. SnapshotsHold'
  BY DEF ReadInv, SnapshotsHold, Stays
<1>2. SinceTheCall'
  BY DEF ReadInv, SinceTheCall, Stays
<1>3. ASSUME PictureIsCurrent PROVE PictureIsCurrent'
  <2>1. \A b : ReferencedEvents(b)' = ReferencedEvents(b)
    BY DEF Stays, ReferencedEvents, AttemptsOf
  <2> QED BY <1>3, <2>1 DEF PictureIsCurrent, Stays
<1> QED BY <1>1, <1>2, <1>3

\* The statements of one snapshot: first the row of the operation,
LEMMA ReadRowKeeps ==
  ASSUME TypeOK, ContentsValid, ReadInv, NEW a \in ActionIds, ReadRow(a), UNCHANGED vars
  PROVE  ReadInv'
<1>1. /\ read.stage = "row" /\ read \in Pictures /\ Stays
      /\ a \in read.todo /\ Foremost(a, read.todo)
      /\ \A b : b \in read.todo => b \notin DOMAIN read.operations
  BY DEF ReadRow, Foremost, ReadInv, OneAtATime, InRow, vars, Stays
<1>2. CASE a \notin DOMAIN operations
  <2>1. read' = [read EXCEPT !.stage = "not found"]
    BY <1>2 DEF ReadRow
  <2>2. /\ read' \in Pictures /\ read'.todo = read.todo /\ read'.unchecked = read.unchecked
        /\ read'.stage = "not found" /\ read'.start = read.start
        /\ read'.events = read.events /\ read'.operations = read.operations
        /\ read'.transitions = read.transitions /\ read'.managed = read.managed
        /\ read'.task = read.task /\ read'.quiet = read.quiet /\ Moment' = Moment
    BY <1>1, <2>1 DEF Pictures, Outcomes, Moment
  <2>3. \A b : Loaded(b)' <=> Loaded(b)
    BY <1>1, <2>2 DEF Loaded
  <2>4. OneAtATime' /\ PictureIsPast'
    <3>1. \A b, c \in read.todo : b # c => b \in DOMAIN operations
      BY DEF ReadInv, OneAtATime
    <3>2. OneAtATime'
      BY <1>1, <2>2, <3>1 DEF OneAtATime, InRow, Stays
    <3>3. PictureIsPast
      BY DEF ReadInv
    <3>4. PictureIsPast'
      BY <1>1, <2>2, <3>3 DEF PictureIsPast, Stays
    <3> QED BY <3>2, <3>4
  <2>5. /\ SnapshotsHold' /\ SinceTheCall'
        /\ PictureIsCurrent => PictureIsCurrent'
    BY <1>1, <2>2, <2>3, MovingOnKeeps
  <2>7. QuietReadsSucceed' /\ Undisturbed'
    BY <2>2 DEF QuietReadsSucceed, Undisturbed, Reading
  <2>6. MomentKept'
    BY <1>1, <2>2, <2>3
    DEF ReadInv, MomentKept, AllOfTheMoment, OnlyOfTheMoment, ChecksFollow, Stays
  <2> QED BY <2>2, <2>4, <2>5, <2>6, <2>7 DEF ReadInv
<1>3. CASE a \in DOMAIN operations
  <2>1. PICK shown : shown = [b \in DOMAIN read.operations \cup {a} |->
                                IF b = a THEN operations[a] ELSE read.operations[b]]
    OBVIOUS
  <2>2. read' = [read EXCEPT !.operations = shown, !.stage = "rows"]
    BY <1>1, <1>3, <2>1 DEF ReadRow, Pictures
  <2>3. /\ DOMAIN shown = DOMAIN read.operations \cup {a} /\ shown[a] = operations[a]
        /\ \A b \in DOMAIN read.operations : shown[b] = read.operations[b]
        /\ shown \in Snapshots
    <3>1. /\ DOMAIN shown = DOMAIN read.operations \cup {a} /\ shown[a] = operations[a]
          /\ \A b \in DOMAIN read.operations : shown[b] = read.operations[b]
      BY <1>1, <2>1
    <3>2. shown \in [DOMAIN read.operations \cup {a} -> OperationRows]
      BY <1>1, <1>3, <2>1, Typed
    <3>3. DOMAIN read.operations \cup {a} \in SUBSET ActionIds
      BY <1>1, Typed
    <3> QED BY <3>1, <3>2, <3>3 DEF Snapshots
  <2> HIDE <2>1
  <2>4. /\ read' \in Pictures /\ read'.todo = read.todo /\ read'.unchecked = read.unchecked
        /\ read'.stage = "rows" /\ read'.start = read.start
        /\ read'.events = read.events /\ read'.operations = shown
        /\ read'.transitions = read.transitions /\ read'.managed = read.managed
        /\ read'.task = read.task /\ read'.quiet = read.quiet /\ Moment' = Moment
    BY <1>1, <2>2, <2>3 DEF Pictures, Reading, Moment
  <2>5. \A b : Loaded(b)' <=> Loaded(b)
    BY <1>1, <2>3, <2>4 DEF Loaded
  <2>6. \A b : Loaded(b) => b # a
    BY <1>1 DEF Loaded
  <2>7. OneAtATime'
    <3>1. \A b \in read.todo : b \in DOMAIN shown => b = a
      BY <1>1, <2>3
    <3>2. \A b : Foremost(b, read.todo)' <=> Foremost(b, read.todo)
      BY <1>1, <2>4 DEF Foremost, Stays
    <3>3. \A b : Foremost(b, read.todo) => b = a
      BY <1>1, ForemostIsOne
    <3> QED BY <1>1, <2>3, <2>4, <3>1, <3>2, <3>3 DEF ReadInv, OneAtATime, InRow, Stays
  <2>8. PictureIsPast'
    BY <1>1, <1>3, <2>3, <2>4 DEF ReadInv, PictureIsPast, Stays
  <2>9. SnapshotsHold' /\ SinceTheCall' /\ QuietReadsSucceed'
    BY <1>1, <2>3, <2>4, <2>5, <2>6
    DEF ReadInv, SnapshotsHold, SinceTheCall, QuietReadsSucceed, Stays, Loaded
  <2>10. MomentKept'
    <3> SUFFICES ASSUME read.task = "validate"
                 PROVE  AllOfTheMoment' /\ OnlyOfTheMoment' /\ ChecksFollow'
      BY <2>4 DEF MomentKept
    <3>1. AllOfTheMoment /\ OnlyOfTheMoment /\ ChecksFollow
      BY DEF ReadInv, MomentKept
    <3>2. AllOfTheMoment'
      BY <1>1, <2>3, <2>4, <2>5, <3>1 DEF AllOfTheMoment, Stays
    <3>3. OnlyOfTheMoment' /\ ChecksFollow'
      BY <1>1, <2>3, <2>4, <3>1 DEF OnlyOfTheMoment, ChecksFollow
    <3> QED BY <3>2, <3>3
  <2>11. Undisturbed'
    <3> SUFFICES ASSUME read.quiet PROVE PictureIsCurrent'
      BY <2>4 DEF Undisturbed
    <3>1. PictureIsCurrent
      BY <1>1 DEF ReadInv, Undisturbed, Reading
    <3>2. \A b : ReferencedEvents(b)' = ReferencedEvents(b)
      BY <1>1 DEF Stays, ReferencedEvents, AttemptsOf
    <3>3. read.task = "validate" => a \in read.unchecked
      BY <1>1 DEF ReadInv, MomentKept, ChecksFollow
    <3>4. read.task = "validate" =>
            DOMAIN shown \ read.unchecked = DOMAIN read.operations \ read.unchecked
      BY <2>3, <3>3
    <3>5. \A b \in DOMAIN shown : shown[b] = operations[b]
      BY <2>3, <3>1 DEF PictureIsCurrent
    <3>6. read.todo \cup DOMAIN shown = read.todo \cup DOMAIN read.operations
      BY <1>1, <2>3
    <3> QED BY <1>1, <2>4, <2>5, <3>1, <3>2, <3>4, <3>5, <3>6 DEF PictureIsCurrent, Stays
  <2> QED BY <2>4, <2>7, <2>8, <2>9, <2>10, <2>11 DEF ReadInv
<1> QED BY <1>2, <1>3

\* then its rows, judged against the row read before,
LEMMA ReadRowsKeeps ==
  ASSUME TypeOK, ContentsValid, ReadInv, NEW a \in ActionIds, ReadRows(a), UNCHANGED vars
  PROVE  ReadInv'
<1>1. /\ read.stage = "rows" /\ read \in Pictures /\ Stays
      /\ a \in read.todo /\ Foremost(a, read.todo) /\ a \in DOMAIN read.operations
      /\ \A b \in read.todo : b \in DOMAIN read.operations => b = a
  <2>1. /\ read.stage = "rows" /\ read \in Pictures /\ Stays
        /\ a \in read.todo /\ Foremost(a, read.todo)
    BY DEF ReadRows, Foremost, ReadInv, vars, Stays
  <2>2. a \in DOMAIN read.operations
    BY <2>1 DEF ReadInv, OneAtATime, InRow
  <2>3. ASSUME NEW b \in read.todo, b \in DOMAIN read.operations PROVE b = a
    BY <2>1, <2>3, ForemostIsOne DEF ReadInv, OneAtATime
  <2> QED BY <2>1, <2>2, <2>3
<1>0. PICK ok \in BOOLEAN : ok <=> /\ RowsReplay(transitions[a], read.operations[a].identity)
                                   /\ read.operations[a].state = Reached(transitions[a])
  OBVIOUS
<1>4. Judge(ok, [read EXCEPT !.transitions[a] = transitions[a], !.stage = "attempts"])
  BY <1>0 DEF ReadRows, Judge, Reached
<1>2. CASE ~ok
  <2>1. ~read.quiet
    <3> SUFFICES ASSUME read.quiet PROVE ok
      BY <1>2
    <3>1. read.operations[a] = operations[a] /\ a \in DOMAIN operations
      BY <1>1 DEF ReadInv, Undisturbed, PictureIsCurrent, PictureIsPast, Reading
    <3>2. Replays(a)
      BY <3>1 DEF ContentsValid, OperationValid, Loads
    <3> QED BY <1>0, <3>1, <3>2 DEF Replays, ReplayedState, Reached
  <2>2. \E next : Judge(FALSE, next)
    BY <1>2, <1>4 DEF Judge
  <2> QED BY <2>1, <2>2, AlarmKeeps
<1>3. CASE ok
  <2>1. read' = [read EXCEPT !.transitions[a] = transitions[a], !.stage = "attempts"]
    BY <1>3, <1>4 DEF Judge
  <2>2. transitions[a] \in Seq(TransitionRows)
    BY DEF TypeOK
  <2>3. /\ read' \in Pictures /\ read'.todo = read.todo /\ read'.unchecked = read.unchecked
        /\ read'.stage = "attempts" /\ read'.start = read.start
        /\ read'.events = read.events /\ read'.operations = read.operations
        /\ read'.managed = read.managed
        /\ read'.task = read.task /\ read'.quiet = read.quiet /\ Moment' = Moment
    BY <1>1, <2>1, <2>2 DEF Pictures, Reading, Moment
  <2>4. /\ read'.transitions[a] = transitions[a]
        /\ \A b \in ActionIds : b # a => read'.transitions[b] = read.transitions[b]
    BY <1>1, <2>1 DEF Pictures
  <2> HIDE <2>1
  <2>5. \A b : Loaded(b)' <=> Loaded(b) \/ b = a
    BY <1>1, <2>3 DEF Loaded
  <2>6. OneAtATime'
    BY <1>1, <2>3 DEF ReadInv, OneAtATime, InRow, Foremost, Stays
  <2>7. PictureIsPast'
    <3>1. IsPrefix(transitions[a], transitions[a])
      BY <2>2, PrefixOfItself
    <3> QED BY <1>1, <2>3, <2>4, <3>1 DEF ReadInv, PictureIsPast, Stays
  <2>8. SnapshotsHold'
    <3>1. read.operations[a].state = Reached(transitions[a])
      BY <1>0, <1>3
    <3>2. \A b \in ActionIds :
            Loaded(b)' => read'.operations[b].state = Reached(read'.transitions[b])
      BY <2>3, <2>4, <2>5, <3>1 DEF ReadInv, SnapshotsHold
    <3>3. \A b \in DOMAIN read.operations : b \notin read.todo => b \in ActionIds /\ b # a
      BY <1>1, Typed
    <3> QED BY <1>1, <2>3, <2>4, <3>2, <3>3 DEF ReadInv, SnapshotsHold, Stays
  <2>9. SinceTheCall'
    BY <1>1, <2>3, <2>4, <2>5 DEF ReadInv, SinceTheCall, Stays
  <2>10. MomentKept'
    <3> SUFFICES ASSUME read.task = "validate"
                 PROVE  AllOfTheMoment' /\ OnlyOfTheMoment' /\ ChecksFollow'
      BY <2>3 DEF MomentKept
    <3>1. AllOfTheMoment /\ OnlyOfTheMoment /\ ChecksFollow
      BY DEF ReadInv, MomentKept
    <3>2. \A n \in DOMAIN transitions[a] : ~(n > Len(transitions[a]))
      BY <1>1, Typed
    <3>3. AllOfTheMoment'
      BY <1>1, <2>3, <2>4, <2>5, <3>1, <3>2 DEF AllOfTheMoment, Stays
    <3>4. \A b \in DOMAIN read.operations : b \in read.unchecked
      BY <1>1, <3>1 DEF ChecksFollow
    <3>5. OnlyOfTheMoment' /\ ChecksFollow'
      BY <1>1, <2>3, <3>1, <3>4 DEF OnlyOfTheMoment, ChecksFollow
    <3> QED BY <3>3, <3>5
  <2>11. Undisturbed'
    <3> SUFFICES ASSUME read.quiet PROVE PictureIsCurrent'
      BY <2>3 DEF Undisturbed
    <3>1. PictureIsCurrent
      BY <1>1 DEF ReadInv, Undisturbed, Reading
    <3>2. \A b : ReferencedEvents(b)' = ReferencedEvents(b)
      BY <1>1 DEF Stays, ReferencedEvents, AttemptsOf
    <3> QED BY <1>1, <2>3, <2>4, <2>5, <3>1, <3>2 DEF PictureIsCurrent, Stays
  <2>12. QuietReadsSucceed'
    BY <2>3 DEF QuietReadsSucceed
  <2> QED BY <2>3, <2>6, <2>7, <2>8, <2>9, <2>10, <2>11, <2>12 DEF ReadInv
<1> QED BY <1>2, <1>3

\* then its attempts, which are only compared,
LEMMA ReadAttemptsKeeps ==
  ASSUME TypeOK, ContentsValid, ReadInv, NEW a \in ActionIds, ReadAttempts(a), UNCHANGED vars
  PROVE  ReadInv'
<1>1. /\ read.stage = "attempts" /\ read \in Pictures /\ Stays
      /\ a \in read.todo /\ a \in DOMAIN read.operations
  BY DEF ReadAttempts, Foremost, ReadInv, OneAtATime, InRow, vars, Stays
<1>2. CASE ~View!AttemptsAgree(a)
  <2>1. ~read.quiet
    <3> SUFFICES ASSUME read.quiet PROVE View!AttemptsAgree(a)
      BY <1>2
    <3>1. read.transitions[a] = transitions[a] /\ a \in DOMAIN operations
      BY <1>1 DEF ReadInv, Undisturbed, PictureIsCurrent, PictureIsPast, Reading, Loaded
    <3>2. AttemptsAgree(a)
      BY <3>1 DEF ContentsValid, OperationValid, Loads
    <3> QED BY <3>1, <3>2, ViewAttempts
  <2>2. \E next : Judge(FALSE, next)
    BY <1>2 DEF ReadAttempts, Judge
  <2> QED BY <2>1, <2>2, AlarmKeeps
<1>3. CASE View!AttemptsAgree(a)
  <2>1. read' = [read EXCEPT !.stage = "row again"]
    BY <1>3 DEF ReadAttempts, Judge
  <2>2. /\ read' \in Pictures /\ read'.todo = read.todo /\ read'.unchecked = read.unchecked
        /\ read'.stage = "row again" /\ read'.start = read.start
        /\ read'.events = read.events /\ read'.operations = read.operations
        /\ read'.transitions = read.transitions /\ read'.managed = read.managed
        /\ read'.task = read.task /\ read'.quiet = read.quiet /\ Moment' = Moment
    BY <1>1, <2>1 DEF Pictures, Reading, Moment
  <2>3. \A b : Loaded(b)' <=> Loaded(b)
    BY <1>1, <2>2 DEF Loaded
  <2>4. OneAtATime' /\ PictureIsPast'
    BY <1>1, <2>2 DEF ReadInv, OneAtATime, PictureIsPast, InRow, Foremost, Stays
  <2>5. /\ SnapshotsHold' /\ SinceTheCall'
        /\ PictureIsCurrent => PictureIsCurrent'
    BY <1>1, <2>2, <2>3, MovingOnKeeps
  <2>6. MomentKept'
    BY <1>1, <2>2, <2>3
    DEF ReadInv, MomentKept, AllOfTheMoment, OnlyOfTheMoment, ChecksFollow, Stays
  <2>7. Undisturbed'
    <3> SUFFICES ASSUME read.quiet PROVE PictureIsCurrent'
      BY <2>2 DEF Undisturbed
    <3>1. PictureIsCurrent
      BY <1>1 DEF ReadInv, Undisturbed, Reading
    <3> QED BY <2>5, <3>1
  <2>8. QuietReadsSucceed'
    BY <2>2 DEF QuietReadsSucceed
  <2> QED BY <2>2, <2>4, <2>5, <2>6, <2>7, <2>8 DEF ReadInv
<1> QED BY <1>2, <1>3

\* and last the row again, for its two event numbers.
LEMMA ReadRowAgainKeeps ==
  ASSUME TypeOK, ContentsValid, ReadInv, NEW a \in ActionIds, ReadRowAgain(a), UNCHANGED vars
  PROVE  ReadInv'
<1>1. /\ read.stage = "row again" /\ read \in Pictures /\ Stays
      /\ a \in read.todo /\ Foremost(a, read.todo) /\ a \in DOMAIN read.operations
      /\ \A b \in read.todo : b \in DOMAIN read.operations => b = a
      /\ a \in DOMAIN operations /\ Loaded(a)
  <2>1. /\ read.stage = "row again" /\ read \in Pictures /\ Stays
        /\ a \in read.todo /\ Foremost(a, read.todo)
    BY DEF ReadRowAgain, Foremost, ReadInv, vars, Stays
  <2>2. a \in DOMAIN read.operations
    BY <2>1 DEF ReadInv, OneAtATime, InRow
  <2>3. ASSUME NEW b \in read.todo, b \in DOMAIN read.operations PROVE b = a
    BY <2>1, <2>3, ForemostIsOne DEF ReadInv, OneAtATime
  <2> QED BY <2>1, <2>2, <2>3 DEF ReadInv, PictureIsPast, Loaded
<1>2. PICK next : next = IF read.todo # {a} THEN "row"
                         ELSE IF read.task = "validate" THEN "check" ELSE "returned"
  OBVIOUS
<1>3. PICK row : row = RowAgain(read.operations[a], operations[a])
  OBVIOUS
<1>4. PICK shown : shown = [read.operations EXCEPT ![a] = row]
  OBVIOUS
<1>5. read' = [read EXCEPT !.operations = shown, !.todo = @ \ {a}, !.stage = next]
  BY <1>1, <1>2, <1>3, <1>4 DEF ReadRowAgain, Pictures
<1>6. /\ row \in OperationRows /\ row.identity = read.operations[a].identity
      /\ row.state = read.operations[a].state
      /\ row.created = operations[a].created /\ row.updated = operations[a].updated
  <2>1. read.operations[a] \in OperationRows /\ operations[a] \in OperationRows
    BY <1>1, Typed
  <2> QED BY <1>3, <2>1 DEF RowAgain, OperationRows
<1>7. /\ DOMAIN shown = DOMAIN read.operations /\ shown[a] = row
      /\ \A b \in DOMAIN read.operations : b # a => shown[b] = read.operations[b]
      /\ shown \in Snapshots
  <2>1. /\ DOMAIN shown = DOMAIN read.operations /\ shown[a] = row
        /\ \A b \in DOMAIN read.operations : b # a => shown[b] = read.operations[b]
    BY <1>1, <1>4
  <2>2. shown \in [DOMAIN read.operations -> OperationRows]
    BY <1>1, <1>4, <1>6, Typed
  <2> QED BY <1>1, <2>1, <2>2, Typed DEF Snapshots
<1>8. next \in {"row", "check", "returned"}
  BY <1>2
<1>9. /\ read' \in Pictures /\ read'.todo = read.todo \ {a} /\ read'.unchecked = read.unchecked
      /\ read'.stage = next /\ read'.start = read.start
      /\ read'.events = read.events /\ read'.operations = shown
      /\ read'.transitions = read.transitions /\ read'.managed = read.managed
      /\ read'.task = read.task /\ read'.quiet = read.quiet /\ Moment' = Moment
  <2>1. /\ read'.todo = read.todo \ {a} /\ read'.unchecked = read.unchecked
        /\ read'.stage = next /\ read'.start = read.start
        /\ read'.events = read.events /\ read'.operations = shown
        /\ read'.transitions = read.transitions /\ read'.managed = read.managed
        /\ read'.task = read.task /\ read'.quiet = read.quiet
    BY <1>1, <1>5 DEF Pictures
  <2>2. read' \in Pictures
    BY <1>1, <1>5, <1>7, <1>8 DEF Pictures, Reading, Outcomes
  <2> QED BY <2>1, <2>2 DEF Moment
<1> HIDE <1>3, <1>4, <1>5
<1>10. ASSUME NEW b PROVE Loaded(b)' <=> Loaded(b)
  BY <1>1, <1>7, <1>8, <1>9 DEF Loaded
<1>11. OneAtATime'
  <2>1. \A b \in read.todo \ {a} : b \notin DOMAIN shown
    BY <1>1, <1>7
  <2>2. next \in {"check", "returned"} => read.todo \ {a} = {}
    BY <1>2
  <2>3. next = "check" => read.task = "validate"
    BY <1>2
  <2> QED BY <1>1, <1>8, <1>9, <2>1, <2>2, <2>3 DEF ReadInv, OneAtATime, InRow, Stays
<1>12. PictureIsPast'
  <2>1. PictureIsPast
    BY DEF ReadInv
  <2>2. \A b \in DOMAIN shown :
          shown[b].identity = read.operations[b].identity /\ b \in DOMAIN read.operations
    BY <1>6, <1>7
  <2>3. \A b \in DOMAIN shown : shown[b].created = operations[b].created
    BY <1>6, <1>7, <2>1 DEF PictureIsPast
  <2> QED BY <1>1, <1>9, <2>1, <2>2, <2>3 DEF PictureIsPast, Stays
<1>13. SnapshotsHold'
  <2>1. \A b \in ActionIds : Loaded(b)' => read'.operations[b].state = Reached(read'.transitions[b])
    <3> SUFFICES ASSUME NEW b \in ActionIds, Loaded(b)
                 PROVE  shown[b].state = Reached(read.transitions[b])
      BY <1>9, <1>10
    <3>1. read.operations[b].state = Reached(read.transitions[b]) /\ b \in DOMAIN read.operations
      BY DEF ReadInv, SnapshotsHold, Loaded
    <3> QED BY <1>6, <1>7, <3>1
  <2>2. \/ read.transitions[a] = <<>> /\ row.updated = operations[a].created
        \/ \E n \in DOMAIN transitions[a] :
             n >= Len(read.transitions[a]) /\ row.updated = transitions[a][n].seq
    <3>1. row.updated = IF transitions[a] = <<>> THEN operations[a].created
                        ELSE transitions[a][Len(transitions[a])].seq
      BY <1>1, <1>6 DEF ContentsValid, OperationValid, OperationEventsAgree
    <3>2. /\ Len(read.transitions[a]) <= Len(transitions[a])
          /\ transitions[a] \in Seq(TransitionRows) /\ read.transitions[a] \in Seq(TransitionRows)
      BY <1>1, Typed, PrefixMeans DEF ReadInv, PictureIsPast
    <3>3. CASE transitions[a] = <<>>
      <4>1. read.transitions[a] = <<>>
        BY <3>2, <3>3
      <4> QED BY <3>1, <3>3, <4>1
    <3>4. CASE transitions[a] # <<>>
      <4>1. Len(transitions[a]) \in DOMAIN transitions[a]
        BY <3>2, <3>4
      <4> QED BY <3>1, <3>2, <3>4, <4>1
    <3> QED BY <3>3, <3>4
  <2>3. ASSUME NEW b \in DOMAIN shown, b \notin read.todo \ {a}
        PROVE  \/ read.transitions[b] = <<>> /\ shown[b].updated = operations[b].created
               \/ \E n \in DOMAIN transitions[b] :
                    n >= Len(read.transitions[b]) /\ shown[b].updated = transitions[b][n].seq
    <3>1. CASE b = a
      BY <1>7, <2>2, <3>1
    <3>2. CASE b # a
      <4>1. b \in DOMAIN read.operations /\ b \notin read.todo /\ shown[b] = read.operations[b]
        BY <1>7, <2>3, <3>2
      <4> QED BY <4>1 DEF ReadInv, SnapshotsHold
    <3> QED BY <3>1, <3>2
  <2> QED BY <1>1, <1>9, <2>1, <2>3 DEF SnapshotsHold, Stays
<1>14. SinceTheCall'
  BY <1>1, <1>9, <1>10 DEF ReadInv, SinceTheCall, Stays
<1>15. MomentKept'
  <2> SUFFICES ASSUME read.task = "validate"
               PROVE  AllOfTheMoment' /\ OnlyOfTheMoment' /\ ChecksFollow'
    BY <1>9 DEF MomentKept
  <2>1. AllOfTheMoment /\ OnlyOfTheMoment /\ ChecksFollow
    BY DEF ReadInv, MomentKept
  <2>2. AllOfTheMoment'
    BY <1>1, <1>7, <1>8, <1>9, <1>10, <2>1 DEF AllOfTheMoment, Stays
  <2>3. \A b \in DOMAIN read.operations : b \in read.unchecked
    BY <1>1, <2>1 DEF ChecksFollow
  <2>4. next # "returned"
    BY <1>2
  <2>5. OnlyOfTheMoment' /\ ChecksFollow'
    BY <1>1, <1>7, <1>8, <1>9, <2>1, <2>3, <2>4 DEF OnlyOfTheMoment, ChecksFollow
  <2> QED BY <2>2, <2>5
<1>16. Undisturbed'
  <2> SUFFICES ASSUME read.quiet PROVE PictureIsCurrent'
    BY <1>9 DEF Undisturbed
  <2>1. PictureIsCurrent
    BY <1>1 DEF ReadInv, Undisturbed, Reading
  <2>2. \A b : ReferencedEvents(b)' = ReferencedEvents(b)
    BY <1>1 DEF Stays, ReferencedEvents, AttemptsOf
  <2>3. row = operations[a]
    <3>1. operations[a] = read.operations[a] /\ operations[a] \in OperationRows
      BY <1>1, <2>1, Typed DEF PictureIsCurrent
    <3> QED BY <1>6, <3>1 DEF OperationRows
  <2>4. \A b \in DOMAIN shown : shown[b] = operations[b]
    BY <1>7, <2>1, <2>3 DEF PictureIsCurrent
  <2>5. (read.todo \ {a}) \cup DOMAIN shown = read.todo \cup DOMAIN read.operations
    BY <1>1, <1>7
  <2>6. read.stage # "list"
    BY <1>1
  <2>7. \A b \in ActionIds : Loaded(b)' => read'.transitions[b] = transitions'[b]
    BY <1>1, <1>9, <1>10, <2>1 DEF PictureIsCurrent, Stays
  <2>8. ASSUME read.task = "validate"
        PROVE  /\ read'.events = events' /\ read'.todo \cup DOMAIN shown = DOMAIN operations'
               /\ read'.managed =
                    UNION {ReferencedEvents(b)' : b \in DOMAIN shown \ read'.unchecked}
    <3>1. read'.events = events'
      BY <1>1, <1>9, <2>1, <2>8 DEF PictureIsCurrent, Stays
    <3>2. read'.todo \cup DOMAIN shown = DOMAIN operations'
      BY <1>1, <1>9, <2>1, <2>5, <2>6, <2>8 DEF PictureIsCurrent, Stays
    <3>3. read.managed = UNION {ReferencedEvents(b) : b \in DOMAIN shown \ read.unchecked}
      BY <1>7, <2>1, <2>8 DEF PictureIsCurrent
    <3>4. read'.managed = UNION {ReferencedEvents(b)' : b \in DOMAIN shown \ read'.unchecked}
      BY <1>9, <2>2, <3>3
    <3> QED BY <3>1, <3>2, <3>4
  <2> QED BY <1>1, <1>9, <2>4, <2>7, <2>8 DEF PictureIsCurrent, Stays
<1>17. QuietReadsSucceed'
  BY <1>8, <1>9 DEF QuietReadsSucceed
<1> QED BY <1>9, <1>11, <1>12, <1>13, <1>14, <1>15, <1>16, <1>17 DEF ReadInv

\* validate() checks one snapshot against the events it read.
LEMMA CheckSnapshotKeeps ==
  ASSUME TypeOK, ContentsValid, ReadInv, NEW a \in ActionIds, CheckSnapshot(a), UNCHANGED vars
  PROVE  ReadInv'
<1>1. PICK accounted : accounted = read.managed \cup View!ReferencedEvents(a)
  OBVIOUS
<1>2. PICK ok \in BOOLEAN : ok <=> /\ View!OperationEventsAgree(a)
                                   /\ read.unchecked = {a} => ManagedAgree(accounted)
  OBVIOUS
<1>3. PICK next : next = IF read.unchecked = {a} THEN "returned" ELSE "check"
  OBVIOUS
<1>4. Judge(ok, [read EXCEPT !.managed = accounted, !.unchecked = @ \ {a}, !.stage = next])
  BY <1>1, <1>2, <1>3 DEF CheckSnapshot, Judge
<1>5. /\ read.stage = "check" /\ read.task = "validate" /\ read \in Pictures /\ Stays
      /\ read.todo = {} /\ a \in read.unchecked
      /\ a \in DOMAIN read.operations /\ read.unchecked \subseteq DOMAIN read.operations
      /\ Loaded(a) /\ a \in DOMAIN operations
      /\ AllOfTheMoment /\ OnlyOfTheMoment /\ ChecksFollow
  <2>1. /\ read.stage = "check" /\ read.task = "validate" /\ read \in Pictures /\ Stays
        /\ read.todo = {} /\ a \in read.unchecked
    BY DEF CheckSnapshot, Foremost, ReadInv, OneAtATime, vars, Stays
  <2>2. AllOfTheMoment /\ OnlyOfTheMoment /\ ChecksFollow
    BY <2>1 DEF ReadInv, MomentKept
  <2>3. a \in DOMAIN read.operations /\ read.unchecked \subseteq DOMAIN read.operations
    BY <2>1, <2>2 DEF ChecksFollow
  <2> QED BY <2>1, <2>2, <2>3 DEF ReadInv, PictureIsPast, Loaded
<1>6. ASSUME read.quiet
      PROVE  /\ PictureIsCurrent /\ View!OperationEventsAgree(a)
             /\ accounted =
                  UNION {ReferencedEvents(b) :
                           b \in DOMAIN read.operations \ (read.unchecked \ {a})}
  <2>1. PictureIsCurrent
    BY <1>5, <1>6 DEF ReadInv, Undisturbed, Reading
  <2>2. /\ read.events = events /\ read.operations[a] = operations[a]
        /\ read.transitions[a] = transitions[a]
    BY <1>5, <2>1 DEF PictureIsCurrent
  <2>3. OperationEventsAgree(a)
    BY <1>5 DEF ContentsValid, OperationValid
  <2>4. View!OperationEventsAgree(a) /\ View!ReferencedEvents(a) = ReferencedEvents(a)
    BY <2>2, <2>3, ViewEvents
  <2>5. read.managed = UNION {ReferencedEvents(b) : b \in DOMAIN read.operations \ read.unchecked}
    BY <1>5, <2>1 DEF PictureIsCurrent
  <2>6. DOMAIN read.operations \ (read.unchecked \ {a}) =
          (DOMAIN read.operations \ read.unchecked) \cup {a}
    BY <1>5
  <2> QED BY <1>1, <2>1, <2>4, <2>5, <2>6
<1>7. CASE ~ok
  <2>1. ~read.quiet
    <3> SUFFICES ASSUME read.quiet, read.unchecked = {a} PROVE ManagedAgree(accounted)
      BY <1>2, <1>6, <1>7
    <3>1. DOMAIN read.operations \ (read.unchecked \ {a}) = DOMAIN operations
      BY <1>5, <1>6 DEF PictureIsCurrent
    <3>2. accounted = UNION {ReferencedEvents(b) : b \in DOMAIN operations}
      BY <1>6, <3>1
    <3>3. read.events = events
      BY <1>5, <1>6 DEF PictureIsCurrent
    <3> QED BY <3>2, <3>3 DEF ManagedAgree, ContentsValid
  <2>2. \E n : Judge(FALSE, n)
    BY <1>4, <1>7 DEF Judge
  <2> QED BY <2>1, <2>2, AlarmKeeps
<1>8. CASE ok
  <2>1. read' = [read EXCEPT !.managed = accounted, !.unchecked = @ \ {a}, !.stage = next]
    BY <1>4, <1>8 DEF Judge
  <2>2. accounted \in SUBSET Int
    <3>1. View!ReferencedEvents(a) \in SUBSET Int
      <4>1. read.operations[a].created \in Nat
        BY <1>5, Typed DEF OperationRows
      <4>2. \A r \in View!AttemptsOf(a) : r.dispatch \in Nat /\ r.transition \in Nat
        BY DEF TypeOK, AttemptRows, View!AttemptsOf
      <4>3. \A n \in DOMAIN read.transitions[a] : read.transitions[a][n].seq \in Nat
        <5>1. \A n \in DOMAIN read.transitions[a] : read.transitions[a][n] \in TransitionRows
          BY <1>5, Typed
        <5> QED BY <5>1 DEF TransitionRows
      <4> QED BY <4>1, <4>2, <4>3 DEF View!ReferencedEvents
    <3> QED BY <1>1, <1>5, <3>1 DEF Pictures
  <2>3. next \in {"check", "returned"}
    BY <1>3
  <2>4. /\ read' \in Pictures /\ read'.todo = read.todo /\ read'.unchecked = read.unchecked \ {a}
        /\ read'.stage = next /\ read'.start = read.start
        /\ read'.events = read.events /\ read'.operations = read.operations
        /\ read'.transitions = read.transitions /\ read'.managed = accounted
        /\ read'.task = read.task /\ read'.quiet = read.quiet /\ Moment' = Moment
    BY <1>5, <2>1, <2>2, <2>3 DEF Pictures, Reading, Outcomes, Moment
  <2> HIDE <2>1
  <2>5. \A b : Loaded(b)' <=> Loaded(b)
    BY <1>5, <2>4 DEF Loaded
  <2>6. OneAtATime' /\ PictureIsPast'
    BY <1>5, <2>3, <2>4 DEF ReadInv, OneAtATime, PictureIsPast, InRow, Stays
  <2>7. SnapshotsHold' /\ SinceTheCall'
    BY <1>5, <2>4, <2>5 DEF ReadInv, SnapshotsHold, SinceTheCall, Stays
  <2>8. MomentKept'
    <3>1. /\ read.operations[a].created \in DOMAIN read.events
          /\ \A n \in DOMAIN read.transitions[a] : read.transitions[a][n].seq \in DOMAIN read.events
      BY <1>2, <1>8, ViewBounds
    <3>2. DOMAIN read.events = 1..Moment /\ Moment \in Nat
      BY <1>5, Typed DEF Moment
    <3>3. /\ read.operations[a].created <= Moment
          /\ \A n \in DOMAIN read.transitions[a] : read.transitions[a][n].seq <= Moment
      BY <3>1, <3>2
    <3>4. OnlyOfTheMoment'
      BY <1>5, <2>4, <3>3 DEF OnlyOfTheMoment
    <3>5. AllOfTheMoment'
      BY <1>5, <2>3, <2>4, <2>5 DEF AllOfTheMoment, Stays
    <3>6. ChecksFollow'
      BY <1>3, <1>5, <2>3, <2>4 DEF ChecksFollow
    <3> QED BY <3>4, <3>5, <3>6 DEF MomentKept
  <2>9. Undisturbed'
    <3> SUFFICES ASSUME read.quiet PROVE PictureIsCurrent'
      BY <2>4 DEF Undisturbed
    <3>1. \A b : ReferencedEvents(b)' = ReferencedEvents(b)
      BY <1>5 DEF Stays, ReferencedEvents, AttemptsOf
    <3> QED BY <1>5, <1>6, <2>4, <2>5, <3>1 DEF PictureIsCurrent, Stays
  <2>10. QuietReadsSucceed'
    BY <2>3, <2>4 DEF QuietReadsSucceed
  <2> QED BY <2>4, <2>6, <2>7, <2>8, <2>9, <2>10 DEF ReadInv
<1> QED BY <1>7, <1>8

-----------------------------------------------------------------------------
\* A step of a reader is none of the ledger's, and a writer or an author takes one.
LEMMA ReadersStep ==
  ASSUME read \in Pictures, ReadersNext
  PROVE  \/ Beside /\ Next
         \/ ReadStep /\ UNCHANGED vars
         \/ \E h \in Handles, tick \in Ticks : SubmitEvent(h, tick)
BY WriteIsBeside DEF ReadersNext, ReadStep

\* Every statement of a reading preserves the invariant.
LEMMA ReadingKeeps ==
  ASSUME TypeOK, ContentsValid, ReadInv, ReadStep, UNCHANGED vars
  PROVE  ReadInv'
BY BeginValidateKeeps, ReadListKeeps, ReadNumberKeeps, RestKeeps, BeginOperationKeeps, ReadRowKeeps, ReadRowsKeeps,
   ReadAttemptsKeeps, ReadRowAgainKeeps, CheckSnapshotKeeps DEF ReadStep

\* Readers beside writers are a ledger: a reader changes nothing in it.
THEOREM ReadersAreHarmless == ReadersSpec => Spec
<1>1. ReadInit => Init
  BY DEF ReadInit
<1>2. [ReadersNext]_all_vars => [Next]_vars
  BY SubmitEventSteps DEF ReadersNext, ReadStep, WriteStep, all_vars, vars
<1> QED BY <1>1, <1>2, PTL DEF ReadersSpec, Spec

\* What holds of a reading at any time, whatever is written beside it.
LEMMA ReadingInvariant == ReadersSpec => []ReadInv
<1>1. ReadInit => ReadInv
  <2> SUFFICES ASSUME ReadInit PROVE ReadInv
    OBVIOUS
  <2>1. read = Resting /\ events = <<>> /\ \A a \in ActionIds : transitions[a] = <<>>
    BY DEF ReadInit, Init
  <2>2. /\ read \in Pictures /\ DOMAIN read.operations = {}
        /\ \A a \in ActionIds : read.transitions[a] = <<>>
        /\ read.events = <<>> /\ read.todo = {} /\ read.task = "none" /\ read.stage = "resting"
    BY <2>1, NoRowsShape DEF Resting, Pictures
  <2>3. OneAtATime /\ SinceTheCall /\ MomentKept /\ Undisturbed /\ QuietReadsSucceed
    BY <2>2 DEF OneAtATime, SinceTheCall, MomentKept, Undisturbed, QuietReadsSucceed, InRow, Reading
  <2>4. PictureIsPast
    <3>1. <<>> \in Seq(EventRows) /\ <<>> \in Seq(TransitionRows)
      OBVIOUS
    <3> QED BY <2>1, <2>2, <3>1, EmptyIsPrefix DEF PictureIsPast
  <2>5. SnapshotsHold
    BY <2>2 DEF SnapshotsHold, Loaded
  <2> QED BY <2>2, <2>3, <2>4, <2>5 DEF ReadInv
<1>2. TypeOK /\ TypeOK' /\ ContentsValid /\ ReadInv /\ [ReadersNext]_all_vars => ReadInv'
  <2> SUFFICES ASSUME TypeOK, TypeOK', ContentsValid, ReadInv, [ReadersNext]_all_vars
               PROVE  ReadInv'
    OBVIOUS
  <2>1. read \in Pictures
    BY DEF ReadInv
  <2>2. CASE UNCHANGED all_vars
    <3>1. Beside /\ UNCHANGED vars
      BY <2>1, <2>2 DEF all_vars, Beside, vars, tables
    <3> QED BY <3>1, BesideKeeps
  <2>3. CASE ReadersNext
    BY <2>1, <2>3, ReadersStep, BesideKeeps, ReadingKeeps, SubmitEventKeeps
  <2> QED BY <2>2, <2>3
<1> QED BY <1>1, <1>2, ReadersAreHarmless, TypeCorrect, AlwaysReopensCorrect, PTL
    DEF ReadersSpec, AlwaysReopens

\* A reading never calls a ledger corrupt that nobody wrote to meanwhile, whatever the
\* writers did before it.
THEOREM QuietReadsCorrect == ReadersSpec => []QuietReadsSucceed
<1>1. ReadInv => QuietReadsSucceed
  BY DEF ReadInv
<1> QED BY <1>1, ReadingInvariant, PTL

\* The snapshot operation() returns was true at one moment of the reading, although its
\* statements ran at several.
THEOREM SnapshotsCorrect == ReadersSpec => []SnapshotsWereTrue
<1>1. TypeOK /\ ReadInv => SnapshotsWereTrue
  <2> SUFFICES ASSUME TypeOK, ReadInv, read.stage = "returned", read.task = "operation",
                      NEW a \in DOMAIN read.operations, NEW seen, seen = read.transitions[a]
               PROVE  /\ IsPrefix(seen, transitions[a])
                      /\ Len(seen) >= read.start
                      /\ read.operations[a].identity = operations[a].identity
                      /\ read.operations[a].state = View!ReplayedState(a)
                      /\ read.operations[a].created = operations[a].created
                      /\ \/ seen = <<>> /\ read.operations[a].updated = operations[a].created
                         \/ \E n \in DOMAIN transitions[a] :
                              n >= Len(seen) /\ read.operations[a].updated = transitions[a][n].seq
    BY DEF SnapshotsWereTrue
  <2>1. a \in ActionIds /\ read.todo = {} /\ Loaded(a)
    BY Typed DEF ReadInv, OneAtATime, Loaded
  <2> QED BY <2>1, ViewReplays DEF ReadInv, PictureIsPast, SinceTheCall, SnapshotsHold
<1> QED BY <1>1, ReadingInvariant, ReadersAreHarmless, TypeCorrect, PTL

\* A validate() that passes has seen the ledger as it was when it read the events: all the
\* actions and rows of that moment, and none written later.
THEOREM OneMomentCorrect == ReadersSpec => []ValidationSeesOneMoment
<1>1. TypeOK /\ ReadInv => ValidationSeesOneMoment
  <2> SUFFICES ASSUME TypeOK, ReadInv, read.stage = "returned", read.task = "validate"
               PROVE  /\ IsPrefix(read.events, events)
                      /\ DOMAIN read.operations =
                           {a \in DOMAIN operations : operations[a].created <= Moment}
                      /\ \A a \in DOMAIN read.operations :
                           /\ IsPrefix(read.transitions[a], transitions[a])
                           /\ \A n \in DOMAIN transitions[a] :
                                n <= Len(read.transitions[a]) <=> transitions[a][n].seq <= Moment
    BY DEF ValidationSeesOneMoment, Moment
  <2>1. read.todo = {} /\ read.unchecked = {} /\ AllOfTheMoment /\ OnlyOfTheMoment
    BY DEF ReadInv, OneAtATime, MomentKept, ChecksFollow
  <2>2. DOMAIN read.operations = {a \in DOMAIN operations : operations[a].created <= Moment}
    BY <2>1 DEF AllOfTheMoment, OnlyOfTheMoment, ReadInv, PictureIsPast
  <2>3. ASSUME NEW a \in DOMAIN read.operations, NEW n \in DOMAIN transitions[a]
        PROVE  n <= Len(read.transitions[a]) <=> transitions[a][n].seq <= Moment
    <3>1. /\ a \in ActionIds /\ Loaded(a)
          /\ transitions[a] \in Seq(TransitionRows) /\ read.transitions[a] \in Seq(TransitionRows)
          /\ Len(transitions[a]) \in Nat /\ Len(read.transitions[a]) \in Nat /\ Moment \in Nat
          /\ DOMAIN transitions[a] = 1..Len(transitions[a])
          /\ DOMAIN read.transitions[a] = 1..Len(read.transitions[a])
      BY <2>1, Typed DEF ReadInv, Loaded
    <3>2. transitions[a][n] \in TransitionRows
      BY <3>1
    <3>3. transitions[a][n].seq \in Nat
      BY <3>2 DEF TransitionRows
    <3>4. CASE n <= Len(read.transitions[a])
      <4>1. n \in DOMAIN read.transitions[a] /\ read.transitions[a][n] = transitions[a][n]
        BY <3>1, <3>4, PrefixMeans DEF ReadInv, PictureIsPast
      <4> QED BY <2>1, <3>4, <4>1 DEF OnlyOfTheMoment
    <3>5. CASE n > Len(read.transitions[a])
      BY <2>1, <3>1, <3>3, <3>5 DEF AllOfTheMoment
    <3> QED BY <3>1, <3>4, <3>5
  <2>4. \A a \in DOMAIN read.operations : a \in ActionIds
    BY Typed DEF ReadInv
  <2> QED BY <2>2, <2>3, <2>4 DEF ReadInv, PictureIsPast
<1> QED BY <1>1, ReadingInvariant, ReadersAreHarmless, TypeCorrect, PTL

\* An event whose number was read by an earlier call is appended to the log as it was then,
\* row by row: an equal number means that nobody wrote in between.
THEOREM AppendsCorrect == ReadersSpec => AppendsFollowTheirReading
<1>1. TypeOK /\ ReadInv /\ [ReadersNext]_all_vars =>
        [ read.stage = "numbered" /\ read'.stage = "appended" =>
            /\ Len(events') = Len(read.events) + 1
            /\ SubSeq(events', 1, Len(read.events)) = read.events ]_all_vars
  <2> SUFFICES ASSUME TypeOK, ReadInv, ReadersNext,
                      read.stage = "numbered", read'.stage = "appended"
               PROVE  /\ Len(events') = Len(read.events) + 1
                      /\ SubSeq(events', 1, Len(read.events)) = read.events
    BY DEF all_vars
  <2>1. read \in Pictures
    BY DEF ReadInv
  <2>2. ~ReadStep
    <3>1. read # Resting /\ read.stage \notin Reading \cup Outcomes
      BY DEF Resting, Reading, Outcomes
    <3>2. ~BeginValidate /\ ~ReadNumber /\ ~ReadList /\ ~Rest
      BY <3>1 DEF BeginValidate, ReadNumber, ReadList, Rest, Reading
    <3>3. ASSUME NEW a PROVE ~BeginOperation(a) /\ ~ReadRow(a) /\ ~ReadRows(a)
      BY <3>1 DEF BeginOperation, ReadRow, ReadRows, Reading
    <3>4. ASSUME NEW a PROVE ~ReadAttempts(a) /\ ~ReadRowAgain(a) /\ ~CheckSnapshot(a)
      BY <3>1 DEF ReadAttempts, ReadRowAgain, CheckSnapshot, Reading
    <3> QED BY <3>2, <3>3, <3>4 DEF ReadStep
  <2>3. ~WriteStep
    BY <2>1, WriteIsBeside DEF Beside
  <2>4. PICK h \in Handles, tick \in Ticks : SubmitEvent(h, tick)
    BY <2>2, <2>3 DEF ReadersNext
  <2>5. CASE read' = [Resting EXCEPT !.stage = "refused"]
    BY <2>5 DEF Resting
  <2>6. CASE AppendEvent(h, Len(read.events) + 1, tick)
    <3>0. Len(read.events) = Len(events)
      BY <2>1, <2>6, Typed DEF AppendEvent, Moment
    <3>1. PICK e : events' = events \o <<e>>
      BY <2>6 DEF AppendEvent, AppendRows
    <3>2. events \in Seq(EventRows) /\ read.events \in Seq(EventRows)
      BY <2>1, Typed
    <3>3. read.events = events
      BY <3>0, <3>2 DEF ReadInv, PictureIsPast, IsPrefix
    <3>4. Len(events') = Len(events) + 1 /\ SubSeq(events', 1, Len(events)) = events
      BY <3>1, <3>2
    <3> QED BY <3>0, <3>3, <3>4
  <2> QED BY <2>4, <2>5, <2>6 DEF SubmitEvent
<1> QED BY <1>1, ReadingInvariant, ReadersAreHarmless, TypeCorrect, PTL
    DEF ReadersSpec, AppendsFollowTheirReading
=============================================================================
