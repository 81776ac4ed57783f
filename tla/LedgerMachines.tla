--------------------------- MODULE LedgerMachines ---------------------------
(***************************************************************************)
(* The ledger as what it stands in for: one OperationStateMachine for each *)
(* registered action.  The machine is never kept; every call rebuilds it   *)
(* from the transitions table, and the state and the attempt identifiers   *)
(* are stored a second time, in the operations and the attempts table.     *)
(* The mapping takes each variable of the machine from the table that      *)
(* stores it: the state from the row of the operation, the history from    *)
(* the transitions, the identifiers from the attempts by their ordinals.   *)
(*                                                                         *)
(* A machine exists for every identity, in its first state until the       *)
(* action is registered with that identity.                                *)
(***************************************************************************)
EXTENDS OperationLedger

Registered(i) ==
  i.action_id \in DOMAIN operations /\ operations[i.action_id].identity = i

RowsOf(i) == IF Registered(i) THEN transitions[i.action_id] ELSE <<>>
AttemptRowsOf(i) == IF Registered(i) THEN AttemptsOf(i.action_id) ELSE {}

\* The calls that transition() and record_dispatch() hand to the machine.
LedgerCalls ==
  {[target |-> r.target, evidence |-> r.evidence, identity |-> i, attempt |-> NoAttempt] :
     r \in {q \in Requests : q.target # "IN_FLIGHT"}, i \in Identities}
  \cup {[target |-> "IN_FLIGHT", evidence |-> r.evidence, identity |-> i, attempt |-> id] :
          r \in Requests, i \in Identities, id \in AttemptIds}

StateOf(i) == IF Registered(i) THEN operations[i.action_id].state ELSE "PROPOSED"
HistoryOf(i) == [n \in DOMAIN RowsOf(i) |-> RowsOf(i)[n].record]
Nth(rows, n) == CHOOSE r \in rows : r.ordinal = n
Ordered(rows) == [n \in 1..Cardinality(rows) |-> Nth(rows, n).attempt]

Machine(i) == INSTANCE OperationStateMachine WITH
  identity <- i, state <- StateOf(i), history <- HistoryOf(i),
  attempt_ids <- Ordered(AttemptRowsOf(i)), CallsMade <- LedgerCalls, MaxHistory <- MaxEvents

EveryMachineStarts == \A i \in Identities : Machine(i)!Init
EveryMachineSteps == \A i \in Identities : [Machine(i)!Next]_(Machine(i)!vars)

\* The tables implement the machine: for every identity, what the operations, transitions
\* and attempts tables say of it, over all handles, crashes and reopenings, is a behaviour
\* of one OperationStateMachine that lived in memory all along.  In particular a machine
\* rebuilt for a call knows every identifier any handle dispatched before.
ImplementsMachines == EveryMachineStarts /\ [][EveryMachineSteps]_vars
=============================================================================
