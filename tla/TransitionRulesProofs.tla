------------------------ MODULE TransitionRulesProofs ------------------------
(***************************************************************************)
(* What one record of TransitionRules can look like, for every set of      *)
(* identities and attempt identifiers, and facts about sequences that the  *)
(* proofs about the machine and the ledger share.                          *)
(***************************************************************************)
EXTENDS TransitionRules, TLAPS

USE DEF IsDispatch

-----------------------------------------------------------------------------
\* What a call that is not refused as an edge looks like.
LEMMA EdgeTaken ==
  ASSUME NEW s, NEW call, EdgeFault(s, call) = NoReason
  PROVE  Edge(s, call.target, call.evidence.cause) \in NORMATIVE_TRANSITIONS
<1> DEFINE edges == {e \in NORMATIVE_TRANSITIONS : e.source = s /\ e.target = call.target}
<1>1. PICK e \in edges : e.cause = call.evidence.cause
  BY DEF EdgeFault, NoReason
<1>2. \A f \in NORMATIVE_TRANSITIONS : f = Edge(f.source, f.target, f.cause)
  BY DEF NORMATIVE_TRANSITIONS, Graph, Edge
<1> QED BY <1>1, <1>2

\* A call adds a well-typed record that starts in the current state and ends either in
\* VIOLATION or along an edge of the graph.
LEMMA RecordShape ==
  ASSUME NEW s \in States, NEW used, NEW i, NEW call \in Calls
  PROVE  LET r == RecordOf(s, used, i, call)
         IN  /\ r \in Records
             /\ r.source = s
             /\ \/ r.resulting = "VIOLATION"
                \/ Edge(s, r.resulting, r.cause) \in NORMATIVE_TRANSITIONS
<1> DEFINE r == RecordOf(s, used, i, call)
<1>1. AttemptFault(used, call) \in Reasons /\ EdgeFault(s, call) \in Reasons
  BY DEF AttemptFault, EdgeFault, Reasons, NoReason
<1>2. r.reason \in Reasons
  BY <1>1 DEF RecordOf, ViolationReason, Reasons, Reported
<1>3. r \in Records
  BY <1>2 DEF RecordOf, Records, Calls, Evidence, States, AttemptForRecord
<1>4. r.resulting = "VIOLATION" \/ Edge(s, r.resulting, r.cause) \in NORMATIVE_TRANSITIONS
  <2>1. CASE r.reason = NoReason
    BY <2>1, EdgeTaken DEF RecordOf, ViolationReason, NoReason, Reported
  <2>2. CASE r.reason # NoReason
    BY <2>2 DEF RecordOf
  <2> QED BY <2>1, <2>2
<1> QED BY <1>3, <1>4 DEF RecordOf

\* A dispatch record carries a well-formed attempt identifier never used before.
LEMMA DispatchIsFresh ==
  ASSUME NEW s \in States, NEW used, NEW i, NEW call \in Calls,
         IsDispatch(RecordOf(s, used, i, call))
  PROVE  /\ RecordOf(s, used, i, call).attempt \in AttemptIds \ used
         /\ s \in {"PREPARED", "RETRYABLE"}
<1> DEFINE r == RecordOf(s, used, i, call)
<1>1. r.reason = NoReason /\ call.target = "IN_FLIGHT"
  BY DEF RecordOf
<1>2. AttemptFault(used, call) = NoReason
  BY <1>1 DEF RecordOf, ViolationReason, NoReason
<1>3. call.attempt \in AttemptIds \ used
  BY <1>1, <1>2 DEF AttemptFault, NoReason
<1>4. Edge(s, "IN_FLIGHT", r.cause) \in NORMATIVE_TRANSITIONS
  BY RecordShape DEF IsDispatch
<1>5. s \in {"PREPARED", "RETRYABLE"}
  BY <1>4 DEF NORMATIVE_TRANSITIONS, Graph, Edge
<1> QED BY <1>3, <1>5 DEF RecordOf, AttemptForRecord

\* Appending to a typed sequence keeps the old elements and adds the new one last.
LEMMA AppendFacts ==
  ASSUME NEW S, NEW q \in Seq(S), NEW e \in S
  PROVE  /\ Append(q, e) \in Seq(S)
         /\ Len(Append(q, e)) = Len(q) + 1
         /\ DOMAIN Append(q, e) = 1..(Len(q) + 1)
         /\ DOMAIN q = 1..Len(q)
         /\ \A i \in DOMAIN q : Append(q, e)[i] = q[i]
         /\ Append(q, e)[Len(q) + 1] = e
OBVIOUS
=============================================================================
