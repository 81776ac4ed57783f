--------------------------- MODULE ActionLifecycle ---------------------------
(***************************************************************************)
(* What the operation state machine and the ledger promise the gateway,    *)
(* without their states, evidence, records or tables: per action, what is  *)
(* known about its effect, and which attempt identifiers were let out.     *)
(*                                                                         *)
(*   unsent    nothing was dispatched                                      *)
(*   maybe     an attempt is out and its effect is not known               *)
(*   found     the effect is believed to exist and must be verified        *)
(*   absent    every attempt let out so far is known to have no effect     *)
(*   complete, stopped, violated    the action is over                     *)
(*                                                                         *)
(* An attempt is let out only when none may be outstanding, under an       *)
(* identifier no attempt of any action ever had; an action completes only  *)
(* after its effect was found; and once it is over it can only be found in *)
(* violation.  OperationStateMachine and OperationLedger implement this.   *)
(***************************************************************************)
CONSTANTS ActionIds, AttemptIds

VARIABLES knowledge, issued
vars == <<knowledge, issued>>

Live == {"unsent", "maybe", "found", "absent"}
Over == {"complete", "stopped", "violated"}

Init ==
  /\ knowledge = [a \in ActionIds |-> "unsent"]
  /\ issued = [a \in ActionIds |-> {}]

Become(a, k) == knowledge' = [knowledge EXCEPT ![a] = k]

Dispatch(a, id) ==
  /\ knowledge[a] \in {"unsent", "absent"}
  /\ \A b \in ActionIds : id \notin issued[b]
  /\ Become(a, "maybe")
  /\ issued' = [issued EXCEPT ![a] = @ \cup {id}]

Learn(a) ==
  /\ \/ knowledge[a] = "maybe" /\ \E k \in {"found", "absent"} : Become(a, k)
     \/ knowledge[a] = "found" /\ Become(a, "maybe")
  /\ UNCHANGED issued

Complete(a) == knowledge[a] = "found" /\ Become(a, "complete") /\ UNCHANGED issued

Stop(a) == knowledge[a] \in Live /\ Become(a, "stopped") /\ UNCHANGED issued

Violate(a) ==
  knowledge[a] # "violated" /\ Become(a, "violated") /\ UNCHANGED issued

Next == \E a \in ActionIds :
  \/ \E id \in AttemptIds : Dispatch(a, id)
  \/ Learn(a)
  \/ Complete(a)
  \/ Stop(a)
  \/ Violate(a)

Spec == Init /\ [][Next]_vars
=============================================================================
