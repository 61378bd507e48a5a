---------------------------- MODULE AlertDelivery ----------------------------
(***************************************************************************)
(* What the transactional outbox promises (ADR-0008): once an alert is     *)
(* raised it stays open until it is either sent, which it may be called    *)
(* only after the receiver took in a copy, or given up into the dead-      *)
(* letter state, and neither is ever undone.  The receiver may see more    *)
(* copies than one, at any time after the alert was raised: also after it  *)
(* was settled, and also of an alert that was given up.                    *)
(***************************************************************************)
EXTENDS Naturals

CONSTANT Alerts

VARIABLES
  state,   \* "absent", "open", "sent" or "dead_letter"
  copies   \* copies the receiver took in

vars == <<state, copies>>

Init ==
  /\ state = [a \in Alerts |-> "absent"]
  /\ copies = [a \in Alerts |-> 0]

Raise(rows) ==
  /\ \A a \in rows : state[a] = "absent"
  /\ state' = [a \in Alerts |-> IF a \in rows THEN "open" ELSE state[a]]
  /\ UNCHANGED copies

Deliver(a) ==
  /\ state[a] # "absent"
  /\ copies' = [copies EXCEPT ![a] = @ + 1]
  /\ UNCHANGED state

Confirm(a) ==
  /\ state[a] = "open"
  /\ copies[a] > 0
  /\ state' = [state EXCEPT ![a] = "sent"]
  /\ UNCHANGED copies

GiveUp(a) ==
  /\ state[a] = "open"
  /\ state' = [state EXCEPT ![a] = "dead_letter"]
  /\ UNCHANGED copies

Next ==
  \/ \E rows \in SUBSET Alerts : Raise(rows)
  \/ \E a \in Alerts : Deliver(a) \/ Confirm(a) \/ GiveUp(a)

Spec == Init /\ [][Next]_vars
=============================================================================
