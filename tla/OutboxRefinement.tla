-------------------------- MODULE OutboxRefinement --------------------------
(* The outbox worker implements the delivery promise of AlertDelivery. *)
EXTENDS OutboxWorker

\* pending and failed are one to the outside: not settled yet.
AbstractState ==
  [a \in Alerts |-> IF status[a] \in OpenStatus THEN "open" ELSE status[a]]

Delivery == INSTANCE AlertDelivery
              WITH state <- AbstractState, copies <- delivered

\* Every step of the workers, the network and the receiver is a step of
\* AlertDelivery or leaves it unchanged.
ImplementsDelivery == Delivery!Spec
=============================================================================
