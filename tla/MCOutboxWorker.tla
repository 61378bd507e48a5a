--------------------------- MODULE MCOutboxWorker ---------------------------
(* OutboxWorker on small instances, for TLC. *)
EXTENDS OutboxRefinement, TLC

\* Alerts are interchangeable, and so are workers (safety runs only).
Symmetry == Permutations(Alerts) \cup Permutations(Workers)
=============================================================================
