----------------------- MODULE ExplanationsRefinement -----------------------
(* Concurrent requests implement ExplanationService. *)
EXTENDS Explanations

Service == INSTANCE ExplanationService WITH kept <- cache, given <- reply

\* However requests overlap, are cut off or fail, and whatever releases serve
\* them, what is answered and kept is what one request after the other would
\* answer and keep.
ImplementsService == Service!Spec
=============================================================================
