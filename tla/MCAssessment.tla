---------------------------- MODULE MCAssessment ----------------------------
(* Assessment on the seeded catalogue itself. *)
EXTENDS Assessment, Catalogue

AllControls == DOMAIN SeedControls
AllQuestions == DOMAIN SeedQuestions
RuleSets == [c \in DOMAIN Rules |-> ToSet(Rules[c])]
=============================================================================
