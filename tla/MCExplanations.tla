--------------------------- MODULE MCExplanations ---------------------------
(* Instances of Explanations. *)
EXTENDS ExplanationsRefinement, TLC

CONSTANTS r1, r2, r3

OneRule == "c1" :> {"q1", "q2"}
Codes == {"c1", "c2"}
OneQuestion == "c1" :> {"q1"}

Draft(names, says, size) ==
  [names |-> names, says |-> says, arabic |-> TRUE, size |-> size]

\* A plain text about both controls; one that makes an assertion only the
\* later denylists know; one too long.
ThreeDrafts ==
  { Draft(Codes, {}, "fits"), Draft({"c1"}, {"subtle"}, "fits"),
    Draft({"c1"}, {}, "long") }
OneDraft == { Draft({"c1"}, {}, "fits") }

\* The second release brings a longer denylist, the third a new prompt.
Editions == <<"v1", "v1", "v2">>
SameEditionOnce == <<"v1">>
FirstDenylist == <<{"plain"}>>
GrowingDenylist == <<{"plain"}, {"plain", "subtle"}, {"plain", "subtle"}>>

Symmetry == Permutations(Requests)
=============================================================================
