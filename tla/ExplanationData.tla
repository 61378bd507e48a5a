-------------------------- MODULE ExplanationData --------------------------
(***************************************************************************)
(* The data of gap explanations: what a verdict's explanation is about     *)
(* (explanations/context.py), the cache key (db/ai_explanations.py), the   *)
(* gate (verification/), the deterministic floor (explanations/fallback.py)*)
(* and the replies.                                                        *)
(*                                                                         *)
(* A draft is what the gate looks at in a text of the model: the controls  *)
(* it names, the compliance assertions it makes, its language and length.  *)
(* Beside it stands the context it was written for, which the program does *)
(* not store.  A release has an edition (prompt_version and model id) and  *)
(* a denylist.                                                             *)
(***************************************************************************)
EXTENDS Decision

CONSTANTS
  Requests,    \* POST /tenants/{id}/explanations
  Releases,    \* number of releases
  Edition,     \* release -> prompt_version and model id
  Denylist,    \* release -> COMPLIANCE_ASSERTIONS
  Drafts,      \* what the model may write
  NoText       \* no row

ASSUME ReleaseAssumption == Releases \in Nat \ {0}

-----------------------------------------------------------------------------
(* Contexts and cache keys                                                 *)

\* The rationale of a decision names the missing questions, or the gaps of a
\* partial verdict, and only counts them otherwise.
Rationale(decision) ==
  [status |-> decision.status,
   names |-> IF decision.status \in {"not_assessed", "partial"}
               THEN decision.unsatisfied ELSE {}]

\* build_gap_context over build_control_decider.
Context(p, answers, c) ==
  LET decision == ControlDecision(answers, c) IN
  [edition |-> Edition[p],
   control |-> c,
   status |-> decision.status,
   rationale |-> Rationale(decision),
   unsatisfied |-> decision.unsatisfied]

Contexts == {Context(p, m, c) : p \in 1..Releases, m \in AnswerMaps, c \in Controls}

Key_Coarse(x) ==
  [edition |-> x.edition, control |-> x.control, status |-> x.status,
   rationale |-> "any"]

\* compute_cache_key; the language is always "ar".
Key(x) ==
  [edition |-> x.edition, control |-> x.control, status |-> x.status,
   rationale |-> x.rationale]

Keys == {Key(x) : x \in Contexts}

Texts == [draft : Drafts, for : Contexts]

ASSUME NoTextAssumption == NoText \notin Texts

-----------------------------------------------------------------------------
(* The gate and the floor                                                  *)

\* verify_explanation: no compliance assertion on the denylist, a reference to
\* the control, Arabic, within the length bounds.
Passes(p, draft, c) ==
  /\ draft.says \cap Denylist[p] = {}
  /\ c \in draft.names
  /\ draft.arabic
  /\ draft.size = "fits"

\* deterministic_fallback: it lists the unsatisfied questions of a decided gap,
\* and of any other status says only that it was not assessed.
Floor(x) ==
  [names |-> {x.control},
   lists |-> IF x.status \in {"partial", "non_compliant"}
               THEN x.unsatisfied ELSE {}]

Floors == {Floor(x) : x \in Contexts}

NoReply == [source |-> "none"]
Served(source, t) == [source |-> source, text |-> t]
Fallback(x, reason) ==
  [source |-> "fallback", reason |-> reason, floor |-> Floor(x)]

Reasons == {"gate_rejected", "explainer_error", "cache_regate_failed"}
Replies ==
  {NoReply}
    \cup {Served(s, t) : s \in {"cache_hit", "ai_verified"}, t \in Texts}
    \cup [source : {"fallback"}, reason : Reasons, floor : Floors]
=============================================================================
