------------------------- MODULE ExplanationService -------------------------
(***************************************************************************)
(* What the explanation endpoint promises, one reply at a time: a new text *)
(* written for the very verdict and safe by the denylist of some release,  *)
(* the text kept for that verdict if it is safe, or the deterministic      *)
(* floor of that verdict; and the first new text is kept for good.         *)
(***************************************************************************)
EXTENDS ExplanationData

VARIABLES
  kept,  \* key -> the text kept for it, or NoText
  given  \* request -> its reply, or NoReply

vars == <<kept, given>>

Init ==
  /\ kept = [k \in Keys |-> NoText]
  /\ given = [r \in Requests |-> NoReply]

Reply(r, result) ==
  /\ given[r] = NoReply
  /\ given' = [given EXCEPT ![r] = result]

Keep(x, t) ==
  kept' = IF kept[Key(x)] = NoText THEN [kept EXCEPT ![Key(x)] = t] ELSE kept

\* x is explained by a text that is about x and safe.
Explains(t, x) ==
  /\ t.for = x
  /\ \E p \in 1..Releases :
       Edition[p] = x.edition /\ Passes(p, t.draft, x.control)

ReplyNew(r, x, draft) == LET t == [draft |-> draft, for |-> x] IN
  /\ Explains(t, x)
  /\ Reply(r, Served("ai_verified", t))
  /\ Keep(x, t)

\* A request is cut off after its text was kept.
KeepUnanswered(x, draft) == LET t == [draft |-> draft, for |-> x] IN
  /\ Explains(t, x)
  /\ Keep(x, t)
  /\ UNCHANGED given

ReplyKept(r, x) ==
  /\ kept[Key(x)] # NoText
  /\ Explains(kept[Key(x)], x)
  /\ Reply(r, Served("cache_hit", kept[Key(x)]))
  /\ UNCHANGED kept

ReplyFloor(r, x, reason) ==
  /\ Reply(r, Fallback(x, reason))
  /\ UNCHANGED kept

Next ==
  \E x \in Contexts :
    \/ \E draft \in Drafts :
         \/ KeepUnanswered(x, draft)
         \/ \E r \in Requests : ReplyNew(r, x, draft)
    \/ \E r \in Requests :
         \/ ReplyKept(r, x)
         \/ \E reason \in Reasons : ReplyFloor(r, x, reason)

Spec == Init /\ [][Next]_vars
=============================================================================
