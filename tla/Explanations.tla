---------------------------- MODULE Explanations ----------------------------
(***************************************************************************)
(* Requests for the explanation of a control's verdict: the route          *)
(* (api/explanations.py), the orchestration of cache, model, gate and      *)
(* fallback (explanations/), the cache table (db/ai_explanations.py), the  *)
(* gate (verification/) and the retrying model client (ai/gemini.py).      *)
(*                                                                         *)
(* Processes of successive releases share the cache table; each has a      *)
(* connection pool of its own.                                             *)
(***************************************************************************)
EXTENDS ExplanationData, FiniteSets

CONSTANTS
  PoolSize,    \* connections of a process
  MaxAttempts  \* calls of the model per request

ASSUME ExplanationAssumption ==
  /\ PoolSize \in Nat \ {0}
  /\ MaxAttempts \in Nat \ {0}

VARIABLES
  release,  \* the newest release in service
  cache,    \* ai_explanations: key -> text, or NoText
  pc,       \* the request's progress
  process,  \* the release of the process that serves it
  control,  \* the control it asks about, the client's choice
  ctx,      \* GapContext
  attempt,  \* of the model call
  text,     \* the candidate that passed the gate
  reply     \* ExplanationResult

vars == <<release, cache, pc, process, control, ctx, attempt, text, reply>>

-----------------------------------------------------------------------------
Waiting == {"tenant", "lookup", "store"}       \* for a connection
InTransaction == {"reading", "getting", "putting"}
Open == Waiting \cup InTransaction \cup {"calling"}
Ended == {"replied", "not_found", "error", "lost"}

NoContext == [status |-> "none"]

Init ==
  /\ release = 1
  /\ cache = [k \in Keys |-> NoText]
  /\ pc = [r \in Requests |-> "idle"]
  /\ process = [r \in Requests |-> 1]
  /\ control \in [Requests -> Controls]
  /\ ctx = [r \in Requests |-> NoContext]
  /\ attempt = [r \in Requests |-> 0]
  /\ text = [r \in Requests |-> NoText]
  /\ reply = [r \in Requests |-> NoReply]

Goto(r, where) == pc' = [pc EXCEPT ![r] = where]

Answer(r, result) ==
  /\ Goto(r, "replied")
  /\ reply' = [reply EXCEPT ![r] = result]

\* The connections in use in a process.  session_scope takes one from the pool
\* for its transaction and gives it back when it leaves.
Connections_OneTransaction(p) ==
  {<<r, pc[r]>> : r \in {q \in Requests : process[q] = p /\ pc[q] \in InTransaction}}
    \cup {<<r, "outer">> : r \in {q \in Requests :
             process[q] = p /\ pc[q] \in Open \ {"tenant", "reading"}}}
Connections(p) ==
  {<<r, pc[r]>> : r \in {q \in Requests : process[q] = p /\ pc[q] \in InTransaction}}

\* A known control is asked for; the newest release serves it.
Ask(r) ==
  /\ pc[r] = "idle"
  /\ process' = [process EXCEPT ![r] = release]
  /\ Goto(r, "tenant")
  /\ UNCHANGED <<release, cache, control, ctx, attempt, text, reply>>

\* control_by_code raises: 404 before any work.
AskUnknown(r) ==
  /\ pc[r] = "idle"
  /\ Goto(r, "not_found")
  /\ UNCHANGED <<release, cache, process, control, ctx, attempt, text, reply>>

\* The pool has a connection for the transaction.
Connect(r) ==
  /\ pc[r] \in Waiting
  /\ Cardinality(Connections(process[r])) < PoolSize
  /\ Goto(r, CASE pc[r] = "tenant" -> "reading"
               [] pc[r] = "lookup" -> "getting"
               [] pc[r] = "store" -> "putting")
  /\ UNCHANGED <<release, cache, process, control, ctx, attempt, text, reply>>

\* The tenant and its latest answers, whatever they are by now; the verdict is
\* derived from them anew.
ReadTenant(r) ==
  /\ pc[r] = "reading"
  /\ \E m \in AnswerMaps :
       ctx' = [ctx EXCEPT ![r] = Context(process[r], m, control[r])]
  /\ Goto(r, "lookup")
  /\ UNCHANGED <<release, cache, process, control, attempt, text, reply>>

NoSuchTenant(r) ==
  /\ pc[r] = "reading"
  /\ Goto(r, "not_found")
  /\ UNCHANGED <<release, cache, process, control, ctx, attempt, text, reply>>

Hit(r) == cache[Key(ctx[r])]

HitPasses_Trusted(r) == Hit(r) \in Texts
HitPasses(r) == Passes(process[r], Hit(r).draft, control[r])

\* Transaction A: the cache is read, and a hit goes through the gate again.
LookUp(r) ==
  /\ pc[r] = "getting"
  /\ IF Hit(r) = NoText
       THEN /\ Goto(r, "calling")
            /\ attempt' = [attempt EXCEPT ![r] = 1]
            /\ UNCHANGED reply
       ELSE /\ Answer(r, IF HitPasses(r)
                           THEN Served("cache_hit", Hit(r))
                           ELSE Fallback(ctx[r], "cache_regate_failed"))
            /\ UNCHANGED attempt
  /\ UNCHANGED <<release, cache, process, control, ctx, text>>

\* The model finishes cleanly with a text, which goes through the gate.
Gated_Unchecked(r, d) == d.size # "short"
Gated(r, d) == Passes(process[r], d, control[r])

ModelAnswers(r, d) ==
  /\ pc[r] = "calling"
  /\ IF Gated(r, d)
       THEN /\ Goto(r, "store")
            /\ text' = [text EXCEPT ![r] = [draft |-> d, for |-> ctx[r]]]
            /\ UNCHANGED reply
       ELSE /\ Answer(r, Fallback(ctx[r], "gate_rejected"))
            /\ UNCHANGED text
  /\ UNCHANGED <<release, cache, process, control, ctx, attempt>>

CallsLeft_OneMore(r) == attempt[r] <= MaxAttempts
CallsLeft(r) == attempt[r] < MaxAttempts

\* 429, 5xx, deadline, transport error, anything unclassified: the next attempt
\* follows after a delay.
ModelRetried(r) ==
  /\ pc[r] = "calling"
  /\ CallsLeft(r)
  /\ attempt' = [attempt EXCEPT ![r] = @ + 1]
  /\ UNCHANGED <<release, cache, pc, process, control, ctx, text, reply>>

\* A permanent error (4xx, a blocked, truncated or empty completion) on any
\* attempt, or any error on the last one.
ModelFails(r) ==
  /\ pc[r] = "calling"
  /\ Answer(r, Fallback(ctx[r], "explainer_error"))
  /\ UNCHANGED <<release, cache, process, control, ctx, attempt, text>>

Kept_Upsert(old, new) == new
\* ON CONFLICT (content_hash) DO NOTHING.
Kept(old, new) == IF old = NoText THEN new ELSE old

\* Transaction B: the verified text is put in the cache, and served whether or
\* not it was the first.
Put(r) ==
  /\ pc[r] = "putting"
  /\ cache' = [cache EXCEPT ![Key(ctx[r])] = Kept(@, text[r])]
  /\ Answer(r, Served("ai_verified", text[r]))
  /\ UNCHANGED <<release, process, control, ctx, attempt, text>>

\* The text is committed, but the acknowledgement or the process is gone before
\* the reply.
PutUnanswered(r) ==
  /\ pc[r] = "putting"
  /\ cache' = [cache EXCEPT ![Key(ctx[r])] = Kept(@, text[r])]
  /\ Goto(r, "error")
  /\ UNCHANGED <<release, process, control, ctx, attempt, text, reply>>

\* An exception nobody catches: the pool's timeout, a database error, no API
\* key.  The transaction rolls back and the request is answered with a 500.
Fails(r) ==
  /\ pc[r] \in Waiting \cup InTransaction
  /\ Goto(r, "error")
  /\ UNCHANGED <<release, cache, process, control, ctx, attempt, text, reply>>

\* A new release goes into service beside the old one.
Deploy ==
  /\ release < Releases
  /\ release' = release + 1
  /\ UNCHANGED <<cache, pc, process, control, ctx, attempt, text, reply>>

\* A process dies and the requests it was serving with it.
Crash(p) ==
  /\ \E r \in Requests : process[r] = p /\ pc[r] \in Open
  /\ pc' = [r \in Requests |-> IF process[r] = p /\ pc[r] \in Open
                                 THEN "lost" ELSE pc[r]]
  /\ UNCHANGED <<release, cache, process, control, ctx, attempt, text, reply>>

-----------------------------------------------------------------------------
CallEnds(r) == ModelFails(r) \/ \E d \in Drafts : ModelAnswers(r, d)

Progress(r) ==
  \/ Connect(r)
  \/ ReadTenant(r) \/ NoSuchTenant(r)
  \/ LookUp(r)
  \/ ModelRetried(r) \/ CallEnds(r)
  \/ Put(r)

Next ==
  \/ Deploy
  \/ \E p \in 1..Releases : Crash(p)
  \/ \E r \in Requests : Ask(r) \/ AskUnknown(r) \/ Progress(r)
                          \/ PutUnanswered(r) \/ Fails(r)

Spec == Init /\ [][Next]_vars

\* A request goes on: a connection that stays free is taken, a call is over
\* after its deadline and the attempts after MaxAttempts of them.
FairSpec == Spec /\ \A r \in Requests : WF_vars(Progress(r))

-----------------------------------------------------------------------------
(* Properties                                                              *)

TypeOK ==
  /\ release \in 1..Releases
  /\ cache \in [Keys -> Texts \cup {NoText}]
  /\ pc \in [Requests -> {"idle"} \cup Open \cup Ended]
  /\ process \in [Requests -> 1..release]
  /\ control \in [Requests -> Controls]
  /\ ctx \in [Requests -> Contexts \cup {NoContext}]
  /\ attempt \in [Requests -> 0..MaxAttempts]
  /\ text \in [Requests -> Texts \cup {NoText}]
  /\ reply \in [Requests -> Replies]

FromModel(r) == reply[r].source \in {"cache_hit", "ai_verified"}

\* "AI must never tell the user: you are compliant" (ADR-0009 section 3): a
\* text of the model is served only if it passes the gate of the process that
\* serves it, also when an older release with a shorter denylist, still
\* running, puts it in the cache they share.
ServedIsSafe ==
  \A r \in Requests : FromModel(r) =>
    Passes(process[r], reply[r].text.draft, control[r])

\* A text served for a verdict was written for that very verdict: the same
\* control, status, rationale, unsatisfied questions and edition, although the
\* cache is shared by all tenants and its key leaves fields out (ADR-0009
\* section 6).
WrittenForThisGap ==
  \A r \in Requests : FromModel(r) => reply[r].text.for = ctx[r]

\* The cache holds only texts that passed the gate of a release in service, at
\* the key of the context they were written for (orchestrator.py, invariant 1).
CacheIsVerified ==
  \A k \in Keys : cache[k] # NoText =>
    /\ Key(cache[k].for) = k
    /\ \E p \in 1..release : Edition[p] = k.edition /\
         Passes(p, cache[k].draft, k.control)

\* The first verified explanation for a key wins permanently, whatever other
\* requests that missed it generate meanwhile (ai_explanations.py).
FirstWins ==
  [][\A k \in Keys : cache[k] # NoText => cache'[k] = cache[k]]_vars

\* Every request comes to an end, although requests compete for the pool: one
\* that waits for a connection holds none (ADR-0014 section 7).
RequestsEnd ==
  \A r \in Requests : pc[r] \in Open ~> pc[r] \in Ended

-----------------------------------------------------------------------------
(* A statement of the docs that the code does not keep                     *)

\* ADR-0014 section 8: if transaction B fails the request still returns the
\* verified text, only the cache write is lost.
VerifiedIsServed ==
  \A r \in Requests : pc[r] = "error" => text[r] = NoText
=============================================================================
