------------------------- MODULE ExplanationsProofs -------------------------
(***************************************************************************)
(* Proofs about Explanations for any catalogue, rules, releases, requests, *)
(* pool and model.  The cache key leaves the unsatisfied questions out and *)
(* still determines the context; from there on a text stays with the gap   *)
(* it was written for.                                                     *)
(***************************************************************************)
EXTENDS ExplanationsRefinement, FiniteSetTheorems, TLAPS

-----------------------------------------------------------------------------
(* The data                                                                *)

\* The status and what the rationale names give back the unsatisfied
\* questions: none if compliant, all of the rule's if non-compliant.
LEMMA DecisionDetermined ==
  ASSUME NEW m \in AnswerMaps, NEW n \in AnswerMaps, NEW c \in Controls,
         ControlDecision(m, c).status = ControlDecision(n, c).status,
         Rationale(ControlDecision(m, c)) = Rationale(ControlDecision(n, c))
  PROVE  ControlDecision(m, c) = ControlDecision(n, c)
<1>1. CASE c \notin DOMAIN RuleQuestions
  BY <1>1 DEF ControlDecision
<1>2. CASE c \in DOMAIN RuleQuestions
  <2> DEFINE Q == RuleQuestions[c]
             d == ControlDecision(m, c)
             e == ControlDecision(n, c)
  <2>1. /\ d = EvaluateYesNo(m, Q)
        /\ e = EvaluateYesNo(n, Q)
    BY <1>2 DEF ControlDecision
  <2>2. ASSUME NEW a
        PROVE  LET x == EvaluateYesNo(a, Q) IN
               /\ x = [status |-> x.status, unsatisfied |-> x.unsatisfied]
               /\ x.status \in Verdicts
               /\ x.status = "compliant" => x.unsatisfied = {}
               /\ x.status = "non_compliant" => x.unsatisfied = Q
    BY DEF EvaluateYesNo, Verdicts, Ranked
  <2>3. /\ d = [status |-> d.status, unsatisfied |-> d.unsatisfied]
        /\ d.status \in Verdicts
        /\ d.status = "compliant" => d.unsatisfied = {}
        /\ d.status = "non_compliant" => d.unsatisfied = Q
    BY <2>1, <2>2
  <2>4. /\ e = [status |-> e.status, unsatisfied |-> e.unsatisfied]
        /\ e.status = "compliant" => e.unsatisfied = {}
        /\ e.status = "non_compliant" => e.unsatisfied = Q
    BY <2>1, <2>2
  <2>5. d.status \in {"not_assessed", "partial"} => d.unsatisfied = e.unsatisfied
    <3>1. d.status = e.status /\ Rationale(d).names = Rationale(e).names
      OBVIOUS
    <3> HIDE DEF d, e
    <3>2. QED  BY <3>1 DEF Rationale
  <2>6. d.unsatisfied = e.unsatisfied
    <3> HIDE DEF d, e
    <3>1. d.status = e.status
      BY DEF d, e
    <3>2. QED  BY <2>3, <2>4, <2>5, <3>1 DEF Verdicts, Ranked
  <2>7. QED
    BY <2>3, <2>4, <2>6
<1>3. QED  BY <1>1, <1>2

\* compute_cache_key: different contexts have different keys.
LEMMA KeyDetermines ==
  ASSUME NEW x \in Contexts, NEW y \in Contexts, Key(x) = Key(y)
  PROVE  x = y
<1>1. PICK p \in 1..Releases, m \in AnswerMaps, c \in Controls : x = Context(p, m, c)
  BY DEF Contexts
<1>2. PICK q \in 1..Releases, n \in AnswerMaps, d \in Controls : y = Context(q, n, d)
  BY DEF Contexts
<1>3. /\ x.edition = y.edition
      /\ x.control = y.control
      /\ x.status = y.status
      /\ x.rationale = y.rationale
  BY DEF Key
<1>4. c = d
  BY <1>1, <1>2, <1>3 DEF Context
<1>5. ControlDecision(m, c) = ControlDecision(n, c)
  BY <1>1, <1>2, <1>3, <1>4, DecisionDetermined DEF Context
<1>6. QED
  BY <1>1, <1>2, <1>3, <1>4, <1>5 DEF Context

LEMMA ContextFacts ==
  ASSUME NEW p \in 1..Releases, NEW m \in AnswerMaps, NEW c \in Controls
  PROVE  /\ Context(p, m, c) \in Contexts
         /\ Context(p, m, c).edition = Edition[p]
         /\ Context(p, m, c).control = c
BY DEF Contexts, Context

LEMMA KeyFacts ==
  ASSUME NEW x \in Contexts
  PROVE  /\ Key(x) \in Keys
         /\ Key(x).edition = x.edition
         /\ Key(x).control = x.control
BY DEF Keys, Key

LEMMA FallbackType ==
  ASSUME NEW x \in Contexts, NEW reason \in Reasons
  PROVE  /\ Fallback(x, reason) \in Replies
         /\ Fallback(x, reason).source = "fallback"
BY DEF Fallback, Replies, Floors

LEMMA ServedType ==
  ASSUME NEW t \in Texts, NEW s \in {"cache_hit", "ai_verified"}
  PROVE  /\ Served(s, t) \in Replies
         /\ Served(s, t).source = s
         /\ Served(s, t).text = t
BY DEF Served, Replies

-----------------------------------------------------------------------------
(* The inductive invariant                                                 *)

\* Where a request has read its tenant and goes on, and where its text has
\* passed the gate.
WithContext == {"lookup", "getting", "calling", "store", "putting"}
WithText == {"store", "putting"}

\* The request knows the gap it asks about, in its own release's edition.
KnowsItsGap(r) ==
  pc[r] \in WithContext \/ reply[r] # NoReply =>
    /\ ctx[r] \in Contexts
    /\ ctx[r].control = control[r]
    /\ ctx[r].edition = Edition[process[r]]

\* What waits to be put in the cache passed the request's own gate.
HoldsVerified(r) ==
  pc[r] \in WithText =>
    /\ text[r] \in Texts
    /\ text[r].for = ctx[r]
    /\ Passes(process[r], text[r].draft, control[r])

\* The reply is the end of the request.
RepliesLast(r) == pc[r] # "replied" => reply[r] = NoReply

RequestOK(r) == KnowsItsGap(r) /\ HoldsVerified(r) /\ RepliesLast(r)

SafeReply(r) == FromModel(r) =>
  /\ Passes(process[r], reply[r].text.draft, control[r])
  /\ reply[r].text.for = ctx[r]

Inv ==
  /\ TypeOK
  /\ CacheIsVerified
  /\ \A r \in Requests : RequestOK(r) /\ SafeReply(r)

LEMMA NotFromModel ==
  ASSUME NEW x \in Contexts, NEW reason \in Reasons
  PROVE  /\ NoReply.source \notin {"cache_hit", "ai_verified"}
         /\ Fallback(x, reason).source \notin {"cache_hit", "ai_verified"}
         /\ Fallback(x, reason) # NoReply
BY DEF NoReply, Fallback

LEMMA InitInv == Init => Inv
<1> SUFFICES ASSUME Init PROVE Inv
  OBVIOUS
<1>1. TypeOK
  BY ReleaseAssumption, ExplanationAssumption DEF Init, TypeOK, Replies, NoContext, Open, Waiting, InTransaction
<1>2. CacheIsVerified
  BY DEF Init, CacheIsVerified
<1>3. \A r \in Requests : RequestOK(r) /\ SafeReply(r)
  BY DEF Init, RequestOK, KnowsItsGap, HoldsVerified, RepliesLast, SafeReply,
         FromModel, WithContext, WithText, NoReply
<1>4. QED  BY <1>1, <1>2, <1>3 DEF Inv

\* A request's part of the invariant depends on its own variables only.
LEMMA OthersKeep ==
  ASSUME NEW r \in Requests, RequestOK(r), SafeReply(r),
         process'[r] = process[r], control'[r] = control[r], ctx'[r] = ctx[r],
         text'[r] = text[r], reply'[r] = reply[r], pc'[r] = pc[r]
  PROVE  RequestOK(r)' /\ SafeReply(r)'
BY DEF RequestOK, KnowsItsGap, HoldsVerified, RepliesLast, SafeReply, FromModel, Passes, NoReply

\* One request moves, and with it no other.
LEMMA OneMoves ==
  ASSUME NEW r \in Requests, Inv,
         \A q \in Requests \ {r} :
           /\ process'[q] = process[q] /\ ctx'[q] = ctx[q] /\ text'[q] = text[q]
           /\ reply'[q] = reply[q] /\ pc'[q] = pc[q],
         control' = control,
         RequestOK(r)', SafeReply(r)'
  PROVE  \A q \in Requests : RequestOK(q)' /\ SafeReply(q)'
<1> SUFFICES ASSUME NEW q \in Requests \ {r}
             PROVE  RequestOK(q)' /\ SafeReply(q)'
  OBVIOUS
<1>1. RequestOK(q) /\ SafeReply(q)
  BY DEF Inv
<1>2. QED  BY <1>1, OthersKeep

\* The cache keeps what it promises while releases are only added.
LEMMA SameCache ==
  ASSUME TypeOK, CacheIsVerified, cache' = cache,
         release' \in Nat, release' >= release
  PROVE  CacheIsVerified'
BY ReleaseAssumption DEF TypeOK, CacheIsVerified, Passes


-----------------------------------------------------------------------------
(* Every step keeps the invariant                                          *)

LEMMA AskInv ==
  ASSUME Inv, NEW r \in Requests, Ask(r)
  PROVE  Inv'
<1> USE DEF Ask, Goto
<1>1. TypeOK'
  BY ExplanationAssumption DEF Inv, TypeOK, Open, Ended, Waiting, InTransaction
<1>2. CacheIsVerified'
  BY SameCache DEF Inv, TypeOK
<1>3. RequestOK(r)' /\ SafeReply(r)'
  BY DEF Inv, TypeOK, RequestOK, KnowsItsGap, HoldsVerified, RepliesLast,
         SafeReply, FromModel, WithContext, WithText, NoReply, Waiting, InTransaction
<1>4. \A q \in Requests : RequestOK(q)' /\ SafeReply(q)'
  BY <1>3, OneMoves DEF Inv, TypeOK
<1>5. QED  BY <1>1, <1>2, <1>4 DEF Inv

LEMMA AskUnknownInv ==
  ASSUME Inv, NEW r \in Requests, AskUnknown(r)
  PROVE  Inv'
<1> USE DEF AskUnknown, Goto
<1>1. TypeOK'
  BY ExplanationAssumption DEF Inv, TypeOK, Open, Ended, Waiting, InTransaction
<1>2. CacheIsVerified'
  BY SameCache DEF Inv, TypeOK
<1>3. RequestOK(r)' /\ SafeReply(r)'
  BY DEF Inv, TypeOK, RequestOK, KnowsItsGap, HoldsVerified, RepliesLast,
         SafeReply, FromModel, WithContext, WithText, NoReply, Waiting, InTransaction
<1>4. \A q \in Requests : RequestOK(q)' /\ SafeReply(q)'
  BY <1>3, OneMoves DEF Inv, TypeOK
<1>5. QED  BY <1>1, <1>2, <1>4 DEF Inv

LEMMA ConnectInv ==
  ASSUME Inv, NEW r \in Requests, Connect(r)
  PROVE  Inv'
<1> USE DEF Connect, Goto
<1>1. TypeOK'
  BY ExplanationAssumption DEF Inv, TypeOK, Open, Ended, Waiting, InTransaction
<1>2. CacheIsVerified'
  BY SameCache DEF Inv, TypeOK
<1>3. RequestOK(r)' /\ SafeReply(r)'
  BY DEF Inv, TypeOK, RequestOK, KnowsItsGap, HoldsVerified, RepliesLast,
         SafeReply, FromModel, WithContext, WithText, NoReply, Waiting, InTransaction
<1>4. \A q \in Requests : RequestOK(q)' /\ SafeReply(q)'
  BY <1>3, OneMoves DEF Inv, TypeOK
<1>5. QED  BY <1>1, <1>2, <1>4 DEF Inv

LEMMA NoSuchTenantInv ==
  ASSUME Inv, NEW r \in Requests, NoSuchTenant(r)
  PROVE  Inv'
<1> USE DEF NoSuchTenant, Goto
<1>1. TypeOK'
  BY ExplanationAssumption DEF Inv, TypeOK, Open, Ended, Waiting, InTransaction
<1>2. CacheIsVerified'
  BY SameCache DEF Inv, TypeOK
<1>3. RequestOK(r)' /\ SafeReply(r)'
  BY DEF Inv, TypeOK, RequestOK, KnowsItsGap, HoldsVerified, RepliesLast,
         SafeReply, FromModel, WithContext, WithText, NoReply, Waiting, InTransaction
<1>4. \A q \in Requests : RequestOK(q)' /\ SafeReply(q)'
  BY <1>3, OneMoves DEF Inv, TypeOK
<1>5. QED  BY <1>1, <1>2, <1>4 DEF Inv

LEMMA ModelRetriedInv ==
  ASSUME Inv, NEW r \in Requests, ModelRetried(r)
  PROVE  Inv'
<1> USE DEF ModelRetried, CallsLeft
<1>1. TypeOK'
  BY ExplanationAssumption DEF Inv, TypeOK, Open, Ended, Waiting, InTransaction
<1>2. CacheIsVerified'
  BY SameCache DEF Inv, TypeOK
<1>3. RequestOK(r)' /\ SafeReply(r)'
  BY DEF Inv, TypeOK, RequestOK, KnowsItsGap, HoldsVerified, RepliesLast,
         SafeReply, FromModel, WithContext, WithText, NoReply, Waiting, InTransaction
<1>4. \A q \in Requests : RequestOK(q)' /\ SafeReply(q)'
  BY <1>3, OneMoves DEF Inv, TypeOK
<1>5. QED  BY <1>1, <1>2, <1>4 DEF Inv

LEMMA FailsInv ==
  ASSUME Inv, NEW r \in Requests, Fails(r)
  PROVE  Inv'
<1> USE DEF Fails, Goto
<1>1. TypeOK'
  BY ExplanationAssumption DEF Inv, TypeOK, Open, Ended, Waiting, InTransaction
<1>2. CacheIsVerified'
  BY SameCache DEF Inv, TypeOK
<1>3. RequestOK(r)' /\ SafeReply(r)'
  BY DEF Inv, TypeOK, RequestOK, KnowsItsGap, HoldsVerified, RepliesLast,
         SafeReply, FromModel, WithContext, WithText, NoReply, Waiting, InTransaction
<1>4. \A q \in Requests : RequestOK(q)' /\ SafeReply(q)'
  BY <1>3, OneMoves DEF Inv, TypeOK
<1>5. QED  BY <1>1, <1>2, <1>4 DEF Inv

\* The gap a request reads is one of its own release.
LEMMA ReadTenantInv ==
  ASSUME Inv, NEW r \in Requests, ReadTenant(r)
  PROVE  Inv'
<1> USE DEF ReadTenant, Goto
<1>1. PICK m \in AnswerMaps :
        ctx' = [ctx EXCEPT ![r] = Context(process[r], m, control[r])]
  OBVIOUS
<1>2. /\ process[r] \in 1..Releases
      /\ control[r] \in Controls
  BY ReleaseAssumption DEF Inv, TypeOK
<1>3. /\ ctx'[r] \in Contexts
      /\ ctx'[r].edition = Edition[process[r]]
      /\ ctx'[r].control = control[r]
  BY <1>1, <1>2, ContextFacts DEF Inv, TypeOK
<1>4. TypeOK'
  BY <1>1, <1>3 DEF Inv, TypeOK, Open, Ended, Waiting, InTransaction
<1>5. CacheIsVerified'
  BY SameCache DEF Inv, TypeOK
<1>6. RequestOK(r)' /\ SafeReply(r)'
  BY <1>3 DEF Inv, TypeOK, RequestOK, KnowsItsGap, HoldsVerified, RepliesLast,
              SafeReply, FromModel, WithContext, WithText, NoReply
<1>7. \A q \in Requests : RequestOK(q)' /\ SafeReply(q)'
  BY <1>1, <1>6, OneMoves DEF Inv, TypeOK
<1>8. QED  BY <1>4, <1>5, <1>7 DEF Inv

\* A request that ends in the fallback.
LEMMA FallbackInv ==
  ASSUME Inv, NEW r \in Requests, NEW reason \in Reasons,
         pc[r] \in WithContext, pc[r] # "replied",
         Answer(r, Fallback(ctx[r], reason)),
         UNCHANGED <<release, cache, process, control, ctx, attempt, text>>
  PROVE  Inv'
<1> USE DEF Answer, Goto
<1>1. ctx[r] \in Contexts
  BY DEF Inv, RequestOK, KnowsItsGap
<1>2. /\ reply'[r] = Fallback(ctx[r], reason)
      /\ pc'[r] = "replied"
  BY DEF Inv, TypeOK
<1>3. TypeOK'
  BY <1>1, FallbackType DEF Inv, TypeOK, Ended
<1>4. CacheIsVerified'
  BY SameCache DEF Inv, TypeOK
<1>5. RequestOK(r)' /\ SafeReply(r)'
  BY <1>1, <1>2, NotFromModel
  DEF Inv, RequestOK, KnowsItsGap, HoldsVerified, RepliesLast, SafeReply,
      FromModel, WithContext, WithText
<1>6. \A q \in Requests : RequestOK(q)' /\ SafeReply(q)'
  BY <1>5, OneMoves DEF Inv, TypeOK
<1>7. QED  BY <1>3, <1>4, <1>6 DEF Inv

LEMMA ModelFailsInv ==
  ASSUME Inv, NEW r \in Requests, ModelFails(r)
  PROVE  Inv'
BY FallbackInv DEF ModelFails, WithContext, Reasons

LEMMA ModelAnswersInv ==
  ASSUME Inv, NEW r \in Requests, NEW d \in Drafts, ModelAnswers(r, d)
  PROVE  Inv'
<1>1. CASE Gated(r, d)
  <2> DEFINE t == [draft |-> d, for |-> ctx[r]]
  <2>1. /\ pc[r] = "calling"
        /\ pc' = [pc EXCEPT ![r] = "store"]
        /\ text' = [text EXCEPT ![r] = t]
        /\ UNCHANGED <<release, cache, process, control, ctx, attempt, reply>>
    BY <1>1 DEF ModelAnswers, Goto
  <2>2. ctx[r] \in Contexts
    BY <2>1 DEF Inv, RequestOK, KnowsItsGap, WithContext
  <2>3. t \in Texts
    BY <2>2 DEF Texts
  <2>4. TypeOK'
    BY <2>1, <2>3 DEF Inv, TypeOK, Open, Waiting, InTransaction
  <2>5. CacheIsVerified'
    BY <2>1, SameCache DEF Inv, TypeOK
  <2>6. RequestOK(r)' /\ SafeReply(r)'
    BY <1>1, <2>1, <2>2, <2>3
    DEF Inv, TypeOK, RequestOK, KnowsItsGap, HoldsVerified, RepliesLast,
        SafeReply, FromModel, WithContext, WithText, NoReply, Gated, Passes
  <2>7. \A q \in Requests : RequestOK(q)' /\ SafeReply(q)'
    BY <2>1, <2>6, OneMoves DEF Inv, TypeOK
  <2>8. QED  BY <2>4, <2>5, <2>7 DEF Inv
<1>2. CASE ~Gated(r, d)
  BY <1>2, FallbackInv DEF ModelAnswers, WithContext, Reasons
<1>3. QED  BY <1>1, <1>2

\* A hit is a verified text, and the key under which it was found tells that
\* it was written for the request's own gap.
LEMMA HitFits ==
  ASSUME Inv, NEW r \in Requests, pc[r] \in WithContext, Hit(r) # NoText
  PROVE  /\ Hit(r) \in Texts
         /\ Hit(r).for = ctx[r]
<1>1. ctx[r] \in Contexts /\ Key(ctx[r]) \in Keys
  BY KeyFacts DEF Inv, RequestOK, KnowsItsGap
<1>2. /\ Hit(r) \in Texts
      /\ Key(Hit(r).for) = Key(ctx[r])
  BY <1>1 DEF Inv, TypeOK, Hit, CacheIsVerified
<1>3. Hit(r).for \in Contexts
  BY <1>2 DEF Texts
<1>4. QED  BY <1>1, <1>2, <1>3, KeyDetermines

LEMMA LookUpInv ==
  ASSUME Inv, NEW r \in Requests, LookUp(r)
  PROVE  Inv'
<1>1. CASE Hit(r) = NoText
  <2>1. /\ pc[r] = "getting"
        /\ pc' = [pc EXCEPT ![r] = "calling"]
        /\ attempt' = [attempt EXCEPT ![r] = 1]
        /\ UNCHANGED <<release, cache, process, control, ctx, text, reply>>
    BY <1>1 DEF LookUp, Goto
  <2>2. TypeOK'
    BY <2>1, ExplanationAssumption DEF Inv, TypeOK, Open
  <2>3. CacheIsVerified'
    BY <2>1, SameCache DEF Inv, TypeOK
  <2>4. RequestOK(r)' /\ SafeReply(r)'
    BY <2>1
    DEF Inv, TypeOK, RequestOK, KnowsItsGap, HoldsVerified, RepliesLast,
        SafeReply, FromModel, WithContext, WithText, NoReply
  <2>5. \A q \in Requests : RequestOK(q)' /\ SafeReply(q)'
    BY <2>1, <2>4, OneMoves DEF Inv, TypeOK
  <2>6. QED  BY <2>2, <2>3, <2>5 DEF Inv
<1>2. CASE Hit(r) # NoText /\ ~HitPasses(r)
  BY <1>2, FallbackInv DEF LookUp, WithContext, Reasons
<1>3. CASE Hit(r) # NoText /\ HitPasses(r)
  <2> DEFINE t == Hit(r)
  <2>1. /\ pc[r] = "getting"
        /\ pc' = [pc EXCEPT ![r] = "replied"]
        /\ reply' = [reply EXCEPT ![r] = Served("cache_hit", t)]
        /\ UNCHANGED <<release, cache, process, control, ctx, attempt, text>>
    BY <1>3 DEF LookUp, Answer, Goto
  <2>2. t \in Texts /\ t.for = ctx[r] /\ Passes(process[r], t.draft, control[r])
    BY <1>3, <2>1, HitFits DEF WithContext, HitPasses
  <2> HIDE DEF t
  <2>3. /\ reply'[r] = Served("cache_hit", t)
        /\ reply'[r].text = t
        /\ reply'[r] \in Replies
    BY <2>1, <2>2, ServedType DEF Inv, TypeOK
  <2>4. TypeOK'
    BY <2>1, <2>3 DEF Inv, TypeOK, Ended
  <2>5. CacheIsVerified'
    BY <2>1, SameCache DEF Inv, TypeOK
  <2>6. RequestOK(r)' /\ SafeReply(r)'
    BY <2>1, <2>2, <2>3
    DEF Inv, TypeOK, RequestOK, KnowsItsGap, HoldsVerified, RepliesLast,
        SafeReply, FromModel, WithContext, WithText, Passes
  <2>7. \A q \in Requests : RequestOK(q)' /\ SafeReply(q)'
    BY <2>1, <2>6, OneMoves DEF Inv, TypeOK
  <2>8. QED  BY <2>4, <2>5, <2>7 DEF Inv
<1>4. QED  BY <1>1, <1>2, <1>3

\* Where a request puts its text, it is verified, and what was there stays.
LEMMA PutKeepsCache ==
  ASSUME Inv, NEW r \in Requests, pc[r] = "putting",
         cache' = [cache EXCEPT ![Key(ctx[r])] = Kept(@, text[r])],
         UNCHANGED release
  PROVE  /\ cache' \in [Keys -> Texts \cup {NoText}]
         /\ CacheIsVerified'
<1>1. /\ ctx[r] \in Contexts
      /\ ctx[r].control = control[r]
      /\ ctx[r].edition = Edition[process[r]]
      /\ text[r] \in Texts
      /\ text[r].for = ctx[r]
      /\ Passes(process[r], text[r].draft, control[r])
  BY DEF Inv, RequestOK, KnowsItsGap, HoldsVerified, WithContext, WithText
<1>2. /\ Key(ctx[r]) \in Keys
      /\ Key(ctx[r]).edition = Edition[process[r]]
      /\ Key(ctx[r]).control = control[r]
  BY <1>1, KeyFacts
<1>3. cache' \in [Keys -> Texts \cup {NoText}]
  BY <1>1, <1>2 DEF Inv, TypeOK, Kept
<1>4. ASSUME NEW k \in Keys, cache'[k] # NoText
      PROVE  /\ Key(cache'[k].for) = k
             /\ \E p \in 1..release : Edition[p] = k.edition /\
                  Passes(p, cache'[k].draft, k.control)
  <2>1. CASE cache'[k] = cache[k]
    BY <1>4, <2>1 DEF Inv, CacheIsVerified
  <2>2. CASE cache'[k] # cache[k]
    <3>1. k = Key(ctx[r]) /\ cache'[k] = text[r]
      BY <2>2 DEF Inv, TypeOK, Kept
    <3>2. process[r] \in 1..release
      BY DEF Inv, TypeOK
    <3>3. QED  BY <1>1, <1>2, <3>1, <3>2
  <2>3. QED  BY <2>1, <2>2
<1>5. CacheIsVerified'
  BY <1>4 DEF CacheIsVerified, Passes
<1>6. QED  BY <1>3, <1>5

LEMMA PutInv ==
  ASSUME Inv, NEW r \in Requests, Put(r)
  PROVE  Inv'
<1> DEFINE t == text[r]
<1>1. /\ pc[r] = "putting"
      /\ pc' = [pc EXCEPT ![r] = "replied"]
      /\ reply' = [reply EXCEPT ![r] = Served("ai_verified", t)]
      /\ UNCHANGED <<release, process, control, ctx, attempt, text>>
  BY DEF Put, Answer, Goto
<1>2. t \in Texts /\ t.for = ctx[r] /\ Passes(process[r], t.draft, control[r])
  BY <1>1 DEF Inv, RequestOK, HoldsVerified, WithText
<1> HIDE DEF t
<1>3. /\ reply'[r] = Served("ai_verified", t)
      /\ reply'[r].text = t
      /\ reply'[r] \in Replies
  BY <1>1, <1>2, ServedType DEF Inv, TypeOK
<1>4. cache' \in [Keys -> Texts \cup {NoText}] /\ CacheIsVerified'
  BY <1>1, PutKeepsCache DEF Put
<1>5. TypeOK'
  BY <1>1, <1>3, <1>4 DEF Inv, TypeOK, Ended
<1>6. RequestOK(r)' /\ SafeReply(r)'
  BY <1>1, <1>2, <1>3
  DEF Inv, TypeOK, RequestOK, KnowsItsGap, HoldsVerified, RepliesLast,
      SafeReply, FromModel, WithContext, WithText, Passes
<1>7. \A q \in Requests : RequestOK(q)' /\ SafeReply(q)'
  BY <1>1, <1>6, OneMoves DEF Inv, TypeOK
<1>8. QED  BY <1>4, <1>5, <1>7 DEF Inv

LEMMA PutUnansweredInv ==
  ASSUME Inv, NEW r \in Requests, PutUnanswered(r)
  PROVE  Inv'
<1>1. /\ pc[r] = "putting"
      /\ pc' = [pc EXCEPT ![r] = "error"]
      /\ UNCHANGED <<release, process, control, ctx, attempt, text, reply>>
  BY DEF PutUnanswered, Goto
<1>2. cache' \in [Keys -> Texts \cup {NoText}] /\ CacheIsVerified'
  BY <1>1, PutKeepsCache DEF PutUnanswered
<1>3. TypeOK'
  BY <1>1, <1>2 DEF Inv, TypeOK, Ended
<1>4. RequestOK(r)' /\ SafeReply(r)'
  BY <1>1
  DEF Inv, TypeOK, RequestOK, KnowsItsGap, HoldsVerified, RepliesLast,
      SafeReply, FromModel, WithContext, WithText, NoReply
<1>5. \A q \in Requests : RequestOK(q)' /\ SafeReply(q)'
  BY <1>1, <1>4, OneMoves DEF Inv, TypeOK
<1>6. QED  BY <1>2, <1>3, <1>5 DEF Inv

LEMMA DeployInv ==
  ASSUME Inv, Deploy
  PROVE  Inv'
<1> USE DEF Deploy
<1>1. TypeOK'
  BY ReleaseAssumption DEF Inv, TypeOK
<1>2. CacheIsVerified'
  BY SameCache DEF Inv, TypeOK
<1>3. \A r \in Requests : RequestOK(r)' /\ SafeReply(r)'
  BY OthersKeep DEF Inv
<1>4. QED  BY <1>1, <1>2, <1>3 DEF Inv

LEMMA CrashInv ==
  ASSUME Inv, NEW p \in 1..Releases, Crash(p)
  PROVE  Inv'
<1> USE DEF Crash
<1>1. TypeOK'
  BY DEF Inv, TypeOK, Ended
<1>2. CacheIsVerified'
  BY SameCache DEF Inv, TypeOK
<1>3. ASSUME NEW r \in Requests
      PROVE  RequestOK(r)' /\ SafeReply(r)'
  <2>1. CASE pc'[r] = pc[r]
    BY <2>1, OthersKeep DEF Inv
  <2>2. CASE pc'[r] # pc[r]
    <3>1. pc[r] \in Open /\ pc'[r] = "lost"
      BY <2>2
    <3>2. reply[r] = NoReply
      BY <3>1 DEF Inv, RequestOK, RepliesLast, Open, Waiting, InTransaction
    <3>3. QED
      BY <3>1, <3>2 DEF RequestOK, KnowsItsGap, HoldsVerified, RepliesLast,
         SafeReply, FromModel, WithContext, WithText, NoReply
  <2>3. QED  BY <2>1, <2>2
<1>4. QED  BY <1>1, <1>2, <1>3 DEF Inv

LEMMA StutterInv ==
  ASSUME Inv, UNCHANGED vars
  PROVE  Inv'
<1> USE DEF vars
<1>1. TypeOK'
  BY DEF Inv, TypeOK
<1>2. CacheIsVerified'
  BY SameCache DEF Inv, TypeOK
<1>3. \A r \in Requests : RequestOK(r)' /\ SafeReply(r)'
  BY OthersKeep DEF Inv
<1>4. QED  BY <1>1, <1>2, <1>3 DEF Inv

LEMMA NextInv == Inv /\ [Next]_vars => Inv'
<1> SUFFICES ASSUME Inv, [Next]_vars PROVE Inv'
  OBVIOUS
<1>1. CASE Deploy
  BY <1>1, DeployInv
<1>2. ASSUME NEW p \in 1..Releases, Crash(p) PROVE Inv'
  BY <1>2, CrashInv
<1>3. ASSUME NEW r \in Requests, Ask(r) \/ AskUnknown(r) PROVE Inv'
  BY <1>3, AskInv, AskUnknownInv
<1>4. ASSUME NEW r \in Requests, Progress(r) PROVE Inv'
  BY <1>4, ConnectInv, ReadTenantInv, NoSuchTenantInv, LookUpInv,
     ModelRetriedInv, ModelFailsInv, ModelAnswersInv, PutInv
  DEF Progress, CallEnds
<1>5. ASSUME NEW r \in Requests, PutUnanswered(r) \/ Fails(r) PROVE Inv'
  BY <1>5, PutUnansweredInv, FailsInv
<1>6. CASE UNCHANGED vars
  BY <1>6, StutterInv
<1>7. QED  BY <1>1, <1>2, <1>3, <1>4, <1>5, <1>6 DEF Next

\* The inductive invariant of concurrent explanation requests.
THEOREM Invariance == Spec => []Inv
<1>1. QED  BY InitInv, NextInv, PTL DEF Spec

-----------------------------------------------------------------------------
(* The properties                                                          *)

\* Every variable keeps its type; the model is never called more than
\* MaxAttempts times for a request.
THEOREM TypeCorrect == Spec => []TypeOK
<1>1. Inv => TypeOK
  BY DEF Inv
<1>2. QED  BY <1>1, Invariance, PTL

\* Nothing of the model is served that the serving release's gate refuses.
THEOREM ServesSafely == Spec => []ServedIsSafe
<1>1. Inv => ServedIsSafe
  BY DEF Inv, SafeReply, ServedIsSafe
<1>2. QED  BY <1>1, Invariance, PTL

\* What is served was written for the very verdict, although the key leaves
\* fields out and the cache is shared.
THEOREM ServesTheGap == Spec => []WrittenForThisGap
<1>1. Inv => WrittenForThisGap
  BY DEF Inv, SafeReply, WrittenForThisGap
<1>2. QED  BY <1>1, Invariance, PTL

\* The cache holds verified texts only, at their own keys.
THEOREM CacheVerified == Spec => []CacheIsVerified
<1>1. Inv => CacheIsVerified
  BY DEF Inv
<1>2. QED  BY <1>1, Invariance, PTL

\* The first text kept for a key is never replaced.
THEOREM FirstIsKept == Spec => FirstWins
<1> DEFINE Same == \A k \in Keys : cache[k] # NoText => cache'[k] = cache[k]
<1>1. Inv /\ [Next]_vars => [Same]_vars
  <2> SUFFICES ASSUME Inv, Next PROVE Same
    OBVIOUS
  <2>1. ASSUME NEW r \in Requests, Put(r) \/ PutUnanswered(r) PROVE Same
    <3>1. cache' = [cache EXCEPT ![Key(ctx[r])] = Kept(@, text[r])]
      BY <2>1 DEF Put, PutUnanswered
    <3>2. QED  BY <3>1 DEF Kept, Inv, TypeOK
  <2>2. CASE UNCHANGED cache
    BY <2>2
  <2>3. QED
    BY <2>1, <2>2
    DEF Next, Deploy, Crash, Ask, AskUnknown, Progress, Connect, ReadTenant,
        NoSuchTenant, LookUp, ModelRetried, CallEnds, ModelFails, ModelAnswers,
        Fails
<1>2. QED  BY <1>1, Invariance, PTL DEF Spec, FirstWins

-----------------------------------------------------------------------------
(* Refinement                                                              *)

\* The abstract service speaks of the same data.
LEMMA SameData ==
  /\ Service!Contexts = Contexts
  /\ Service!Keys = Keys
  /\ Service!Reasons = Reasons
  /\ Service!NoReply = NoReply
  /\ \A x : Service!Key(x) = Key(x)
  /\ \A x, reason : Service!Fallback(x, reason) = Fallback(x, reason)
  /\ \A source, t : Service!Served(source, t) = Served(source, t)
  /\ \A p, draft, c : Service!Passes(p, draft, c) = Passes(p, draft, c)
<1>1. /\ Service!Contexts = Contexts
      /\ Service!Keys = Keys
  BY DEF Service!Contexts, Contexts, Service!Keys, Keys, Service!Key, Key,
     Service!Context, Context, Service!Rationale, Rationale,
     Service!AnswerMaps, AnswerMaps, Service!ControlDecision, ControlDecision,
     Service!EvaluateYesNo, EvaluateYesNo, Service!Missing, Missing,
     Service!Gaps, Gaps
<1>2. /\ Service!Reasons = Reasons
      /\ Service!NoReply = NoReply
  BY DEF Service!Reasons, Reasons, Service!NoReply, NoReply
<1>3. /\ \A x : Service!Key(x) = Key(x)
      /\ \A x, reason : Service!Fallback(x, reason) = Fallback(x, reason)
  BY DEF Service!Key, Key, Service!Fallback, Fallback, Service!Floor, Floor
<1>4. /\ \A source, t : Service!Served(source, t) = Served(source, t)
      /\ \A p, draft, c : Service!Passes(p, draft, c) = Passes(p, draft, c)
  BY DEF Service!Served, Served, Service!Passes, Passes
<1>5. QED  BY <1>1, <1>2, <1>3, <1>4

\* A fallback is the floor of the request's own gap.
LEMMA FallbackRefines ==
  ASSUME Inv, NEW r \in Requests, NEW reason \in Reasons,
         pc[r] \in WithContext,
         Answer(r, Fallback(ctx[r], reason)), UNCHANGED cache
  PROVE  Service!Next
<1>1. ctx[r] \in Contexts /\ reply[r] = NoReply
  BY DEF Inv, RequestOK, KnowsItsGap, RepliesLast, WithContext
<1>2. Service!ReplyFloor(r, ctx[r], reason)
  BY <1>1, SameData DEF Service!ReplyFloor, Service!Reply, Answer
<1>3. QED  BY <1>1, <1>2, SameData DEF Service!Next

\* What waits to be put explains the request's gap.
LEMMA PutExplains ==
  ASSUME Inv, NEW r \in Requests, pc[r] = "putting"
  PROVE  /\ ctx[r] \in Contexts
         /\ reply[r] = NoReply
         /\ text[r].draft \in Drafts
         /\ text[r] = [draft |-> text[r].draft, for |-> ctx[r]]
         /\ Service!Explains(text[r], ctx[r])
<1>1. /\ ctx[r] \in Contexts
      /\ ctx[r].control = control[r]
      /\ ctx[r].edition = Edition[process[r]]
      /\ text[r] \in Texts
      /\ text[r].for = ctx[r]
      /\ Passes(process[r], text[r].draft, control[r])
      /\ reply[r] = NoReply
  BY DEF Inv, RequestOK, KnowsItsGap, HoldsVerified, RepliesLast,
         WithContext, WithText
<1>2. process[r] \in 1..Releases
  BY ReleaseAssumption DEF Inv, TypeOK
<1>3. /\ text[r].draft \in Drafts
      /\ text[r] = [draft |-> text[r].draft, for |-> ctx[r]]
  BY <1>1 DEF Texts
<1>4. Service!Explains(text[r], ctx[r])
  BY <1>1, <1>2, SameData DEF Service!Explains
<1>5. QED  BY <1>1, <1>3, <1>4

LEMMA PutRefines ==
  ASSUME Inv, NEW r \in Requests, Put(r)
  PROVE  Service!Next
<1>1. /\ pc[r] = "putting"
      /\ cache' = [cache EXCEPT ![Key(ctx[r])] = Kept(@, text[r])]
      /\ reply' = [reply EXCEPT ![r] = Served("ai_verified", text[r])]
  BY DEF Put, Answer
<1>2. Service!Keep(ctx[r], text[r])
  BY <1>1, SameData DEF Service!Keep, Kept, Inv, TypeOK
<1>3. Service!ReplyNew(r, ctx[r], text[r].draft)
  BY <1>1, <1>2, PutExplains, SameData DEF Service!ReplyNew, Service!Reply
<1>4. QED  BY <1>1, <1>3, PutExplains, SameData DEF Service!Next

LEMMA PutUnansweredRefines ==
  ASSUME Inv, NEW r \in Requests, PutUnanswered(r)
  PROVE  Service!Next
<1>1. /\ pc[r] = "putting"
      /\ cache' = [cache EXCEPT ![Key(ctx[r])] = Kept(@, text[r])]
      /\ UNCHANGED reply
  BY DEF PutUnanswered
<1>2. Service!Keep(ctx[r], text[r])
  BY <1>1, SameData DEF Service!Keep, Kept, Inv, TypeOK
<1>3. Service!KeepUnanswered(ctx[r], text[r].draft)
  BY <1>1, <1>2, PutExplains DEF Service!KeepUnanswered
<1>4. QED  BY <1>1, <1>3, PutExplains, SameData DEF Service!Next

LEMMA HitRefines ==
  ASSUME Inv, NEW r \in Requests, LookUp(r), Hit(r) # NoText, HitPasses(r)
  PROVE  Service!Next
<1>1. /\ pc[r] = "getting"
      /\ reply' = [reply EXCEPT ![r] = Served("cache_hit", Hit(r))]
      /\ UNCHANGED cache
  BY DEF LookUp, Answer
<1>2. /\ ctx[r] \in Contexts
      /\ ctx[r].control = control[r]
      /\ ctx[r].edition = Edition[process[r]]
      /\ reply[r] = NoReply
  BY <1>1 DEF Inv, RequestOK, KnowsItsGap, RepliesLast, WithContext
<1>3. process[r] \in 1..Releases
  BY ReleaseAssumption DEF Inv, TypeOK
<1>4. Service!Explains(Hit(r), ctx[r])
  BY <1>1, <1>2, <1>3, HitFits, SameData
  DEF Service!Explains, HitPasses, WithContext
<1>5. Service!ReplyKept(r, ctx[r])
  BY <1>1, <1>2, <1>4, SameData DEF Service!ReplyKept, Service!Reply, Hit
<1>6. QED  BY <1>2, <1>5, SameData DEF Service!Next

LEMMA InitRefines == Init => Service!Init
BY SameData DEF Init, Service!Init

LEMMA NextRefines == Inv /\ [Next]_vars => [Service!Next]_(Service!vars)
<1> SUFFICES ASSUME Inv, [Next]_vars
             PROVE  Service!Next \/ UNCHANGED <<cache, reply>>
  BY DEF Service!vars
<1>1. ASSUME NEW r \in Requests, LookUp(r)
      PROVE  Service!Next \/ UNCHANGED <<cache, reply>>
  <2>1. CASE Hit(r) = NoText
    BY <1>1, <2>1 DEF LookUp
  <2>2. CASE Hit(r) # NoText /\ HitPasses(r)
    BY <1>1, <2>2, HitRefines
  <2>3. CASE Hit(r) # NoText /\ ~HitPasses(r)
    BY <1>1, <2>3, FallbackRefines DEF LookUp, WithContext, Reasons
  <2>4. QED  BY <2>1, <2>2, <2>3
<1>2. ASSUME NEW r \in Requests, CallEnds(r)
      PROVE  Service!Next \/ UNCHANGED <<cache, reply>>
  <2>1. CASE ModelFails(r)
    BY <2>1, FallbackRefines DEF ModelFails, WithContext, Reasons
  <2>2. ASSUME NEW d \in Drafts, ModelAnswers(r, d)
        PROVE  Service!Next \/ UNCHANGED <<cache, reply>>
    BY <2>2, FallbackRefines DEF ModelAnswers, WithContext, Reasons
  <2>3. QED  BY <1>2, <2>1, <2>2 DEF CallEnds
<1>3. ASSUME NEW r \in Requests, Put(r) \/ PutUnanswered(r)
      PROVE  Service!Next
  BY <1>3, PutRefines, PutUnansweredRefines
<1>4. ASSUME NEW r \in Requests,
             \/ Ask(r) \/ AskUnknown(r) \/ Connect(r) \/ ReadTenant(r)
             \/ NoSuchTenant(r) \/ ModelRetried(r) \/ Fails(r)
      PROVE  UNCHANGED <<cache, reply>>
  BY <1>4 DEF Ask, AskUnknown, Connect, ReadTenant, NoSuchTenant,
     ModelRetried, Fails
<1>5. ASSUME Deploy \/ (\E p \in 1..Releases : Crash(p)) \/ UNCHANGED vars
      PROVE  UNCHANGED <<cache, reply>>
  BY <1>5 DEF Deploy, Crash, vars
<1>6. QED
  BY <1>1, <1>2, <1>3, <1>4, <1>5 DEF Next, Progress

\* Concurrent requests implement the service that answers one at a time.
THEOREM Refinement == Spec => ImplementsService
<1>1. QED
  BY Invariance, InitRefines, NextRefines, PTL
  DEF Spec, ImplementsService, Service!Spec

-----------------------------------------------------------------------------
(* Why requests end: RequestsEnd but for the fairness                      *)

\* Nothing outside the request holds it up.
Ready(r) ==
  \/ pc[r] \in InTransaction \cup {"calling"}
  \/ pc[r] \in Waiting /\ Cardinality(Connections(process[r])) < PoolSize

\* The pool never leaves all requests of a process waiting, however small it
\* is and however many there are: each takes its three connections one after
\* the other, so when all wait, none holds one (ADR-0014 section 7).
THEOREM PoolBlocksNotAll ==
  Spec => [](\A r \in Requests : pc[r] \in Open =>
               \E q \in Requests : /\ process[q] = process[r]
                                   /\ pc[q] \in Open /\ Ready(q))
<1> DEFINE OneGoesOn ==
      \A r \in Requests : pc[r] \in Open =>
        \E q \in Requests : /\ process[q] = process[r]
                            /\ pc[q] \in Open /\ Ready(q)
<1>1. OneGoesOn
  <2> SUFFICES ASSUME NEW r \in Requests, pc[r] \in Open
               PROVE  \E q \in Requests : /\ process[q] = process[r]
                                          /\ pc[q] \in Open /\ Ready(q)
    OBVIOUS
  <2>1. CASE \E q \in Requests : /\ process[q] = process[r]
                                 /\ pc[q] \in InTransaction \cup {"calling"}
    BY <2>1 DEF Ready, Open
  <2>2. CASE ~\E q \in Requests : /\ process[q] = process[r]
                                  /\ pc[q] \in InTransaction \cup {"calling"}
    <3>1. Connections(process[r]) = {}
      BY <2>2 DEF Connections
    <3>2. Cardinality(Connections(process[r])) = 0
      BY <3>1, FS_EmptySet
    <3>3. pc[r] \in Waiting
      BY <2>2 DEF Open
    <3>4. QED
      BY <3>2, <3>3, ExplanationAssumption DEF Ready
  <2>3. QED
    BY <2>1, <2>2
<1>2. QED
  BY <1>1, PTL

\* How much of its work a request has behind it.
Mark(r) ==
  IF pc[r] = "idle" THEN 0
  ELSE IF pc[r] = "tenant" THEN 1
  ELSE IF pc[r] = "reading" THEN 2
  ELSE IF pc[r] = "lookup" THEN 3
  ELSE IF pc[r] = "getting" THEN 4
  ELSE IF pc[r] = "calling" THEN 4 + attempt[r]
  ELSE IF pc[r] = "store" THEN 5 + MaxAttempts
  ELSE IF pc[r] = "putting" THEN 6 + MaxAttempts
  ELSE 7 + MaxAttempts

LEMMA MarkBounded ==
  ASSUME TypeOK, NEW r \in Requests
  PROVE  Mark(r) \in 0..(7 + MaxAttempts)
<1>1. attempt[r] \in 0..MaxAttempts /\ MaxAttempts \in Nat
  BY ExplanationAssumption DEF TypeOK
<1>2. QED
  BY <1>1 DEF Mark

Forward(r) == Mark(r) < Mark(r)'

\* Every step of a request, also a failing one, takes it forward.
LEMMA StepAdvances ==
  ASSUME TypeOK, NEW r \in Requests,
         Ask(r) \/ AskUnknown(r) \/ Progress(r) \/ PutUnanswered(r) \/ Fails(r)
  PROVE  Forward(r)
<1>1. /\ attempt[r] \in 0..MaxAttempts /\ MaxAttempts \in Nat
      /\ attempt \in [Requests -> 0..MaxAttempts]
      /\ pc \in [Requests -> {"idle"} \cup Open \cup Ended]
  BY ExplanationAssumption DEF TypeOK
<1> USE DEF Goto, Answer
<1>2. CASE Ask(r) \/ AskUnknown(r)
  <2>1. pc[r] = "idle" /\ pc'[r] \in {"tenant", "not_found"}
    BY <1>1, <1>2 DEF Ask, AskUnknown
  <2>2. QED
    BY <1>1, <2>1 DEF Forward, Mark
<1>3. CASE Connect(r)
  <2>1. \/ pc[r] = "tenant" /\ pc'[r] = "reading"
        \/ pc[r] = "lookup" /\ pc'[r] = "getting"
        \/ pc[r] = "store" /\ pc'[r] = "putting"
    BY <1>1, <1>3 DEF Connect, Waiting
  <2>2. QED
    BY <1>1, <2>1 DEF Forward, Mark
<1>4. CASE ReadTenant(r) \/ NoSuchTenant(r)
  <2>1. pc[r] = "reading" /\ pc'[r] \in {"lookup", "not_found"}
    BY <1>1, <1>4 DEF ReadTenant, NoSuchTenant
  <2>2. QED
    BY <1>1, <2>1 DEF Forward, Mark
<1>5. CASE LookUp(r)
  <2>1. /\ pc[r] = "getting"
        /\ \/ pc'[r] = "calling" /\ attempt'[r] = 1
           \/ pc'[r] = "replied"
    BY <1>1, <1>5 DEF LookUp
  <2>2. QED
    BY <1>1, <2>1 DEF Forward, Mark
<1>6. CASE ModelRetried(r)
  <2>1. pc[r] = "calling" /\ pc'[r] = "calling" /\ attempt'[r] = attempt[r] + 1
    BY <1>1, <1>6 DEF ModelRetried
  <2>2. QED
    BY <1>1, <2>1 DEF Forward, Mark
<1>7. CASE CallEnds(r)
  <2>1. pc[r] = "calling" /\ pc'[r] \in {"store", "replied"}
    BY <1>1, <1>7 DEF CallEnds, ModelFails, ModelAnswers
  <2>2. QED
    BY <1>1, <2>1 DEF Forward, Mark
<1>8. CASE Put(r) \/ PutUnanswered(r)
  <2>1. pc[r] = "putting" /\ pc'[r] \in {"replied", "error"}
    BY <1>1, <1>8 DEF Put, PutUnanswered
  <2>2. QED
    BY <1>1, <2>1 DEF Forward, Mark
<1>9. CASE Fails(r)
  <2>1. pc[r] \in Waiting \cup InTransaction /\ pc'[r] = "error"
    BY <1>1, <1>9 DEF Fails
  <2>2. QED
    BY <1>1, <2>1 DEF Forward, Mark, Waiting, InTransaction
<1>10. QED
  BY <1>2, <1>3, <1>4, <1>5, <1>6, <1>7, <1>8, <1>9 DEF Progress

\* A request never goes round again, its retries of the model included: every
\* step takes it forward and there is a last one (MarkBounded), also when its
\* process dies.  With PoolBlocksNotAll only a scheduler that ignores a request
\* that could go on can keep requests from ending.
THEOREM RequestsAdvance ==
  Spec => [][\A r \in Requests :
               /\ Progress(r) => Forward(r)
               /\ Mark(r) <= Mark(r)']_vars
<1> DEFINE OnlyForward == \A r \in Requests :
                            /\ Progress(r) => Forward(r)
                            /\ Mark(r) <= Mark(r)'
<1>1. Inv /\ Inv' /\ [Next]_vars => [OnlyForward]_vars
  <2> SUFFICES ASSUME Inv, Inv', Next, NEW r \in Requests
               PROVE  /\ Progress(r) => Forward(r)
                      /\ Mark(r) <= Mark(r)'
    OBVIOUS
  <2> DEFINE Moves(q) == \/ Ask(q) \/ AskUnknown(q) \/ Progress(q)
                         \/ PutUnanswered(q) \/ Fails(q)
  <2>1. Mark(r) \in Int /\ Mark(r)' \in Int
    <3>1. Mark(r) \in 0..(7 + MaxAttempts)
      BY MarkBounded DEF Inv
    <3>2. attempt'[r] \in Nat /\ MaxAttempts \in Nat
      BY ExplanationAssumption DEF Inv, TypeOK
    <3>3. Mark(r)' \in Int
      BY <3>2 DEF Mark
    <3>4. QED
      BY <3>1, <3>3, ExplanationAssumption
  <2>2. CASE Moves(r)
    <3>1. Forward(r)
      BY <2>2, StepAdvances DEF Inv
    <3>2. QED
      BY <2>1, <3>1 DEF Forward
  <2>3. CASE ~Moves(r)
    <3>1. CASE pc'[r] = pc[r] /\ attempt'[r] = attempt[r]
      BY <2>1, <2>3, <3>1 DEF Mark
    <3>2. CASE pc[r] \in Open /\ pc'[r] = "lost"
      <4>1. Mark(r)' = 7 + MaxAttempts
        BY <3>2 DEF Mark
      <4>2. Mark(r) <= 7 + MaxAttempts
        BY MarkBounded, ExplanationAssumption DEF Inv
      <4>3. QED
        BY <2>3, <4>1, <4>2
    <3>3. CASE Deploy
      BY <3>1, <3>3 DEF Deploy
    <3>4. CASE \E p \in 1..Releases : Crash(p)
      BY <3>1, <3>2, <3>4 DEF Crash
    <3>5. CASE \E q \in Requests \ {r} : Moves(q)
      <4>1. pc'[r] = pc[r] /\ attempt'[r] = attempt[r]
        BY <3>5 DEF Inv, TypeOK, Ask, AskUnknown, Progress, PutUnanswered, Fails,
           Connect, ReadTenant, NoSuchTenant, LookUp, ModelRetried, CallEnds,
           ModelFails, ModelAnswers, Put, Goto, Answer
      <4>2. QED
        BY <3>1, <4>1
    <3>6. QED
      BY <2>3, <3>3, <3>4, <3>5 DEF Next
  <2>4. QED
    BY <2>2, <2>3
<1>2. QED
  BY <1>1, Invariance, PTL DEF Spec
=============================================================================
