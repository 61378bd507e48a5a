# PDPL Autopilot: verification project

TLA+ models of the parts of `pdpl-autopilot` in which something can go wrong
that a unit test hardly reaches, the TLC runs that check them on small
instances, and the theorems TLAPS proves about them for every value of the
constants. Paths below are relative to `src/`; `pdpl/` stands for
`src/src/pdpl/`.

## 1. Inventory

A single-database service. A tenant answers a questionnaire; a *check run*
derives a verdict per control from the latest answers and keeps the history of
verdicts (bitemporal `findings`); a verdict that got worse puts an alert in the
`outbox` in the same transaction; *workers* deliver alerts to a webhook; a
request may ask for an Arabic *explanation* of a gap, written by an external
model, gated by a deterministic verifier and cached.

A tenant reads a *readiness report*: a weighted score, a coverage and a list of
gaps, derived on demand from the current findings.

| component | code | state | operations | what makes it correct |
|---|---|---|---|---|
| answers | `services/answers.py` | `evidence` rows | record_answers | all or nothing; latest answer per question |
| decision engine | `services/decision.py` | none | build_control_decider | verdict is a function of the latest answers |
| worsening rule | `services/alerts.py` | none | is_worsening_transition | ranked statuses only, strictly worse |
| check runs | `services/checks.py` | `check_runs`, `findings` | run_check | one current finding per control, clean handoff, alerts agree with the history |
| outbox enqueue | `db/outbox.py` | `outbox` | enqueue_alert | same transaction as the finding, one row per finding |
| outbox worker | `workers/outbox.py` | outbox row, process | run_once, run_forever, stop | at least once, bounded attempts, one end per alert, none lost |
| webhook notifier | `notifications/webhook.py` | none | send | classification of answers, one deadline |
| explanation endpoint | `api/explanations.py` | none | explain_tenant_gap | verdict re-derived, 404 before any work |
| orchestrator | `explanations/` | none | explain_gap | nothing ungated is served or cached; no connection held across the model call |
| explanation cache | `db/ai_explanations.py` | `ai_explanations` | get, put | the key determines the gap; first text wins |
| gate | `verification/` | denylist (per release) | verify_explanation | conjunction of four checks |
| model client | `ai/gemini.py` | none | explain | bounded retries, no partial text |
| scoring, readiness | `services/scoring.py`, `api/readiness.py` | none | compute_score, build_gap_report, readiness_report | one snapshot; score, coverage and gap list never contradict each other |
| catalogue | `catalog.py`, migrations 0003 and 0004 | none (seeded rows) | lookups by code and by control | the database's rows, the application's copy and the rules agree |
| database session | `db/session.py` | pool | session_scope | commit or rollback; READ COMMITTED |
| tenants, audit | `api/tenants.py`, `db/audit.py` | rows | create, log | written with what they describe |

They interact through the database only: runs and submissions through
`evidence` and `findings`, runs and workers through `outbox`, explanation
requests through `ai_explanations` and the process's connection pool. There are
no callbacks; the concurrency is that of transactions, processes and the
network.

Hard behaviours, each a hazard of `PROJECT.json` with the properties aimed at it:
a send inside an open transaction with a row lock (crash and late requests make
duplicates, timeouts race answers); check runs that read answers, read findings
and write under separate snapshots while others commit; lock waits over several
controls; a unique index and a range check as the last defence; requests that
miss the cache together, releases of different denylists sharing the cache,
failures between the two transactions of an explanation; a small pool.

## 2. Modules

| module | models | notes |
|---|---|---|
| `OutboxWorker` | `workers/outbox.py`, `notifications/webhook.py` | workers, receiver, network, clock |
| `AlertDelivery` | what an outbox promises | abstract |
| `OutboxRefinement` | `OutboxWorker` implements `AlertDelivery` | |
| `Decision` | `services/decision.py`, `services/alerts.py` | pure operators |
| `CheckRuns` | `services/checks.py`, `services/answers.py`, `db/outbox.py` | transactions, statement by statement |
| `ComplianceLedger` | what a reader of committed data is promised | abstract |
| `CheckRunsRefinement` | `CheckRuns` implements `ComplianceLedger` | |
| `Alerting` | commits of checks, the outbox and its workers together | composes `ComplianceLedger` and `OutboxWorker` |
| `Readiness` | a reader of reports beside overlapping check runs | composes with `CheckRuns` |
| `ReadinessData` | statuses, credits, weights, rounding, the gap order | pure operators |
| `Scoring` | `readiness_report` in `services/scoring.py`, row by row | |
| `Catalogue` | `catalog.py`, migrations 0003 and 0004, the question lists of the rules | data and lookups, with ASSUMEs that they agree |
| `Assessment` | a tenant answers, is checked and reads its report | composes `Decision` and `Scoring` |
| `ExplanationData` | context, key, gate, floor, replies | pure operators |
| `Explanations` | `api/explanations.py`, `explanations/`, `db/ai_explanations.py`, `ai/gemini.py` | requests, pool, releases |
| `ExplanationService` | what the endpoint promises | abstract |
| `ExplanationsRefinement` | `Explanations` implements it | |
| `MCOutboxWorker`, `MCAlerting`, `MCCheckRuns`, `MCReadiness`, `MCAssessment`, `MCExplanations` | instances for TLC | |
| `FiniteSums` | sums over finite sets | lemmas only, used by the proofs |
| `OutboxWorkerProofs`, `AlertingProofs`, `CheckRunsProofs`, `OverlapProofs`, `ReadinessProofs`, `ScoringProofs`, `ExplanationsProofs` | theorems | section 6 |

### OutboxWorker

One row per alert: `status`, `attempts`, `due` (next_attempt_at relative to the
clock: ticks until it may be claimed) and its terminal audit events. A worker is
`polling` (between ticks of its loop), `draining` (in `run_once`, between two
rows), in the middle of a row (`sending`, `accepted`: the receiver has taken the
alert in, `answered`: the send is over) or `stopped`.
`Claim` is the claim query with FOR UPDATE SKIP LOCKED; the webhook call
splits in the receiver's acceptance, its answer, the deadline and a transport
error, because a crash, the clock or another worker may come between; a request
given up may still arrive (`late`). The outcome, its audit event and the commit
are one action: nothing of them is visible before the commit. A rollback (crash
or database error) undoes the claim and leaves what the receiver saw.

### CheckRuns

`run_check` is one transaction under READ COMMITTED (no isolation level is set in
`db/session.py`), so each statement has its own snapshot and is an action:
begin, read of the answers, read of the current findings, then per control in
code order either nothing (same verdict), or close of the old finding and insert
of the new one with its alert; then commit. An UPDATE waits for a row that an
open run has closed, an INSERT waits for an open run's entry in
`uniq_findings_current`; when the other commits, the UPDATE re-evaluates its
condition (the finding is no longer current: nothing is closed, the run goes
on), the INSERT raises. `ck_findings_valid_range` rejects a close by a run that
began no later than the finding. Any error rolls everything back. `now()` is the
start of the transaction; two may have the same (`Elapse`).

### Alerting

Two halves that share one table. Check runs appear as `ComplianceLedger` promises
them, which `CheckRunsRefinement` justifies: a commit puts new verdicts and the
outbox rows of the worsened ones in place in one step. From there on the rows
are `OutboxWorker`'s, its claims, sends, retries, rollbacks, late requests and
crashes interleaved with further commits about the same control. A row is the
pair of its run and its control, which is what the idempotency key of
`db/outbox.py` (the finding's id) amounts to.

### Readiness, Scoring, Assessment, Catalogue

The report is taken apart by what can go wrong in each part. *When it is read*:
`Readiness` puts a reader beside the overlapping runs of `CheckRuns`; a report is
the one statement `_SELECT_CONTROL_STATUSES_SQL` over the committed rows, and the
history variables say which alerts came, and which controls lapsed to
`not_assessed`, since the last one. *How it is computed*: `Scoring` runs the loop
of `compute_score` row by row (`CountRow`) with its five sums, and its end with
the two guarded divisions and the separate loop of `build_gap_report`
(`Conclude`). Weights are in hundredths, as the column has them, credits in
halves, percentages in hundredths of a percent; rounding yields the nearest,
either one at a tie, so that nothing rests on how a float falls. *What it is
about*: `Assessment` feeds it the verdicts of a tenant that answers in any order
and changes its mind; it runs on the seeded catalogue itself, `Catalogue`, which
has every code, weight, display order and rule of migrations 0003 and 0004, of
`catalog.py` and of `decision.py`, and states as assumptions, which TLC
evaluates, that the three copies agree.

### Explanations

A request passes through three short transactions (tenant and answers; cache
read; cache write), each of which waits for a connection of its process's pool,
with the model call, its retries and the gate in between. A text is modelled by
what the gate looks at, together with the context it was written for, which the
program does not store: that is what `WrittenForThisGap` is about. The cache
outlives processes; a `Deploy` brings a release with its own denylist, prompt
version and model into service beside the old ones, which finish their requests.
The answers a request reads are any answers: they may have changed since any
earlier request, and since the check run. `PutUnanswered` is the commit whose
acknowledgement, or whose process, is lost.

## 3. Runs

| run | question | instance |
|---|---|---|
| `outbox_safety` | do two workers and a bad network respect the row lock, the audit trail, sent-means-received and the bound on duplicates? | 2 alerts, 2 workers, 2 attempts |
| `outbox_retry` | are budget and growing backoff window kept, does every alert settle, and is `AlertDelivery` implemented? | 1 alert, 2 workers, 3 attempts |
| `alerting` | is every worsened verdict heard of or given up on record, with no false alarm, while later runs commit, and does a worker asked to stop, stop? | 3 commits, 1 control, 1 worker |
| `failed_is_scheduled_ahead` | finding: ADR-0008 against the code | 1 alert |
| `checks_three_runs` | is the history a clean handoff with true alerts, and does nothing get worse in silence between two reports? | 3 runs, 2 submissions, 1 control, a reader |
| `checks_two_controls` | do findings agree with the answers, do locks never form a circle, is `ComplianceLedger` implemented? | 2 runs, 2 submissions, 2 controls, 2 questions |
| `checks_liveness` | does every run end? | 2 runs, 2 controls, one without a rule |
| `one_consistent_snapshot` | finding: comments against the code | 3 runs, 1 submission |
| `assessment` | do the numbers of a report follow from the verdicts, agree with each other and with the gaps, and move the right way with the answers? | the seeded catalogue: 10 controls, 9 questions |
| `explanations_safety` | is only gated, fitting text served and cached, and is `ExplanationService` implemented? | 2 requests, 3 releases, 4 sets of gaps |
| `explanations_liveness` | does every request end with a pool of one connection? | 3 requests |
| `verified_is_served` | finding: ADR-0014 against the code | 2 requests |

Every property of a passing run is broken by a mutant of a modelled definition
(`PROJECT.json`, "mutants"; in the modules they stand before the definition they
change, with a suffix: `Claimable_Unlocked`, `RangeOk_Unchecked`,
`Connections_OneTransaction`).

### What the three disagreements are

- `failed_is_scheduled_ahead`: the retry time counts from the start of the
  transaction, before the send, with a delay drawn from 0 up; a row just marked
  `failed` may be due already, and the same batch takes it again.
- `one_consistent_snapshot`: answers and findings of a run are read in two
  snapshots. Consequence seen in the model: a run that read older answers can
  replace the newer verdict of a run that overtook it, and the findings stay
  stale until the next run. `AssessedMeansCurrent` states what is true: a run
  that nothing overtook leaves the findings right.
- `verified_is_served`: a failed cache write loses the text and ends in a 500.

Two things the passing properties had to make room for are worth knowing. A send
whose transaction rolls back is not counted in `attempts`, so the receiver can
hear of an alert more often than the retry budget says: `DuplicatesAreExplained`
states the true bound. And the alert rule compares a finding with its
predecessor only, where `not_assessed` has no rank: a control that lapses to
`not_assessed` and comes back worse raises no alert. `DeteriorationIsAlerted`
states exactly this exception, and `LapsesAreStale` that it takes a run whose
answers were overtaken, answers being never taken back.

## 4. Bounds

- `MaxAttempts`, `MaxBatch`, `BackoffBase`, `BackoffCap`, `SendDeadline` are
  settings; the values make every branch happen (a last attempt, a capped and an
  uncapped window, a batch that ends by its limit and one that ends by an empty
  table).
- `HoldLimit` bounds how long a claim's transaction stays open, `SendDeadline`
  or a tick more; `Horizon` bounds how long overdue a row is told apart (order
  of the claims); `MaxRollbacks` bounds the rollbacks of one row, without which
  nothing need ever settle. Duplicates are unbounded only through rollbacks.
- Two workers suffice for every lock interference of a row (a lock has one
  holder and one rival); two alerts for order and for batches.
- Three runs on one control: one that wrote, one that replaces, one that
  overtakes or finds nothing to close. Two controls with two runs: the shortest
  lock circle. `Elapse = {1}` in the three-run instance; equal start times are
  in the two-run instance (`{0, 1}`).
- Alerting: three commits of one control are the shortest history in which a
  verdict gets worse twice, or worse, better and worse again, with the alert of
  the first still on its way; two workers are in the outbox runs.
- `Scoring` is run on the real catalogue. `ResolutionAssumption` (at most ten
  controls, the number of the seed) is needed for `ScoreAndGapsAgree`: with
  eleven, two decimals can round a gap away.
- Two requests and three releases: a miss beside a miss, a hit across releases
  with the same key and another denylist, a new key. One connection is the
  tightest pool.
- `CHECK_DEADLOCK FALSE` stands in the check-run and explanation configurations:
  runs, submissions and requests are finite sets and all end. The outbox runs
  are checked for deadlock: a worker at a bound always has a step of its own,
  and otherwise the clock ticks, also when every worker has stopped.
- Symmetry is used in safety runs only.

## 5. Fairness

- `OutboxWorker!FairSpec`: the clock ticks, and each worker's own next statement
  is eventually executed; none for the receiver, the network, crashes or
  `stop`. The code's loop is `run_forever`: it polls again after every tick and
  every error.
- `Alerting!FairASpec`: the same fairness of the workers and the clock, none for
  the checks.
- `CheckRuns!FairSpec`: WF of each run's next statement. A statement that waits
  for a lock is not enabled; PostgreSQL grants it when the holder ends.
- `Explanations!FairSpec`: WF of each request's progress. A connection that
  stays free is taken, a call is over after its deadline. Requests are finite,
  so a weakly fair wait for the pool suffices.

## 6. Proofs

TLAPS proves the following for any values of the constants that satisfy the
named assumptions of the modules (`WorkerAssumption`, `RuleAssumption`,
`CheckAssumption`, ...), which TLC evaluates in the runs. Every safety invariant
and every action property of the passing runs is among them, and every
refinement.

- `OutboxWorkerProofs`: type correctness, exclusive claims, sent-means-received,
  one terminal event, the bound on duplicates, the retry budget, the backoff
  window, the row's state machine and the refinement of `AlertDelivery`. The
  inductive invariant adds to the stated properties what a worker in the middle
  of a row knows: the row is open, its attempt number is one above the row's,
  and an `ok` outcome means the receiver has the alert. For the backoff window it
  also remembers that a window a retry was drawn from was not empty.
- `AlertingProofs`: the pipeline is an `OutboxWorker` (`PipelineIsWorker`: all of
  the above carries over), raises no false alarm, loses none (`NothingIsLost`), and
  keeps the ledger. The fact that joins the halves is that the rows of the table
  are exactly the worsened transitions, all of committed runs.
- `CheckRunsProofs`: `TypeOK`, `CleanHandoff`, `OneBeginning`,
  `AlertsTellHistory` and the refinement of `ComplianceLedger`. None of them is
  inductive. The invariant describes runs that are still open: which controls
  the loop has handled, that a close is followed by its insert before anything
  else, that what a run closes is a committed finding older than itself, that no
  two open or committed runs close the same finding (the row lock) and no two
  open runs write one control (the index entry), and that every finding an open
  run saw has a current successor if it is not current itself. The last part is
  what makes the commit step a `Publish`: the finding really replaced has the
  status the run compared with.
- `OverlapProofs`: `NoWaitingCircle`. A run waits only for a run that is
  further on, by control and within a control by whether it has closed the old
  finding; two open runs have never both closed one, because each would have
  closed the current one. The run furthest on, which exists by the least number
  principle, therefore waits for nobody. And `AssessedMeansCurrent`: of a run in
  progress that nothing overtook, the strengthening says that its answers are
  still the latest, that what it wrote or left alone follows from them, and that
  a current finding it has not seen comes from a run with the latest answers too.
- `ReadinessProofs`: `DeteriorationIsAlerted` and `LapsesAreStale`, with the
  reader's invariant that the status in force is ranked and no worse than the one
  shown, unless an alert or a lapse has come since, and the fact that a control
  with a verdict has all its questions answered, for good.
- `ScoringProofs`: types (score and coverage between 0 and 100), `GapOrder` (the
  order of the gap list is total and strict), `ScoreAndGapsAgree`, for any
  catalogue of at most ten controls and any weights the schema allows, and
  `GapsNameTheWayOut` for any rules. The loop invariant bounds each sum by what
  the rows already counted contribute, and names a row for whatever has been
  contributed, so that these need no sum over the whole catalogue; the rounding
  argument is that one gap of the least weight moves the score by more than half
  a hundredth. `AssessmentsAreReports` carries it over to the tenant of
  `Assessment`. `ReportIsReconstructable` and `AnswersMoveTheScore` do speak of
  the sums. A second invariant says that each sum is exactly the sum over the
  controls counted so far; at the end these are all. A better answer makes no
  verdict worse, so every control earns at least what it did, and rounding keeps
  the order of two parts of one whole. At a tie the model allows both roundings,
  so `NoHigher` compares equal fractions as equal and others by every pair of
  their roundings. `ReportsCanBeConcluded`: of the two guards of `compute_score`
  against a zero denominator, `assessed == 0` and a zero weight, one would do.
- `FiniteSums`: what these proofs need of sums over finite sets (adding an
  element, order, sign), about the community modules' `SumFunctionOnSet`. It is
  a recursive function on the subsets of a set, and the library's induction
  theorems, which quantify over operators, are out of the provers' reach; the
  proofs take a smallest counterexample instead (`Least`, `Smallest`), which
  exists because the order of the naturals is well-founded.
- `ExplanationsProofs`: `TypeOK`, `ServedIsSafe`, `WrittenForThisGap`,
  `CacheIsVerified`, `FirstWins` and the refinement of `ExplanationService`. The
  fact everything rests on is `KeyDetermines`: two contexts with equal keys are
  equal, although the key leaves the unsatisfied questions out, because status
  and rationale give them back (none when compliant, all of the rule's when
  non-compliant, named in the rationale otherwise). The invariant adds what a
  request in progress knows: its gap, in the edition of its own release, and
  that a text on its way to the cache passed its own gate.

Liveness itself is only model-checked (`EveryAlertSettles`,
`DeteriorationIsHeard`, `ShutdownCompletes`, `RunsEnd`, `RequestsEnd`): TLAPS
does not reason about fairness. What these rest on apart from it is proved, as a
measure that only grows and a proof that not everyone waits:

| liveness, checked | what is proved for every instance |
|---|---|
| `EveryAlertSettles` | `EveryClaimCounts`: every claim settles its row or uses up one of a bounded number of attempts and rollbacks |
| `ShutdownCompletes` | `StopIsFinal`: a worker asked to stop only moves forward along a bounded measure, unless it crashes |
| `DeteriorationIsHeard` | `NothingIsLost`: it is open, received or given up on record at every moment |
| `RunsEnd` | `RunsAdvance` (every step goes forward) and `SomeRunIsReady` (the conditions of some open run's next step hold) |
| `RequestsEnd` | `RequestsAdvance` and `PoolBlocksNotAll` |

The step from there to the liveness property needs ENABLED of the actions, which
TLAPS does not compute either; `Ready` states their conditions in full instead.
`SomeRunIsReady` includes that the query for the latest answers has a result,
which takes a latest submission to exist. `Catalogue` is data: its assumptions
are evaluated, not proved.

## 7. Abstractions and what is not modelled

- One tenant: every statement names its tenant. One webhook.
- The claim is atomic with its SELECT; a claim query that fails before it has a
  row changes nothing and is left out. `OverflowError` of the backoff for
  thousands of attempts is out of range.
- Texts, rationales and hashes: a rationale is what it names, a hash has no
  collisions, a draft is what the four checks see in it. That the catalogue's
  question wording is only changed with a new prompt version is an assumption of
  the code (`db/ai_explanations.py`, `compute_cache_key`) and of the model.
- The pool is modelled for explanation requests; runs and workers take a single
  connection each and never wait for a second one.
- Scores are exact fractions before they are rounded; the code divides floats.
  The difference is below what the properties tell apart, except at a tie, where
  both neighbours are allowed.
- Check runs that overlap may leave a mixture of verdicts from older and newer
  answers, control by control; the next run that nothing overtakes repairs it.
  That is what the code does, and what `AssessedMeansCurrent` and
  `one_consistent_snapshot` together say.
- Alerts have no order: `ORDER BY next_attempt_at` lets a fresh alert overtake
  one that waits for its retry. ADR-0008 promises none, so no property asks for
  it.
- The evaluation harness (a sequential batch over a file), prompt assembly
  (text), routing, configuration, observability and the load harness hold no
  state that a decision of the program depends on. The verification gate's
  normalisation and Arabic ratio are properties of characters, below what the
  model tells apart. See the components of `PROJECT.json`.

## 8. What is left

- The normalisation of `verification/` as an algorithm on characters, against
  the denylist matches it must not lose.
- A pool shared by explanation requests and checks in one process: today's model
  gives the pool to explanation requests only.
- The retry window as a number for every setting: that powers of two are
  positive is an induction over the exponent, so a proof that a worker always
  finds a delay to draw has to assume it.
