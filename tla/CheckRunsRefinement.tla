------------------------- MODULE CheckRunsRefinement -------------------------
(* Concurrent run_check transactions implement ComplianceLedger. *)
EXTENDS CheckRuns

CurrentVerdicts ==
  [c \in Controls |-> IF SeenNow(c) = NoRun THEN Nothing ELSE wrote[SeenNow(c)][c]]

PublishedRuns == {r \in Runs : pc[r] = "committed"}

\* The committed rows of the outbox.
RaisedAlerts ==
  UNION {{<<r, c>> : c \in enqueued[r]} : r \in PublishedRuns}

Ledger == INSTANCE ComplianceLedger
            WITH current <- CurrentVerdicts, published <- PublishedRuns,
                 alerts <- RaisedAlerts

\* However the statements of overlapping runs and submissions interleave, and
\* whichever of them fail, the committed tables change by whole runs, each with
\* exactly the alerts its worsened verdicts call for.
ImplementsLedger == Ledger!Spec
=============================================================================
