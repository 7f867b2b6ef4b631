---------------------------- MODULE KindleHistory ----------------------------
(***************************************************************************)
(* The Kindle release agent with two history variables, for the properties *)
(* that relate what it does now to what it did in earlier runs.  They are  *)
(* set from the step that is taken and no step depends on them.            *)
(***************************************************************************)
EXTENDS KindleRelease

VARIABLES
    spoiled, \* the last candidate that failed, and origin/main at that time
    cut      \* a run that was cut short had left its verdict unreported

Nothing == [commit |-> None, main |-> None]

Reported ==
    /\ state.phase \in {"succeeded", "failed"}
    /\ \A s \in Sinks : told[s] = Verdict(state)

HistoryInit == Init /\ spoiled = Nothing /\ cut = FALSE

Remember ==
    /\ spoiled' = IF state' # state /\ state'.phase = "failed"
                  THEN [commit |-> state'.commit, main |-> main] ELSE spoiled
    /\ cut' = IF Reported' \/ state'.phase \notin {"succeeded", "failed"}
              THEN FALSE
              ELSE IF pc # "idle" /\ pc' = "idle" /\ outcome' # "exit" THEN TRUE
              ELSE cut

HistoryNext ==
    \/ Publish /\ Remember
    \/ Start /\ Remember
    \/ Agent /\ Remember
    \/ Kill /\ Remember
    \/ Reboot /\ Remember

historyVars == <<vars, spoiled, cut>>

HistorySpec == HistoryInit /\ [][HistoryNext]_historyVars

\* Unless a run was cut short between persisting its verdict and reporting it,
\* a run that returns leaves either both sinks with the verdict of state.json or
\* a degradation in it that makes the next run try again.
VerdictReported ==
    pc = "idle" /\ outcome = "exit" /\ ~cut => Reported \/ state.degraded

\* What the name of a test of recover_failed_attempt says of it: a candidate
\* that failed is quarantined until origin/main advances.
QuarantinedUntilMainAdvances ==
    [][state' # state /\ state'.phase = "observed"
         => spoiled # [commit |-> state'.commit, main |-> main]]_historyVars
=============================================================================
