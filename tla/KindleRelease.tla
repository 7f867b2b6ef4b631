---------------------------- MODULE KindleRelease ----------------------------
(***************************************************************************)
(* The Kindle release agent of the discovery host                          *)
(* (src/modules/hosts/discovery/_kindle-release-agent.py): an hourly       *)
(* oneshot that notices a new image pin on origin/main, verifies and       *)
(* mirrors the image, moves the checkout to the commit, recreates the      *)
(* container, validates it, and rolls back when a step after activation    *)
(* fails.  Each external effect and each durable write is a step of its    *)
(* own, so that a kill, a reboot or a failing call can fall between any    *)
(* two of them.                                                            *)
(*                                                                         *)
(* A commit of origin/main is its position in the history, from the one    *)
(* that is checked out when the agent is first enabled; a release stands   *)
(* for the (version, digest) pair of a pin.  Time stamps and failure texts *)
(* are left out.                                                           *)
(***************************************************************************)
EXTENDS Integers

CONSTANTS
    N,            \* origin/main has the commits 1..N; bounds how far it grows
    Releases,     \* the (version, digest) pairs a Kindle pin can name
    NoRelease,    \* in place of a release: no Kindle container runs
    Pinned,       \* Pinned[c]: the release the compose file of commit c pins
    Clean,        \* the commits that change nothing but that compose file
    Signed,       \* the releases cosign and the registry's tag vouch for
    Healthy,      \* the releases whose container passes the runtime gates
    StartsPinned, \* whether .deploy-commit exists before the first run
    Drills,       \* {FALSE}, or BOOLEAN when the failure drill may be run too
    Mishaps,      \* the kinds of mishap that may happen
    MaxMishaps    \* bounds how many of them do

Commits == 1 .. N
None == 0

ASSUME KindleAssumption ==
    /\ N \in Nat \ {0}
    /\ NoRelease \notin Releases
    /\ Pinned \in [Commits -> Releases]
    /\ Clean \subseteq Commits
    /\ Signed \subseteq Releases
    /\ Healthy \subseteq Releases
    /\ StartsPinned \in BOOLEAN
    /\ Drills \subseteq BOOLEAN /\ Drills # {}
    /\ Mishaps \subseteq {"call", "disk", "kill", "reboot"}
    /\ MaxMishaps \in Nat

ForwardPhases == {"observed", "verified", "mirrored", "activated",
                  "recreated", "validated", "succeeded"}
RollbackPhases == {"rollback-activated", "rollback-recreated",
                   "rollback-validated", "failed"}
\* The phases whose failure begin_rollback accepts.
Revertible == {"activated", "recreated", "validated", "succeeded"}
Sinks == {"github", "discord"}

\* The successor in either of the two phase chains.
Successor(p) ==
    CASE p = "observed"  -> "verified"
      [] p = "verified"  -> "mirrored"
      [] p = "mirrored"  -> "activated"
      [] p = "activated" -> "recreated"
      [] p = "recreated" -> "validated"
      [] p = "validated" -> "succeeded"
      [] p = "rollback-activated" -> "rollback-recreated"
      [] p = "rollback-recreated" -> "rollback-validated"
      [] p = "rollback-validated" -> "failed"
      [] OTHER -> p

\* A validated state.json; "absent" is the phase of a file that does not exist.
Snapshot ==
    [commit   : Commits \cup {None},
     phase    : ForwardPhases \cup RollbackPhases \cup {"absent"},
     previous : Commits \cup {None},
     rollback : {"none", "succeeded", "failed"},
     degraded : BOOLEAN]

Fresh(c, p, prev) == [commit |-> c, phase |-> p, previous |-> prev,
                      rollback |-> "none", degraded |-> FALSE]
NoSnapshot == Fresh(None, "absent", None)
NoVerdict == [commit |-> None, phase |-> "absent"]

VARIABLES
    main,      \* the newest commit of origin/main
    pin,       \* the commit .deploy-commit names, or None
    tree,      \* HEAD of the servarr checkout
    live,      \* the release of the running container, or NoRelease
    harbor,    \* the releases Harbor holds
    state,     \* state.json
    metric,    \* the snapshot the Prometheus textfile shows
    told,      \* per sink, the last verdict delivered to it
    pc,        \* where the agent is, "idle" between runs
    mode,      \* the function that is running, and so who catches a failure
    current,   \* the run's own snapshot
    initial,   \* the snapshot the run loaded
    drill,     \* whether the run is the failure drill (FAIL_AFTER_RECREATE)
    errors,    \* whether a sink refused this run's report
    outcome,   \* how the last run ended
    mishaps    \* how many mishaps there have been

world   == <<main, pin, tree, live, harbor>>
durable == <<state, metric>>
run     == <<pc, mode, current, initial, drill, errors, outcome>>
vars    == <<world, durable, told, run, mishaps>>

-----------------------------------------------------------------------------
(* What the external commands find. *)

\* observe_candidate: the oldest commit after c whose pin differs from c's.
Candidates(c) == {d \in Commits : c < d /\ d <= main /\ Pinned[d] # Pinned[c]}
\* Mutant: main's newest change, which skips the releases before it.
NewestCandidate(d, c) ==
    d \in {e \in Commits : c < e /\ e <= main /\ Pinned[e] # Pinned[c]}
    /\ \A e \in Commits : c < e /\ e <= main /\ Pinned[e] # Pinned[c] => e <= d

IsCandidate(d, c) == d \in Candidates(c) /\ \A e \in Candidates(c) : d <= e

\* verify_active_commit compares the checkout's Kindle pin only.
CheckedOut(c) == Pinned[tree] = Pinned[c]

\* validate_runtime
Serving(c) == live = Pinned[c] /\ live \in Healthy

\* Mutants: one of the two chains is resumed without looking at the container.
RevalidatesCheckoutOnly(s) ==
    /\ s.phase = "observed" =>
          IsCandidate(s.commit, s.previous) /\ s.commit \in Clean
    /\ s.phase \in {"verified", "mirrored"} => Pinned[s.commit] \in Signed
    /\ s.phase = "mirrored" => Pinned[s.commit] \in harbor
    /\ s.phase \in Revertible => CheckedOut(s.commit)
    /\ s.phase \in RollbackPhases => s.previous # None /\ CheckedOut(s.previous)
    /\ s.phase \in RollbackPhases \ {"rollback-activated"} => Serving(s.previous)
RevalidatesForwardOnly(s) ==
    /\ s.phase = "observed" =>
          IsCandidate(s.commit, s.previous) /\ s.commit \in Clean
    /\ s.phase \in {"verified", "mirrored"} => Pinned[s.commit] \in Signed
    /\ s.phase = "mirrored" => Pinned[s.commit] \in harbor
    /\ s.phase \in Revertible => CheckedOut(s.commit)
    /\ s.phase \in Revertible \ {"activated"} => Serving(s.commit)
    /\ s.phase \in RollbackPhases => s.previous # None /\ CheckedOut(s.previous)

\* SystemOperations.revalidate: what a run checks again before it goes on.
Revalidates(s) ==
    /\ s.phase = "observed" =>
          IsCandidate(s.commit, s.previous) /\ s.commit \in Clean
    /\ s.phase \in {"verified", "mirrored"} => Pinned[s.commit] \in Signed
    /\ s.phase = "mirrored" => Pinned[s.commit] \in harbor
    /\ s.phase \in Revertible => CheckedOut(s.commit)
    /\ s.phase \in Revertible \ {"activated"} => Serving(s.commit)
    /\ s.phase \in RollbackPhases => s.previous # None /\ CheckedOut(s.previous)
    /\ s.phase \in RollbackPhases \ {"rollback-activated"} => Serving(s.previous)

\* The phase the run works towards: run_forward and the rollback plan follow
\* their chains, run_rollback starts with "rollback-activated".
Goal == IF mode = "rollback" /\ current.phase \in ForwardPhases
        THEN "rollback-activated" ELSE Successor(current.phase)
Target == IF Goal \in RollbackPhases THEN current.previous ELSE current.commit

\* Whether the call the run is about to make can succeed as things stand.
GatePasses ==
    /\ pc = "adopt" => /\ Pinned[tree] \in Signed \cap harbor
                       /\ Serving(tree)
    /\ pc = "revalidate" => Revalidates(current)
    /\ pc = "observe" => \A d \in Candidates(current.commit) :
                            IsCandidate(d, current.commit) => d \in Clean
    /\ pc = "execute" =>
          /\ Goal = "verified"  => Pinned[current.commit] \in Signed
          /\ Goal = "validated" => ~drill /\ Serving(current.commit)
          /\ Goal = "rollback-validated" => Serving(current.previous)

Mishap(kind) == /\ kind \in Mishaps
                /\ mishaps < MaxMishaps
                /\ mishaps' = mishaps + 1

-----------------------------------------------------------------------------
Init ==
    /\ main = 1 /\ tree = 1
    /\ pin = IF StartsPinned THEN 1 ELSE None
    /\ live = Pinned[1]
    /\ harbor \in {{}, {Pinned[1]}}
    /\ state = NoSnapshot /\ metric = NoSnapshot
    /\ told = [s \in Sinks |-> NoVerdict]
    /\ pc = "idle" /\ mode = "none"
    /\ current = NoSnapshot /\ initial = NoSnapshot
    /\ drill = FALSE /\ errors = FALSE
    /\ outcome = "none" /\ mishaps = 0

\* A merge to origin/main.
Publish ==
    /\ main < N
    /\ main' = main + 1
    /\ UNCHANGED <<pin, tree, live, harbor, durable, told, run, mishaps>>

\* The run is over: execute_once returned, raised or was killed.
EndRun(how) ==
    /\ pc' = "idle" /\ mode' = "none"
    /\ current' = NoSnapshot /\ initial' = NoSnapshot
    /\ drill' = FALSE /\ errors' = FALSE
    /\ outcome' = how

\* Mutant: a failed attempt is resumed like the other rollback phases.
StartResumesFailed ==
    /\ pc = "idle"
    /\ pc' = IF state.phase = "absent" THEN "adopt" ELSE "revalidate"
    /\ mode' = IF state.phase = "absent" THEN "adopt"
               ELSE IF state.phase = "succeeded" THEN "poll"
               ELSE IF state.phase \in ForwardPhases THEN "forward"
               ELSE "rollback"
    /\ current' = state /\ initial' = state
    /\ drill' \in Drills /\ errors' = FALSE
    /\ outcome' = "running"
    /\ UNCHANGED <<world, durable, told, mishaps>>

\* execute_once loads state.json and picks the function for its phase.  The
\* lock is held for the whole run, so one run excludes another.
Start ==
    /\ pc = "idle"
    /\ pc' = IF state.phase = "absent" THEN "adopt" ELSE "revalidate"
    /\ mode' = IF state.phase = "absent" THEN "adopt"
               ELSE IF state.phase = "succeeded" THEN "poll"
               ELSE IF state.phase = "failed" THEN "recover"
               ELSE IF state.phase \in ForwardPhases THEN "forward"
               ELSE "rollback"
    /\ current' = state /\ initial' = state
    /\ drill' \in Drills /\ errors' = FALSE
    /\ outcome' = "running"
    /\ UNCHANGED <<world, durable, told, mishaps>>

\* adopt_live_baseline: the live commit becomes the first baseline when every
\* read-only gate passes.
Adopt ==
    /\ pc = "adopt" /\ GatePasses
    /\ current' = Fresh(tree, "succeeded", None)
    /\ pc' = "write"
    /\ UNCHANGED <<world, durable, told, mode, initial, drill, errors, outcome,
                   mishaps>>

Revalidate ==
    /\ pc = "revalidate" /\ GatePasses
    /\ pc' = "reconcile"
    /\ UNCHANGED <<world, durable, told, mode, current, initial, drill, errors,
                   outcome, mishaps>>

\* Mutant: a stale metric is left as it is.
ReconcileNothing ==
    /\ pc = "reconcile"
    /\ pc' = IF mode = "poll" THEN "observe"
             ELSE IF mode = "recover" THEN "write" ELSE "execute"
    /\ current' = IF mode = "recover"
                  THEN [current EXCEPT !.rollback = "succeeded"] ELSE current
    /\ UNCHANGED <<world, durable, told, mode, initial, drill, errors, outcome,
                   mishaps>>

\* after_revalidate: reconcile_metric, then what each function does next;
\* recover_failed_attempt first records that the rollback did succeed.
Reconcile ==
    /\ pc = "reconcile"
    /\ metric' = current
    /\ pc' = IF mode = "poll" THEN "observe"
             ELSE IF mode = "recover" THEN "write" ELSE "execute"
    /\ current' = IF mode = "recover"
                  THEN [current EXCEPT !.rollback = "succeeded"] ELSE current
    /\ UNCHANGED <<world, state, told, mode, initial, drill, errors, outcome,
                   mishaps>>

\* poll_release
ObserveNothing ==
    /\ pc = "observe" /\ Candidates(current.commit) = {}
    /\ pc' = "report"
    /\ UNCHANGED <<world, durable, told, mode, current, initial, drill, errors,
                   outcome, mishaps>>

\* Mutant: the release to go back to is not recorded.
ObserveWithoutPrevious ==
    /\ pc = "observe" /\ GatePasses
    /\ \E d \in Candidates(current.commit) :
          /\ IsCandidate(d, current.commit)
          /\ current' = Fresh(d, "observed", None)
    /\ pc' = "write"
    /\ UNCHANGED <<world, durable, told, mode, initial, drill, errors, outcome,
                   mishaps>>

ObserveCandidate ==
    /\ pc = "observe" /\ GatePasses
    /\ \E d \in Candidates(current.commit) :
          /\ IsCandidate(d, current.commit)
          /\ current' = Fresh(d, "observed", current.commit)
    /\ pc' = "write"
    /\ UNCHANGED <<world, durable, told, mode, initial, drill, errors, outcome,
                   mishaps>>

-----------------------------------------------------------------------------
(* SystemOperations.execute, one action per kind of effect.  The phase is
   advanced in memory when the effect is done, and persisted afterwards. *)

Advance ==
    /\ current' = [current EXCEPT
                      !.phase = Goal,
                      !.rollback = IF Goal = "failed" THEN "succeeded" ELSE @]
    /\ pc' = "write"
    /\ UNCHANGED <<mode, initial, drill, errors, outcome>>

\* Mutant: the result of cosign and skopeo is not looked at.
VerifyUnchecked ==
    /\ pc = "execute" /\ Goal = "verified"
    /\ Advance
    /\ UNCHANGED <<world, durable, told, mishaps>>

Verify ==
    /\ pc = "execute" /\ Goal = "verified" /\ GatePasses
    /\ Advance
    /\ UNCHANGED <<world, durable, told, mishaps>>

Mirror ==
    /\ pc = "execute" /\ Goal = "mirrored"
    /\ harbor' = harbor \cup {Pinned[current.commit]}
    /\ Advance
    /\ UNCHANGED <<main, pin, tree, live, durable, told, mishaps>>

\* activate_revision is two commands: servarr-exact-revision pin-v2 ...
PinRevision ==
    /\ pc = "execute" /\ Goal \in {"activated", "rollback-activated"}
    /\ pin' = Target
    /\ pc' = "pull"
    /\ UNCHANGED <<main, tree, live, harbor, durable, told, mode, current,
                   initial, drill, errors, outcome, mishaps>>

\* ... and a restart of servarr-pull, which resets the checkout to the pin.
PullRevision ==
    /\ pc = "pull"
    /\ tree' = pin
    /\ Advance
    /\ UNCHANGED <<main, pin, live, harbor, durable, told, mishaps>>

Recreate ==
    /\ pc = "execute" /\ Goal \in {"recreated", "rollback-recreated"}
    /\ live' = Pinned[tree]
    /\ Advance
    /\ UNCHANGED <<main, pin, tree, harbor, durable, told, mishaps>>

Validate ==
    /\ pc = "execute" /\ Goal \in {"validated", "rollback-validated"}
    /\ GatePasses
    /\ Advance
    /\ UNCHANGED <<world, durable, told, mishaps>>

\* Mutant: the terminal snapshot is reported before it is persisted.
ConcludeUnpersisted ==
    /\ pc = "execute" /\ Goal \in {"succeeded", "failed"}
    /\ current' = [current EXCEPT !.phase = Goal]
    /\ pc' = "report"
    /\ UNCHANGED <<world, durable, told, mode, initial, drill, errors, outcome,
                   mishaps>>

\* "succeeded" and "failed" have no effect of their own.
Conclude ==
    /\ pc = "execute" /\ Goal \in {"succeeded", "failed"}
    /\ Advance
    /\ UNCHANGED <<world, durable, told, mishaps>>

-----------------------------------------------------------------------------
(* persist_snapshot writes state.json, then the metric; what follows depends
   on the function that called it. *)

WriteState ==
    /\ pc = "write"
    /\ state' = current
    /\ pc' = "metric"
    /\ UNCHANGED <<world, metric, told, mode, current, initial, drill, errors,
                   outcome, mishaps>>

\* run_forward, run_rollback and resume_execution go on until a terminal phase.
AfterPhase ==
    /\ mode \in {"forward", "rollback"}
    /\ pc' = IF current.phase \in {"succeeded", "failed"}
             THEN "report" ELSE "execute"
    /\ UNCHANGED <<mode, current, initial, drill, errors, outcome>>

\* poll_release hands the observed candidate to run_forward.
AfterObserve ==
    /\ mode = "poll"
    /\ mode' = "forward" /\ pc' = "revalidate"
    /\ UNCHANGED <<current, initial, drill, errors, outcome>>

\* recover_failed_attempt persists the previous release as the new baseline.
AfterRecovery ==
    /\ mode = "recover" /\ current.phase = "failed"
    /\ current' = Fresh(current.previous, "succeeded", None)
    /\ pc' = "write"
    /\ UNCHANGED <<mode, initial, drill, errors, outcome>>

AfterBaseline ==
    /\ \/ mode \in {"adopt", "handler"}
       \/ mode = "recover" /\ current.phase = "succeeded"
    /\ pc' = "report"
    /\ UNCHANGED <<mode, current, initial, drill, errors, outcome>>

WriteMetric ==
    /\ pc = "metric"
    /\ metric' = current
    /\ \/ AfterPhase
       \/ AfterObserve
       \/ AfterRecovery
       \/ AfterBaseline
       \/ mode = "report" /\ EndRun("exit")
    /\ UNCHANGED <<world, state, told, mishaps>>

-----------------------------------------------------------------------------
(* execute_once reports a result that is new or whose report failed before;
   report_terminal tells both sinks and persists a change of degradation. *)

\* The report of a degraded snapshot is made as if it were not degraded.
Verdict(s) == [commit |-> s.commit, phase |-> s.phase]

Report ==
    /\ pc = "report"
    /\ initial.phase = "absent" \/ current # initial \/ initial.degraded
    /\ pc' = "github" /\ mode' = "report"
    /\ UNCHANGED <<world, durable, told, current, initial, drill, errors,
                   outcome, mishaps>>

ReportNothing ==
    /\ pc = "report"
    /\ initial.phase # "absent" /\ current = initial /\ ~initial.degraded
    /\ EndRun("exit")
    /\ UNCHANGED <<world, durable, told, mishaps>>

\* Each sink is told, whatever became of the other.
Deliver(sink, next) ==
    /\ pc = sink
    /\ told' = [told EXCEPT ![sink] = Verdict(current)]
    /\ pc' = next
    /\ UNCHANGED <<world, durable, mode, current, initial, drill, errors,
                   outcome, mishaps>>

\* Mutant: the failure of a sink is forgotten.
DeliveryFailsSilently(sink, next) ==
    /\ pc = sink
    /\ Mishap("call")
    /\ pc' = next
    /\ UNCHANGED <<world, durable, told, mode, current, initial, drill, errors,
                   outcome>>

\* The request may have arrived although its answer did not.
DeliveryFails(sink, next) ==
    /\ pc = sink
    /\ Mishap("call")
    /\ told' \in {told, [told EXCEPT ![sink] = Verdict(current)]}
    /\ errors' = TRUE
    /\ pc' = next
    /\ UNCHANGED <<world, durable, mode, current, initial, drill, outcome>>

Settle ==
    /\ pc = "settle"
    /\ \/ /\ errors \/ current.degraded
          /\ current' = [current EXCEPT !.degraded = errors]
          /\ pc' = "write"
          /\ UNCHANGED <<mode, initial, drill, errors, outcome>>
       \/ /\ ~errors /\ ~current.degraded
          /\ EndRun("exit")
    /\ UNCHANGED <<world, durable, told, mishaps>>

-----------------------------------------------------------------------------
(* Failures. *)

\* What may be left of the effect that is under way when it is cut short.
PartialEffect ==
    /\ harbor' \in IF pc = "execute" /\ Goal = "mirrored"
                   THEN {harbor, harbor \cup {Pinned[current.commit]}}
                   ELSE {harbor}
    /\ pin' \in IF pc = "execute" /\ Goal \in {"activated", "rollback-activated"}
                THEN {pin, Target} ELSE {pin}
    /\ tree' \in IF pc = "pull" THEN {tree, pin} ELSE {tree}
    /\ live' \in IF pc = "execute" /\ Goal \in {"recreated", "rollback-recreated"}
                 THEN {live, Pinned[tree], NoRelease} ELSE {live}
    /\ main' = main

\* The except clauses of run_rollback and resume_execution.
Handle ==
    /\ mode' = "handler"
    /\ current' = [current EXCEPT !.phase = "failed", !.rollback = "failed"]
    /\ pc' = "write"
    /\ UNCHANGED <<initial, drill, errors, outcome>>

\* Mutant: the failure is raised as it is before activation.
RaiseInstead == EndRun("raised")

\* The except clause of run_forward.
BeginRollback ==
    /\ mode' = "rollback"
    /\ pc' = "execute"
    /\ UNCHANGED <<current, initial, drill, errors, outcome>>

\* A command fails: because the gate does not pass, or by mishap.
CallFails ==
    /\ pc \in {"adopt", "revalidate", "observe", "execute", "pull"}
    /\ pc = "execute" => Goal \notin {"succeeded", "failed"}
    /\ IF GatePasses THEN Mishap("call") ELSE UNCHANGED mishaps
    /\ PartialEffect
    /\ \/ mode = "rollback" /\ Handle
       \/ mode = "forward" /\ current.phase \in Revertible /\ BeginRollback
       \/ mode = "forward" /\ current.phase \notin Revertible /\ EndRun("raised")
       \/ mode \in {"adopt", "poll", "recover"} /\ EndRun("raised")
    /\ UNCHANGED <<durable, told>>

\* A write raises, before or after the rename took place.  The writes of
\* run_forward are outside its try statement.
WriteFails ==
    /\ pc \in {"reconcile", "write", "metric"}
    /\ Mishap("disk")
    /\ state' \in IF pc = "write" THEN {state, current} ELSE {state}
    /\ metric' \in IF pc = "write" THEN {metric} ELSE {metric, current}
    /\ \/ mode = "rollback" /\ Handle
       \/ mode # "rollback" /\ EndRun("raised")
    /\ UNCHANGED <<world, told>>

\* TimeoutStartSec, an OOM kill or a stop; the commands it had started finish
\* or are killed before the next run.
Kill ==
    /\ pc # "idle"
    /\ Mishap("kill")
    /\ PartialEffect
    /\ EndRun("killed")
    /\ UNCHANGED <<durable, told>>

\* At boot servarr-pull moves the checkout to the pin, or to origin/main when
\* there is none, and the compose unit starts the container from it; either
\* may fail.
Reboot ==
    /\ pc = "idle"
    /\ Mishap("reboot")
    /\ tree' \in {tree, IF pin # None THEN pin ELSE main}
    /\ live' \in {live, Pinned[tree'], NoRelease}
    /\ UNCHANGED <<main, pin, harbor, durable, told, run>>

Agent ==
    \/ Adopt \/ Revalidate \/ Reconcile \/ ObserveNothing \/ ObserveCandidate
    \/ Verify \/ Mirror \/ PinRevision \/ PullRevision \/ Recreate \/ Validate
    \/ Conclude \/ WriteState \/ WriteMetric \/ Report \/ ReportNothing
    \/ Deliver("github", "discord") \/ Deliver("discord", "settle") \/ Settle
    \/ CallFails \/ WriteFails
    \/ DeliveryFails("github", "discord") \/ DeliveryFails("discord", "settle")

Next == Publish \/ Start \/ Agent \/ Kill \/ Reboot

Spec == Init /\ [][Next]_vars

\* A host that is not rebooted: the timer starts a run again and again, and a
\* run goes on until it ends.  (After a reboot the agent may be stuck for good:
\* see SucceededSurvivesBoot.)
Undisturbed == Publish \/ Start \/ Agent \/ Kill
FairSpec ==
    Init /\ [][Undisturbed]_vars /\ WF_vars(Start) /\ WF_vars(Agent)

-----------------------------------------------------------------------------
(* Properties. *)

\* What validate_state and the callers of persist together promise of a
\* snapshot: only a baseline has no release to go back to.
SnapshotOK(s) ==
    /\ s \in Snapshot
    /\ s.phase = "absent" <=> s.commit = None
    /\ s.phase \notin {"absent", "succeeded"} => s.previous # None

\* Every variable keeps its type, and every snapshot is one that a later run
\* can load: an attempt under way always knows the release to go back to,
\* which run_rollback and recover_failed_attempt dereference unchecked.
TypeOK ==
    /\ main \in Commits /\ tree \in Commits /\ tree <= main
    /\ pin \in Commits \cup {None} /\ pin <= main
    /\ live \in Releases \cup {NoRelease}
    /\ harbor \subseteq Releases
    /\ SnapshotOK(state) /\ metric \in Snapshot
    /\ told \in [Sinks -> [commit : Commits \cup {None},
                           phase : {"absent", "succeeded", "failed"}]]
    /\ pc \in {"idle", "adopt", "revalidate", "reconcile", "observe", "execute",
              "pull", "write", "metric", "report", "github", "discord", "settle"}
    /\ mode \in {"none", "adopt", "poll", "recover", "forward", "rollback",
                "handler", "report"}
    /\ SnapshotOK(current) /\ SnapshotOK(initial)
    /\ drill \in BOOLEAN /\ errors \in BOOLEAN
    /\ outcome \in {"none", "running", "exit", "raised", "killed"}
    /\ mishaps \in Nat

Vetted(c) == Pinned[c] \in Signed \cap harbor

\* Once there is a baseline, the revision that .deploy-commit names, and so the
\* one that every boot starts, carries a release that was verified and is in
\* Harbor, wherever an attempt was cut short or rolled back.
PinVetted == state.phase # "absent" /\ pin # None => Vetted(pin)

\* A run that returns has a terminal snapshot, and the metric shows it: a
\* metric left behind by a cut in persist_snapshot is repaired by the next run
\* that returns, and is never ahead of state.json.
CleanExitProjects ==
    pc = "idle" /\ outcome = "exit" =>
        metric = state /\ state.phase \in {"succeeded", "failed"}

\* Whenever "succeeded" is made durable (a promotion, an adopted baseline, a
\* recovered one), that commit's release is checked out and serves, although
\* what was validated lies several steps, and perhaps runs, back.
SucceededIsLive ==
    [][state' # state /\ state'.phase = "succeeded"
         => CheckedOut(state'.commit) /\ Serving(state'.commit)]_vars

\* "failed" is made durable with a succeeded rollback only while the previous
\* release is checked out and serves.
RollbackRestores ==
    [][state' # state /\ state'.phase = "failed" /\ state'.rollback = "succeeded"
         => CheckedOut(state'.previous) /\ Serving(state'.previous)]_vars

\* Nobody is told a verdict that a crash could still undo: what a sink is told
\* is what state.json says already.
VerdictDurable ==
    [][\A s \in Sinks : told'[s] # told[s] => told'[s] = Verdict(state)]_vars

\* An attempt that got as far as activation reaches a verdict, whatever fails
\* from then on: it is promoted, or it is declared failed.
AttemptReachesVerdict ==
    state.phase \in (Revertible \ {"succeeded"}) \cup RollbackPhases
        ~> state.phase \in {"succeeded", "failed"}

\* After a completed rollback the previous release becomes the baseline again,
\* so that polling goes on.
RolledBackRecovers ==
    state.phase = "failed" /\ state.rollback = "succeeded"
        ~> state.phase = "succeeded"

\* What verify_active_commit asserts of a succeeded snapshot ("active Kindle
\* image mismatch for recorded commit") still holds after the next boot.
SucceededSurvivesBoot ==
    state.phase = "succeeded" /\ pin # None => Pinned[pin] = Pinned[state.commit]

-----------------------------------------------------------------------------
(* Refinement: state.json alone says what the baseline and the attempt are. *)

Baseline == IF state.phase \in {"absent", "succeeded"}
            THEN state.commit ELSE state.previous
Attempt == IF state.phase \in {"absent", "succeeded"}
           THEN None ELSE state.commit

Promise == INSTANCE KindlePromotion
               WITH serving <- live, baseline <- Baseline, attempt <- Attempt

\* The agent implements the promise of KindlePromotion: releases are attempted
\* one at a time and in history order, and the baseline moves only as promised,
\* through every kill, reboot and failing call.
PromotesInOrder == Promise!Spec
=============================================================================
