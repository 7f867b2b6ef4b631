------------------------- MODULE KindleReleaseProofs -------------------------
(***************************************************************************)
(* What holds of the Kindle release agent, and of its reports over any     *)
(* number of runs, for every history, every set of releases and any number *)
(* of mishaps.                                                             *)
(***************************************************************************)
EXTENDS KindleHistory, TLAPS

-----------------------------------------------------------------------------
(* The inductive invariant. *)

\* The next release after c in history order, whatever main is by now.
Follows(d, c) ==
    /\ c < d /\ d <= main
    /\ Pinned[d] # Pinned[c]
    /\ \A e \in Commits : c < e /\ e < d => Pinned[e] = Pinned[c]

\* What a snapshot's phase proves of the registry, Harbor and the history.
\* None of it can be undone.
Sound(s) ==
    /\ s.commit <= main
    /\ s.phase \notin {"absent", "observed"} => Pinned[s.commit] \in Signed
    /\ s.phase \notin {"absent", "observed", "verified"}
          => Pinned[s.commit] \in harbor
    /\ s.previous # None => Vetted(s.previous)
    /\ s.phase \notin {"absent", "succeeded"} => Follows(s.commit, s.previous)

SoundInv == Sound(state) /\ Sound(current)

\* Before there is a baseline .deploy-commit is as the host was set up.
PinInv ==
    /\ PinVetted
    /\ state.phase = "absent" => pin \in {None, tree}
    /\ state.phase = "absent" => mode \in {"none", "adopt"}
    /\ mode = "adopt" /\ pc = "write" => current.commit = tree

\* Which function runs at which place, on a snapshot in which phase.
ControlInv ==
    /\ pc = "idle" <=> mode = "none"
    /\ pc = "idle" => current = NoSnapshot
    /\ pc # "idle" => outcome = "running"
    /\ pc = "adopt" => mode = "adopt" /\ current.phase = "absent"
    /\ pc \in {"revalidate", "reconcile"} =>
          \/ mode = "poll" /\ current.phase = "succeeded"
          \/ mode = "recover" /\ current.phase = "failed"
          \/ mode = "forward" /\ current.phase \in ForwardPhases \ {"succeeded"}
          \/ mode = "rollback" /\ current.phase \in RollbackPhases \ {"failed"}
    /\ pc = "observe" => mode = "poll" /\ current.phase = "succeeded"
    /\ pc \in {"execute", "pull"} =>
          \/ mode = "forward" /\ current.phase \in ForwardPhases \ {"succeeded"}
          \/ /\ mode = "rollback"
             /\ current.phase \in (Revertible \cup RollbackPhases)
                                     \ {"succeeded", "failed"}
    /\ pc = "pull" => /\ Goal \in {"activated", "rollback-activated"}
                      /\ pin = Target
    /\ pc \in {"write", "metric"} =>
          \/ mode = "adopt" /\ current.phase = "succeeded"
          \/ mode = "poll" /\ current.phase = "observed"
          \/ /\ mode = "recover"
             /\ \/ current.phase = "succeeded"
                \/ current.phase = "failed" /\ current.rollback = "succeeded"
          \/ mode = "forward" /\ current.phase \in ForwardPhases \ {"observed"}
          \/ mode = "rollback" /\ current.phase \in RollbackPhases
          \/ mode = "handler" /\ current.phase = "failed"
          \/ mode = "report" /\ current.phase \in {"succeeded", "failed"}
    /\ pc \in {"report", "github", "discord", "settle"} =>
          /\ current.phase \in {"succeeded", "failed"}
          /\ pc # "report" => mode = "report"
          /\ mode # "none"

\* The run's snapshot is state.json, except while it is being written.
SyncInv ==
    /\ pc \notin {"idle", "write"} => state = current
    /\ pc \in {"observe", "report", "github", "discord", "settle"}
          => metric = state

\* What a verdict says of the host.
VerdictTrue(s) ==
    /\ s.phase = "succeeded" => CheckedOut(s.commit) /\ Serving(s.commit)
    /\ s.phase = "failed" /\ s.rollback = "succeeded"
          => CheckedOut(s.previous) /\ Serving(s.previous)

\* What the run has established about the checkout and the container.
LiveInv ==
    /\ pc = "reconcile" =>
          /\ current.phase \in Revertible => CheckedOut(current.commit)
          /\ current.phase \in Revertible \ {"activated"}
                => Serving(current.commit)
          /\ current.phase \in RollbackPhases => CheckedOut(current.previous)
          /\ current.phase \in RollbackPhases \ {"rollback-activated"}
                => Serving(current.previous)
    /\ pc \in {"execute", "write", "metric"} /\ mode = "forward" =>
          /\ current.phase \in Revertible => CheckedOut(current.commit)
          /\ current.phase \in {"validated", "succeeded"}
                => Serving(current.commit)
    /\ pc \in {"execute", "write", "metric"} /\ mode = "rollback" =>
          /\ current.phase \in RollbackPhases => CheckedOut(current.previous)
          /\ current.phase \in {"rollback-validated", "failed"}
                => Serving(current.previous)
    /\ pc \in {"observe", "write", "metric", "report", "github", "discord",
               "settle"} => VerdictTrue(current)

IInv == /\ TypeOK /\ SoundInv /\ PinInv /\ ControlInv
        /\ SyncInv /\ LiveInv /\ CleanExitProjects

-----------------------------------------------------------------------------
(* Facts about snapshots and about the operators the actions share. *)

\* The snapshot of a state.json that does not exist is well-formed and claims
\* nothing (load_state returns None).
LEMMA EmptyOK ==
    ASSUME main \in Commits
    PROVE  SnapshotOK(NoSnapshot) /\ Sound(NoSnapshot)
  BY KindleAssumption DEF SnapshotOK, Sound, Snapshot, NoSnapshot, Fresh,
     Commits, None, ForwardPhases, RollbackPhases

\* A fresh snapshot in a phase of an attempt, or of a baseline, is well-formed.
LEMMA FreshOK ==
    ASSUME NEW c \in Commits, NEW prev \in Commits \cup {None}, NEW p,
           \/ p = "succeeded"
           \/ p = "observed" /\ prev # None
    PROVE  SnapshotOK(Fresh(c, p, prev))
  BY KindleAssumption DEF SnapshotOK, Snapshot, Fresh, Commits, None,
     ForwardPhases, RollbackPhases

\* What a sink is told of a terminal snapshot has the type of a verdict.
LEMMA VerdictOK ==
    ASSUME NEW s, SnapshotOK(s), s.phase \in {"succeeded", "failed"}
    PROVE  Verdict(s) \in [commit : Commits \cup {None},
                           phase : {"absent", "succeeded", "failed"}]
  BY DEF SnapshotOK, Snapshot, Verdict

\* Where execute is called from: the goal is the successor in the chain of the
\* function that runs, and the target is the commit that chain is about.
LEMMA GoalCases ==
    ASSUME TypeOK, ControlInv, pc \in {"execute", "pull"}
    PROVE  /\ \/ /\ mode = "forward"
                 /\ \/ current.phase = "observed"  /\ Goal = "verified"
                    \/ current.phase = "verified"  /\ Goal = "mirrored"
                    \/ current.phase = "mirrored"  /\ Goal = "activated"
                    \/ current.phase = "activated" /\ Goal = "recreated"
                    \/ current.phase = "recreated" /\ Goal = "validated"
                    \/ current.phase = "validated" /\ Goal = "succeeded"
                 /\ Target = current.commit
              \/ /\ mode = "rollback"
                 /\ \/ /\ current.phase \in {"activated", "recreated",
                                             "validated"}
                       /\ Goal = "rollback-activated"
                    \/ /\ current.phase = "rollback-activated"
                       /\ Goal = "rollback-recreated"
                    \/ /\ current.phase = "rollback-recreated"
                       /\ Goal = "rollback-validated"
                    \/ current.phase = "rollback-validated" /\ Goal = "failed"
                 /\ Target = current.previous
           /\ current.commit \in Commits /\ current.previous \in Commits
  BY SMTT(30) DEF TypeOK, ControlInv, SnapshotOK, Snapshot, Goal, Target,
     Successor, ForwardPhases, RollbackPhases, Revertible, None

\* transition() moves the phase and keeps the commits of the attempt.
LEMMA AdvanceOK ==
    ASSUME TypeOK, ControlInv, pc \in {"execute", "pull"}, Advance
    PROVE  /\ SnapshotOK(current')
           /\ current'.phase = Goal
           /\ current'.commit = current.commit
           /\ current'.previous = current.previous
           /\ pc' = "write"
           /\ UNCHANGED <<mode, initial, drill, errors, outcome>>
<1>1. Goal \in (ForwardPhases \cup RollbackPhases)
  BY GoalCases DEF ForwardPhases, RollbackPhases
<1>2. Goal # "absent" /\ current.commit # None /\ current.previous # None
  BY GoalCases DEF Commits, None
<1>3. current \in Snapshot
  BY DEF TypeOK, SnapshotOK
<1>4. current' \in Snapshot
  BY <1>1, <1>3 DEF Advance, Snapshot
<1>5. /\ current'.phase = Goal
      /\ current'.commit = current.commit
      /\ current'.previous = current.previous
  BY <1>3 DEF Advance, Snapshot
<1> QED
  BY <1>2, <1>4, <1>5 DEF Advance, SnapshotOK

\* The except clauses leave a failed attempt that still knows its commits.
LEMMA HandleOK ==
    ASSUME SnapshotOK(current), current.phase \notin {"absent", "succeeded"},
           Handle
    PROVE  /\ SnapshotOK(current')
           /\ current'.phase = "failed" /\ current'.rollback = "failed"
           /\ current'.commit = current.commit
           /\ current'.previous = current.previous
  BY DEF Handle, SnapshotOK, Snapshot, RollbackPhases

\* A rollback that fails is that of an attempt, never of a baseline.
LEMMA RollbackHasAttempt ==
    ASSUME TypeOK, ControlInv, mode = "rollback",
           pc \in {"adopt", "revalidate", "reconcile", "observe", "execute",
                   "pull", "write", "metric"}
    PROVE  current.phase \notin {"absent", "observed", "verified", "mirrored",
                                 "succeeded"}
  BY DEF ControlInv, Revertible, RollbackPhases

\* Whatever a call that is cut short leaves behind keeps the type of the world,
\* and moves the pin and the checkout to vetted commits only.
LEMMA PartialEffectOK ==
    ASSUME TypeOK, ControlInv, PartialEffect
    PROVE  /\ main' = main /\ harbor \subseteq harbor'
           /\ harbor' \subseteq Releases
           /\ pin' \in {pin} \cup (IF pc = "execute" THEN {Target} ELSE {})
           /\ pin' \in Commits \cup {None} 
           /\ tree' \in {tree} \cup (IF pc = "pull" THEN {pin} ELSE {})
           /\ tree' \in Commits
           /\ live' \in Releases \cup {NoRelease}
<1>1. pc \in {"execute", "pull"} =>
          current.commit \in Commits /\ Target \in Commits
  BY GoalCases
<1>2. pc = "pull" => pin = Target
  BY DEF ControlInv
<1>3. /\ \/ harbor' = harbor
         \/ pc = "execute" /\ harbor' = harbor \cup {Pinned[current.commit]}
      /\ pin' = pin \/ (pc = "execute" /\ pin' = Target)
      /\ tree' = tree \/ (pc = "pull" /\ tree' = pin)
      /\ live' \in {live, Pinned[tree], NoRelease}
      /\ main' = main
  BY DEF PartialEffect
<1> QED
  BY <1>1, <1>2, <1>3, KindleAssumption DEF TypeOK

-----------------------------------------------------------------------------
(* Every step preserves the invariant: one lemma per part of it. *)

\* The run's snapshot stays one that a later run can load.
LEMMA SnapshotStep ==
    ASSUME IInv, Next
    PROVE  SnapshotOK(current')
<1> USE KindleAssumption
<1>1. TypeOK /\ SoundInv /\ PinInv /\ ControlInv
  BY DEF IInv
<1>2. /\ SnapshotOK(current) /\ SnapshotOK(state) /\ SnapshotOK(NoSnapshot)
      /\ current \in Snapshot
  BY <1>1, EmptyOK DEF TypeOK, SnapshotOK
<1>3. CASE Publish \/ Reboot
  BY <1>2, <1>3 DEF Publish, Reboot, run
<1>4. CASE Start
  BY <1>2, <1>4 DEF Start
<1>5. CASE Adopt
  BY <1>1, <1>5, FreshOK DEF Adopt, TypeOK
<1>6. CASE Revalidate \/ ObserveNothing \/ PinRevision \/ WriteState \/ Report
  BY <1>2, <1>6 DEF Revalidate, ObserveNothing, PinRevision, WriteState, Report
<1>7. CASE Reconcile
  <2>1. CASE mode = "recover"
    BY <1>2, <1>7, <2>1 DEF Reconcile, SnapshotOK, Snapshot
  <2> QED
    BY <1>2, <1>7, <2>1 DEF Reconcile
<1>8. CASE ObserveCandidate
  <2>1. current.commit \in Commits
    BY <1>1, <1>2, <1>8 DEF ObserveCandidate, ControlInv, SnapshotOK, Snapshot
  <2> QED
    BY <1>8, <2>1, FreshOK DEF ObserveCandidate, Candidates, Commits, None
<1>9. CASE Verify \/ Mirror \/ PullRevision \/ Recreate \/ Validate \/ Conclude
  BY <1>1, <1>9, AdvanceOK
     DEF Verify, Mirror, PullRevision, Recreate, Validate, Conclude
<1>10. CASE WriteMetric
  <2>1. CASE AfterRecovery
    <3>1. current.previous \in Commits
      BY <1>2, <2>1 DEF AfterRecovery, SnapshotOK, Snapshot, None
    <3> QED
      BY <2>1, <3>1, FreshOK DEF AfterRecovery
  <2> QED
    BY <1>2, <1>10, <2>1
       DEF WriteMetric, AfterPhase, AfterObserve, AfterBaseline, EndRun
<1>11. CASE ReportNothing \/ Kill
  BY <1>2, <1>11 DEF ReportNothing, Kill, EndRun
<1>12. CASE \E s, n \in {"github", "discord", "settle"} :
                Deliver(s, n) \/ DeliveryFails(s, n)
  BY <1>2, <1>12 DEF Deliver, DeliveryFails
<1>13. CASE Settle
  <2>1. [current EXCEPT !.degraded = errors] \in Snapshot
    BY <1>1, <1>2 DEF Snapshot, TypeOK
  <2>2. SnapshotOK([current EXCEPT !.degraded = errors])
    BY <1>2, <2>1 DEF SnapshotOK, Snapshot
  <2> QED
    BY <1>2, <1>13, <2>2 DEF Settle, EndRun
<1>14. CASE CallFails \/ WriteFails
  <2>1. \/ mode = "rollback" /\ Handle
        \/ BeginRollback
        \/ EndRun("raised")
    BY <1>14 DEF CallFails, WriteFails
  <2>2. mode = "rollback" => current.phase \notin {"absent", "succeeded"}
    BY <1>1, <1>14, RollbackHasAttempt DEF CallFails, WriteFails
  <2> QED
    BY <1>2, <2>1, <2>2, HandleOK DEF BeginRollback, EndRun
<1> QED
  BY <1>3, <1>4, <1>5, <1>6, <1>7, <1>8, <1>9, <1>10, <1>11, <1>12, <1>13, <1>14
     DEF Next, Agent

\* Types are kept.
LEMMA TypeStep ==
    ASSUME IInv, Next
    PROVE  TypeOK'
<1> USE KindleAssumption DEF TypeOK
<1>1. TypeOK /\ SoundInv /\ PinInv /\ ControlInv
  BY DEF IInv
<1>2. SnapshotOK(current') /\ SnapshotOK(NoSnapshot)
  BY <1>1, SnapshotStep, EmptyOK
<1>3. /\ current \in Snapshot /\ state \in Snapshot
      /\ mishaps + 1 \in Nat
  BY <1>1 DEF SnapshotOK
<1>4. CASE Publish
  BY <1>1, <1>2, <1>4 DEF Publish, Commits, None, durable, run
<1>5. CASE Start \/ Adopt \/ Revalidate \/ ObserveNothing \/ ObserveCandidate
           \/ WriteState \/ Report \/ ReportNothing
  BY <1>1, <1>2, <1>3, <1>5
     DEF Start, Adopt, Revalidate, ObserveNothing, ObserveCandidate,
         WriteState, Report, ReportNothing, EndRun, world, durable
<1>6. CASE Reconcile \/ WriteMetric \/ Settle
  BY <1>1, <1>2, <1>3, <1>6
     DEF Reconcile, WriteMetric, Settle, AfterPhase, AfterObserve,
         AfterRecovery, AfterBaseline, EndRun, world, durable
<1>7. CASE Verify \/ Mirror \/ Recreate \/ Validate \/ Conclude
  <2>1. current.commit \in Commits /\ pc = "execute" /\ Advance
    BY <1>1, <1>7, GoalCases
       DEF Verify, Mirror, Recreate, Validate, Conclude
  <2> QED
    BY <1>1, <1>2, <1>7, <2>1, AdvanceOK
       DEF Verify, Mirror, Recreate, Validate, Conclude, world, durable
<1>8. pc \in {"execute", "pull"} => Target \in Commits /\ Target <= main
  <2>1. CASE pc \in {"execute", "pull"}
    BY <1>1, <2>1, GoalCases
       DEF SoundInv, Sound, Follows, SnapshotOK, Snapshot, Commits, None
  <2> QED
    BY <2>1
<1>9. CASE PinRevision
  BY <1>1, <1>2, <1>8, <1>9 DEF PinRevision, durable
<1>10. CASE PullRevision
  BY <1>1, <1>2, <1>8, <1>10, AdvanceOK
     DEF PullRevision, ControlInv, durable
<1>11. CASE \/ Deliver("github", "discord") \/ Deliver("discord", "settle")
            \/ DeliveryFails("github", "discord")
            \/ DeliveryFails("discord", "settle")
  <2>1. Verdict(current) \in [commit : Commits \cup {None},
                              phase : {"absent", "succeeded", "failed"}]
    BY <1>1, <1>11, VerdictOK DEF Deliver, DeliveryFails, ControlInv
  <2>2. /\ told' \in [Sinks -> [commit : Commits \cup {None},
                                phase : {"absent", "succeeded", "failed"}]]
    BY <1>1, <1>11, <2>1 DEF Deliver, DeliveryFails
  <2> QED
    BY <1>1, <1>2, <1>3, <1>11, <2>2
       DEF Deliver, DeliveryFails, Mishap, world, durable
<1>12. CASE CallFails \/ Kill
  <2>1. /\ PartialEffect
        /\ UNCHANGED <<durable, told>>
        /\ mishaps' \in Nat
        /\ Handle \/ BeginRollback \/ EndRun("raised") \/ EndRun("killed")
    BY <1>1, <1>3, <1>12 DEF CallFails, Kill, Mishap
  <2>2. /\ main' \in Commits /\ tree' \in Commits /\ tree' <= main'
        /\ pin' \in Commits \cup {None} /\ pin' <= main'
    BY <1>1, <1>8, <2>1, PartialEffectOK DEF Commits, None
  <2> QED
    BY <1>1, <1>2, <2>1, <2>2, PartialEffectOK
       DEF Handle, BeginRollback, EndRun, durable
<1>13. CASE WriteFails
  BY <1>1, <1>2, <1>3, <1>13 DEF WriteFails, Mishap, Handle, EndRun, world
<1>14. CASE Reboot
  BY <1>1, <1>2, <1>3, <1>14 DEF Reboot, Mishap, Commits, None, durable, run
<1> QED
  BY <1>4, <1>5, <1>6, <1>7, <1>9, <1>10, <1>11, <1>12, <1>13, <1>14
     DEF Next, Agent

\* What a phase proves of the registry, Harbor and the history stays true: main
\* and Harbor only grow, and a phase is entered only when its gate has passed.
LEMMA SoundStep ==
    ASSUME IInv, Next
    PROVE  SoundInv'
<1> USE KindleAssumption DEF SoundInv, Sound
<1>1. TypeOK /\ SoundInv /\ PinInv /\ ControlInv /\ SyncInv
  BY DEF IInv
<1>2. /\ SnapshotOK(current) /\ SnapshotOK(state) /\ SnapshotOK(current')
      /\ main \in Commits
  BY <1>1, SnapshotStep DEF TypeOK
<1>3. CASE UNCHANGED <<main, harbor, state>> /\ current' \in {current, state}
  BY <1>1, <1>3 DEF Follows, Vetted
<1>4. CASE UNCHANGED <<main, harbor, state>> /\ current' = NoSnapshot
  BY <1>1, <1>2, <1>4, EmptyOK DEF Follows, Vetted
<1>5. CASE Publish
  BY <1>1, <1>2, <1>5
     DEF Publish, Follows, Vetted, SnapshotOK, Snapshot, Commits, None, durable,
         run
<1>6. CASE Start \/ Revalidate \/ ObserveNothing \/ PinRevision \/ Report
           \/ Reboot
  BY <1>3, <1>6
     DEF Start, Revalidate, ObserveNothing, PinRevision, Report, Reboot, world,
         durable, run
<1>7. CASE Adopt
  BY <1>1, <1>2, <1>7
     DEF Adopt, GatePasses, Fresh, Follows, Vetted, TypeOK, Commits, None,
         world, durable
<1>8. CASE Reconcile
  BY <1>1, <1>2, <1>8
     DEF Reconcile, SnapshotOK, Snapshot, Follows, Vetted, world
<1>9. CASE ObserveCandidate
  <2>1. /\ current.phase = "succeeded" /\ current.commit \in Commits
        /\ Vetted(current.commit)
    BY <1>1, <1>2, <1>9
       DEF ObserveCandidate, ControlInv, SnapshotOK, Snapshot, Vetted
  <2>2. PICK d \in Candidates(current.commit) :
            /\ \A e \in Candidates(current.commit) : d <= e
            /\ current' = Fresh(d, "observed", current.commit)
    BY <1>9 DEF ObserveCandidate, IsCandidate
  <2>3. Follows(d, current.commit) /\ d <= main
    BY <1>2, <2>1, <2>2 DEF Follows, Candidates, Commits
  <2> QED
    BY <1>1, <1>9, <2>1, <2>2, <2>3
       DEF ObserveCandidate, Fresh, Follows, Vetted, world, durable
<1>10. CASE Verify \/ Validate \/ Conclude
  <2>1. pc = "execute" /\ Advance /\ UNCHANGED <<main, harbor, state>>
    BY <1>10 DEF Verify, Validate, Conclude, world, durable
  <2>2. /\ Goal # "mirrored"
        /\ Goal = "verified" => Pinned[current.commit] \in Signed
    BY <1>10, <2>1 DEF Verify, Validate, Conclude, GatePasses
  <2> QED
    BY <1>1, <2>1, <2>2, GoalCases, AdvanceOK DEF Follows, Vetted
<1>11. CASE Mirror
  BY <1>1, <1>11, GoalCases, AdvanceOK DEF Mirror, Follows, Vetted, durable
<1>12. CASE PullRevision \/ Recreate
  <2>1. /\ pc \in {"execute", "pull"} /\ Advance
        /\ UNCHANGED <<main, harbor, state>>
        /\ Goal # "verified" /\ Goal # "mirrored"
    BY <1>1, <1>12 DEF PullRevision, Recreate, ControlInv, durable
  <2> QED
    BY <1>1, <2>1, GoalCases, AdvanceOK DEF Follows, Vetted
<1>13. CASE WriteState
  BY <1>1, <1>13 DEF WriteState, Follows, Vetted, world
<1>14. CASE WriteMetric
  <2>1. UNCHANGED <<main, harbor, state>>
    BY <1>14 DEF WriteMetric, world
  <2>2. CASE AfterRecovery
    BY <1>1, <1>2, <2>1, <2>2
       DEF AfterRecovery, Fresh, Follows, Vetted, SnapshotOK, Snapshot,
           Commits, None
  <2> QED
    BY <1>3, <1>4, <1>14, <2>1, <2>2
       DEF WriteMetric, AfterPhase, AfterObserve, AfterBaseline, EndRun
<1>15. CASE \/ ReportNothing \/ WriteState
            \/ Deliver("github", "discord") \/ Deliver("discord", "settle")
            \/ DeliveryFails("github", "discord")
            \/ DeliveryFails("discord", "settle")
  BY <1>1, <1>3, <1>4, <1>13, <1>15
     DEF ReportNothing, Deliver, DeliveryFails, EndRun, world, durable
<1>16. CASE Settle
  BY <1>1, <1>2, <1>4, <1>16
     DEF Settle, EndRun, SnapshotOK, Snapshot, Follows, Vetted, world, durable
<1>17. CASE CallFails \/ Kill
  <2>1. /\ main' = main /\ harbor \subseteq harbor' /\ state' = state
        /\ \/ mode = "rollback" /\ Handle
           \/ BeginRollback \/ EndRun("raised") \/ EndRun("killed")
    BY <1>1, <1>17, PartialEffectOK DEF CallFails, Kill, durable
  <2>2. CASE mode = "rollback" /\ Handle
    <3>1. current.phase \notin {"absent", "observed", "verified", "mirrored",
                                "succeeded"}
      BY <1>1, <1>17, <2>2, RollbackHasAttempt DEF CallFails, Kill, Handle, EndRun
    <3> QED
      BY <1>1, <1>2, <2>1, <2>2, <3>1, HandleOK DEF Follows, Vetted
  <2>3. CASE BeginRollback
    BY <1>1, <2>1, <2>3 DEF BeginRollback, Follows, Vetted
  <2>4. CASE EndRun("raised") \/ EndRun("killed")
    BY <1>1, <1>2, <2>1, <2>4, EmptyOK
       DEF EndRun, NoSnapshot, Fresh, Follows, Vetted, Commits, None
  <2> QED
    BY <2>1, <2>2, <2>3, <2>4
<1>18. CASE WriteFails
  <2>1. /\ UNCHANGED <<main, harbor>> /\ state' \in {state, current}
        /\ \/ mode = "rollback" /\ Handle
           \/ EndRun("raised")
    BY <1>18 DEF WriteFails, world
  <2>2. CASE mode = "rollback" /\ Handle
    <3>1. current.phase \notin {"absent", "observed", "verified", "mirrored",
                                "succeeded"}
      BY <1>1, <1>18, <2>2, RollbackHasAttempt DEF WriteFails
    <3> QED
      BY <1>1, <1>2, <2>1, <2>2, <3>1, HandleOK DEF Follows, Vetted
  <2>3. CASE EndRun("raised")
    BY <1>1, <1>2, <2>1, <2>3, EmptyOK
       DEF EndRun, NoSnapshot, Fresh, Follows, Vetted, Commits, None
  <2> QED
    BY <2>1, <2>2, <2>3
<1> QED
  BY <1>5, <1>6, <1>7, <1>8, <1>9, <1>10, <1>11, <1>12, <1>13, <1>14, <1>15,
     <1>16, <1>17, <1>18
     DEF Next, Agent

\* Before there is a baseline, .deploy-commit stays as the host was set up;
\* from then on it names vetted releases only.
LEMMA PinStep ==
    ASSUME IInv, Next
    PROVE  PinInv'
<1> USE KindleAssumption DEF PinInv, PinVetted
<1>1. TypeOK /\ SoundInv /\ PinInv /\ ControlInv /\ SyncInv
  BY DEF IInv
<1>2. SnapshotOK(current) /\ SnapshotOK(state)
  BY <1>1 DEF TypeOK
<1>3. CASE Publish \/ Start \/ Revalidate \/ Reconcile \/ ObserveNothing
           \/ ObserveCandidate \/ Report \/ ReportNothing \/ Settle
  BY <1>1, <1>3
     DEF Publish, Start, Revalidate, Reconcile, ObserveNothing,
         ObserveCandidate, Report, ReportNothing, Settle, EndRun, Vetted,
         ControlInv, SyncInv, world, durable, run
<1>4. CASE \/ Deliver("github", "discord") \/ Deliver("discord", "settle")
           \/ DeliveryFails("github", "discord")
           \/ DeliveryFails("discord", "settle")
  BY <1>1, <1>4 DEF Deliver, DeliveryFails, Vetted, world, durable
<1>5. CASE Adopt
  BY <1>1, <1>5 DEF Adopt, Fresh, Vetted, world, durable
<1>6. pc \in {"execute", "pull"} =>
          /\ mode \in {"forward", "rollback"} /\ state = current
          /\ state.phase # "absent"
          /\ Goal \in {"activated", "rollback-activated"} => Vetted(Target)
  BY <1>1, GoalCases DEF SyncInv, SoundInv, Sound, Vetted, None, Commits
<1>7. CASE Verify \/ Mirror \/ Recreate \/ Validate \/ Conclude \/ PullRevision
  BY <1>1, <1>6, <1>7, AdvanceOK
     DEF Verify, Mirror, Recreate, Validate, Conclude, PullRevision, Vetted,
         world, durable
<1>8. CASE PinRevision
  BY <1>1, <1>6, <1>8 DEF PinRevision, Vetted, durable
<1>9. CASE WriteState
  <2>1. state' = current /\ UNCHANGED <<pin, harbor, tree, mode>> /\ pc' # "write"
    BY <1>9 DEF WriteState, world
  <2>2. state'.phase # "absent"
    BY <1>1, <1>9, <2>1
       DEF WriteState, ControlInv, ForwardPhases, RollbackPhases
  <2>3. state.phase = "absent" /\ pin # None => Vetted(pin)
    BY <1>1, <1>9
       DEF WriteState, ControlInv, SoundInv, Sound, Vetted
  <2> QED
    BY <1>1, <2>1, <2>2, <2>3 DEF Vetted
<1>10. CASE WriteMetric
  BY <1>1, <1>10
     DEF WriteMetric, AfterPhase, AfterObserve, AfterRecovery, AfterBaseline,
         EndRun, SyncInv, ControlInv, Vetted, ForwardPhases, RollbackPhases,
         world
<1>11. CASE CallFails \/ Kill
  <2>1. /\ harbor \subseteq harbor' /\ state' = state
        /\ \/ pc = "execute" /\ Goal \in {"activated", "rollback-activated"}
           \/ pin' = pin
        /\ pc = "pull" \/ tree' = tree
        /\ pc' \in {"idle", "execute", "write"}
    BY <1>1, <1>11, PartialEffectOK
       DEF CallFails, Kill, PartialEffect, Handle, BeginRollback, EndRun, durable
  <2> QED
    BY <1>1, <1>6, <1>11, <2>1, PartialEffectOK
       DEF CallFails, Kill, Handle, BeginRollback, EndRun, Vetted
<1>12. CASE WriteFails
  <2>1. UNCHANGED <<pin, harbor, tree>> /\ state' \in {state, current}
    BY <1>12 DEF WriteFails, world
  <2> QED
    BY <1>1, <1>12, <2>1
       DEF WriteFails, Handle, EndRun, ControlInv, SoundInv, Sound, Vetted,
           ForwardPhases, RollbackPhases
<1>13. CASE Reboot
  BY <1>1, <1>13 DEF Reboot, Vetted, ControlInv, durable, run
<1> QED
  BY <1>3, <1>4, <1>5, <1>7, <1>8, <1>9, <1>10, <1>11, <1>12, <1>13
     DEF Next, Agent

\* Which function runs where, on which phases.
LEMMA ControlStep ==
    ASSUME IInv, Next
    PROVE  ControlInv'
<1> USE DEF ControlInv
<1>1. TypeOK /\ ControlInv /\ SyncInv
  BY DEF IInv
<1>2. SnapshotOK(current) /\ SnapshotOK(state)
  BY <1>1 DEF TypeOK
<1>3. CASE Publish \/ Reboot
  BY <1>1, <1>3 DEF Publish, Reboot, Goal, Target, run
<1>4. CASE Start
  BY <1>1, <1>2, <1>4
     DEF Start, SnapshotOK, Snapshot, ForwardPhases, RollbackPhases
<1>5. CASE Adopt \/ ObserveCandidate
  BY <1>1, <1>5 DEF Adopt, ObserveCandidate, Fresh
<1>6. CASE Revalidate \/ Reconcile \/ ObserveNothing
  <2>1. CASE Reconcile /\ mode = "recover"
    BY <1>1, <1>2, <2>1 DEF Reconcile, SnapshotOK, Snapshot
  <2> QED
    BY <1>1, <1>6, <2>1
       DEF Revalidate, Reconcile, ObserveNothing, Revertible, ForwardPhases,
           RollbackPhases
<1>7. CASE Verify \/ Mirror \/ Recreate \/ Validate \/ Conclude \/ PullRevision
  <2>1. pc \in {"execute", "pull"} /\ Advance
    BY <1>7 DEF Verify, Mirror, Recreate, Validate, Conclude, PullRevision
  <2> QED
    BY <1>1, <1>7, <2>1, GoalCases, AdvanceOK
       DEF Verify, Mirror, Recreate, Validate, Conclude, PullRevision,
           ForwardPhases, RollbackPhases
<1>8. CASE PinRevision
  BY <1>1, <1>8 DEF PinRevision, Goal, Target
<1>9. CASE WriteState
  BY <1>1, <1>9 DEF WriteState
<1>10. CASE WriteMetric
  <2>1. CASE AfterPhase
    BY <1>1, <1>10, <2>1
       DEF WriteMetric, AfterPhase, Revertible, ForwardPhases, RollbackPhases
  <2>2. CASE AfterObserve
    BY <1>1, <1>10, <2>2 DEF WriteMetric, AfterObserve, ForwardPhases
  <2>3. CASE AfterRecovery
    BY <1>1, <1>10, <2>3 DEF WriteMetric, AfterRecovery, Fresh
  <2>4. CASE AfterBaseline
    BY <1>1, <1>10, <2>4 DEF WriteMetric, AfterBaseline
  <2> QED
    BY <1>10, <2>1, <2>2, <2>3, <2>4 DEF WriteMetric, EndRun
<1>11. CASE \/ Report \/ ReportNothing
            \/ Deliver("github", "discord") \/ Deliver("discord", "settle")
            \/ DeliveryFails("github", "discord")
            \/ DeliveryFails("discord", "settle")
  BY <1>1, <1>11 DEF Report, ReportNothing, Deliver, DeliveryFails, EndRun
<1>12. CASE Settle
  BY <1>1, <1>2, <1>12 DEF Settle, EndRun, SnapshotOK, Snapshot
<1>13. CASE CallFails \/ WriteFails \/ Kill
  <2>1. \/ mode = "rollback" /\ Handle
        \/ mode = "forward" /\ current.phase \in Revertible /\ BeginRollback
        \/ EndRun("raised") \/ EndRun("killed")
    BY <1>13 DEF CallFails, WriteFails, Kill
  <2>2. CASE mode = "rollback" /\ Handle
    <3>1. current.phase \notin {"absent", "observed", "verified", "mirrored",
                                "succeeded"}
      BY <1>1, <1>13, <2>2, RollbackHasAttempt
         DEF CallFails, WriteFails, Kill, Handle, EndRun
    <3> QED
      BY <1>1, <1>2, <2>2, <3>1, HandleOK DEF Handle
  <2>3. CASE mode = "forward" /\ current.phase \in Revertible /\ BeginRollback
    BY <1>1, <1>13, <2>3
       DEF CallFails, WriteFails, Kill, EndRun, BeginRollback, Revertible
  <2>4. CASE EndRun("raised") \/ EndRun("killed")
    BY <2>4 DEF EndRun
  <2> QED
    BY <2>1, <2>2, <2>3, <2>4
<1> QED
  BY <1>3, <1>4, <1>5, <1>6, <1>7, <1>8, <1>9, <1>10, <1>11, <1>12, <1>13
     DEF Next, Agent

\* The run's snapshot and state.json differ only while it is being written.
LEMMA SyncStep ==
    ASSUME IInv, Next
    PROVE  SyncInv'
<1> USE DEF SyncInv
<1>1. TypeOK /\ ControlInv /\ SyncInv
  BY DEF IInv
<1>2. CASE Publish \/ Reboot \/ Start
  BY <1>1, <1>2 DEF Publish, Reboot, Start, durable, run
<1>3. CASE \/ Adopt \/ Revalidate \/ ObserveNothing \/ ObserveCandidate
           \/ Report \/ ReportNothing \/ Settle
           \/ Deliver("github", "discord") \/ Deliver("discord", "settle")
           \/ DeliveryFails("github", "discord")
           \/ DeliveryFails("discord", "settle")
  BY <1>1, <1>3
     DEF Adopt, Revalidate, ObserveNothing, ObserveCandidate, Report,
         ReportNothing, Settle, Deliver, DeliveryFails, EndRun, durable
<1>4. CASE Reconcile
  BY <1>1, <1>4 DEF Reconcile, ControlInv
<1>5. CASE Verify \/ Mirror \/ Recreate \/ Validate \/ Conclude \/ PullRevision
  BY <1>5
     DEF Verify, Mirror, Recreate, Validate, Conclude, PullRevision, Advance
<1>6. CASE PinRevision \/ WriteState
  BY <1>1, <1>6 DEF PinRevision, WriteState, durable
<1>7. CASE WriteMetric
  BY <1>1, <1>7
     DEF WriteMetric, AfterPhase, AfterObserve, AfterRecovery, AfterBaseline,
         EndRun
<1>8. CASE CallFails \/ WriteFails \/ Kill
  BY <1>1, <1>8
     DEF CallFails, WriteFails, Kill, Handle, BeginRollback, EndRun, ControlInv,
         durable
<1> QED
  BY <1>2, <1>3, <1>4, <1>5, <1>6, <1>7, <1>8 DEF Next, Agent

\* A run that returns leaves the metric at a terminal state.json.
LEMMA CleanStep ==
    ASSUME IInv, Next
    PROVE  CleanExitProjects'
<1> USE DEF CleanExitProjects
<1>1. ControlInv /\ SyncInv /\ CleanExitProjects
  BY DEF IInv
<1>2. CASE pc' # "idle" \/ outcome' # "exit"
  BY <1>2
<1>3. CASE Publish \/ Reboot
  BY <1>1, <1>3 DEF Publish, Reboot, durable, run
<1>4. CASE WriteMetric
  BY <1>1, <1>4
     DEF WriteMetric, AfterPhase, AfterObserve, AfterRecovery, AfterBaseline,
         EndRun, ControlInv, SyncInv
<1>5. CASE ReportNothing \/ Settle
  BY <1>1, <1>5 DEF ReportNothing, Settle, EndRun, ControlInv, SyncInv, durable
<1>6. CASE CallFails \/ WriteFails \/ Kill
  BY <1>2, <1>6
     DEF CallFails, WriteFails, Kill, Handle, BeginRollback, EndRun
<1> QED
  BY <1>2, <1>3, <1>4, <1>5, <1>6
     DEF Next, Agent, Start, Adopt, Revalidate, Reconcile, ObserveNothing,
         ObserveCandidate, Verify, Mirror, PinRevision, PullRevision, Recreate,
         Validate, Conclude, Advance, WriteState, Report, Deliver, DeliveryFails

\* What the run has established about the checkout and the container stays
\* true until it is written: nothing else moves either while a run goes on.
LEMMA LiveStep ==
    ASSUME IInv, Next
    PROVE  LiveInv'
<1> USE KindleAssumption DEF LiveInv, VerdictTrue, CheckedOut, Serving
<1>1. TypeOK /\ SoundInv /\ ControlInv /\ SyncInv /\ LiveInv
  BY DEF IInv
<1>2. SnapshotOK(current) /\ SnapshotOK(state)
  BY <1>1 DEF TypeOK
<1>3. CASE Publish \/ Start \/ Reboot \/ ReportNothing \/ Kill
  BY <1>1, <1>3
     DEF Publish, Start, Reboot, ReportNothing, Kill, EndRun, ControlInv, run
<1>4. CASE Adopt
  BY <1>1, <1>4 DEF Adopt, GatePasses, ControlInv, Fresh, world
<1>5. CASE Revalidate
  BY <1>1, <1>5
     DEF Revalidate, GatePasses, Revalidates, CheckedOut, Serving, world
<1>6. CASE Reconcile
  BY <1>1, <1>2, <1>6
     DEF Reconcile, ControlInv, SnapshotOK, Snapshot, Revertible,
         ForwardPhases, RollbackPhases, world
<1>7. CASE ObserveNothing \/ ObserveCandidate
  BY <1>1, <1>7 DEF ObserveNothing, ObserveCandidate, Fresh, ControlInv, world
<1>8. CASE Verify \/ Mirror \/ Conclude
  <2>1. /\ pc = "execute" /\ Advance /\ UNCHANGED <<live, tree>>
        /\ Goal \in {"verified", "mirrored", "succeeded", "failed"}
    BY <1>8 DEF Verify, Mirror, Conclude, world
  <2> QED
    BY <1>1, <2>1, GoalCases, AdvanceOK DEF Revertible, RollbackPhases
<1>9. CASE PinRevision
  BY <1>9 DEF PinRevision
<1>10. CASE PullRevision
  <2>1. pc = "pull" /\ tree' = Target /\ Advance /\ UNCHANGED live
    BY <1>1, <1>10 DEF PullRevision, ControlInv
  <2>2. Goal \in {"activated", "rollback-activated"}
    BY <1>1, <1>10 DEF PullRevision, ControlInv
  <2> QED
    BY <1>1, <2>1, <2>2, GoalCases, AdvanceOK DEF Revertible, RollbackPhases
<1>11. CASE Recreate
  BY <1>1, <1>11, GoalCases, AdvanceOK DEF Recreate, Revertible, RollbackPhases
<1>12. CASE Validate
  <2>1. /\ pc = "execute" /\ Advance /\ UNCHANGED <<live, tree>>
        /\ \/ Goal = "validated" /\ Serving(current.commit)
           \/ Goal = "rollback-validated" /\ Serving(current.previous)
    BY <1>12 DEF Validate, GatePasses, world
  <2> QED
    BY <1>1, <2>1, GoalCases, AdvanceOK DEF Revertible, RollbackPhases
<1>13. CASE WriteState \/ Report
  BY <1>1, <1>13 DEF WriteState, Report, ControlInv, world
<1>14. CASE WriteMetric
  BY <1>1, <1>14
     DEF WriteMetric, AfterPhase, AfterObserve, AfterRecovery, AfterBaseline,
         EndRun, ControlInv, Fresh, Revertible, ForwardPhases, RollbackPhases,
         world
<1>15. CASE \/ Deliver("github", "discord") \/ Deliver("discord", "settle")
            \/ DeliveryFails("github", "discord")
            \/ DeliveryFails("discord", "settle")
  BY <1>1, <1>15 DEF Deliver, DeliveryFails, ControlInv, world
<1>16. CASE Settle
  BY <1>1, <1>2, <1>16
     DEF Settle, EndRun, ControlInv, SnapshotOK, Snapshot, world
<1>17. CASE CallFails \/ WriteFails
  <2>1. \/ mode = "rollback" /\ Handle
        \/ mode = "forward" /\ current.phase \in Revertible /\ BeginRollback
        \/ EndRun("raised")
    BY <1>17 DEF CallFails, WriteFails
  <2>2. CASE mode = "rollback" /\ Handle
    <3>1. current.phase \notin {"absent", "observed", "verified", "mirrored",
                                "succeeded"}
      BY <1>1, <1>17, <2>2, RollbackHasAttempt DEF CallFails, WriteFails
    <3> QED
      BY <1>1, <1>2, <2>2, <3>1, HandleOK DEF Handle
  <2>3. CASE mode = "forward" /\ current.phase \in Revertible /\ BeginRollback
    BY <1>1, <1>2, <1>17, <2>3
       DEF CallFails, WriteFails, Handle, EndRun, BeginRollback, Revertible,
           RollbackPhases, ControlInv
  <2>4. CASE EndRun("raised")
    BY <2>4 DEF EndRun, NoSnapshot, Fresh
  <2> QED
    BY <2>1, <2>2, <2>3, <2>4
<1> QED
  BY <1>3, <1>4, <1>5, <1>6, <1>7, <1>8, <1>9, <1>10, <1>11, <1>12, <1>13, <1>14,
     <1>15, <1>16, <1>17
     DEF Next, Agent

\* Together: the invariant is inductive.
LEMMA Step == IInv /\ [Next]_vars => IInv'
<1>1. ASSUME IInv, Next PROVE IInv'
  BY <1>1, TypeStep, SoundStep, PinStep, ControlStep, SyncStep, LiveStep,
     CleanStep
     DEF IInv
<1>2. ASSUME IInv, UNCHANGED vars PROVE IInv'
  BY <1>2
     DEF IInv, TypeOK, SoundInv, Sound, Follows, PinInv, PinVetted, Vetted,
         ControlInv, Goal, Target, SyncInv, LiveInv, VerdictTrue, CheckedOut,
         Serving, CleanExitProjects, vars, world, durable, run
<1> QED
  BY <1>1, <1>2

\* The initial states satisfy it.
LEMMA InitEstablishes == Init => IInv
<1> SUFFICES ASSUME Init PROVE IInv
  OBVIOUS
<1> USE KindleAssumption DEF Init
<1>1. SnapshotOK(NoSnapshot) /\ Sound(NoSnapshot) /\ 1 \in Commits
  BY EmptyOK DEF Commits
<1>2. NoSnapshot \in Snapshot /\ NoSnapshot.phase = "absent"
  BY <1>1 DEF SnapshotOK, NoSnapshot, Fresh
<1>3. TypeOK
  <2>1. told \in [Sinks -> [commit : Commits \cup {None},
                            phase : {"absent", "succeeded", "failed"}]]
    BY DEF NoVerdict
  <2>2. /\ main \in Commits /\ tree \in Commits /\ tree <= main
        /\ live \in Releases /\ harbor \subseteq Releases
    BY <1>1
  <2>3. pin \in Commits \cup {None} /\ pin <= main
    BY <1>1 DEF None
  <2> QED
    BY <1>1, <1>2, <2>1, <2>2, <2>3 DEF TypeOK
<1>4. SoundInv /\ PinInv /\ ControlInv /\ SyncInv /\ CleanExitProjects
  BY <1>1, <1>2
     DEF SoundInv, PinInv, PinVetted, ControlInv, SyncInv, CleanExitProjects,
         None
<1>5. LiveInv
  BY <1>2 DEF LiveInv
<1> QED
  BY <1>3, <1>4, <1>5 DEF IInv

-----------------------------------------------------------------------------
(* The theorems. *)

\* The invariant holds of every state the agent can reach.
THEOREM Invariant == Spec => []IInv
<1> QED
  BY InitEstablishes, Step, PTL DEF Spec

\* Every snapshot on disk or in memory is one that a later run can load: an
\* attempt under way always names the release to go back to.
THEOREM TypeCorrect == Spec => []TypeOK
<1>1. IInv => TypeOK
  BY DEF IInv
<1> QED
  BY <1>1, Invariant, PTL

\* Every revision .deploy-commit names once there is a baseline carries a
\* release that cosign verified and Harbor holds.
THEOREM PinAlwaysVetted == Spec => []PinVetted
<1>1. IInv => PinVetted
  BY DEF IInv, PinInv
<1> QED
  BY <1>1, Invariant, PTL

\* A run that returns leaves a terminal state.json and a metric that shows it.
THEOREM CleanExitsProject == Spec => []CleanExitProjects
<1>1. IInv => CleanExitProjects
  BY DEF IInv
<1> QED
  BY <1>1, Invariant, PTL

\* state.json is replaced by the run's snapshot only, and while it is being
\* replaced the history, the checkout and the container do not move.
LEMMA StateWrites ==
    ASSUME IInv, [Next]_vars, state' # state
    PROVE  /\ pc = "write" /\ state' = current
           /\ UNCHANGED <<main, tree, live, harbor>>
<1>1. Next
  BY DEF vars, durable
<1>2. WriteState \/ WriteFails
  BY <1>1
     DEF Next, Agent, Publish, Start, Adopt, Revalidate, Reconcile,
         ObserveNothing, ObserveCandidate, Verify, Mirror, PinRevision,
         PullRevision, Recreate, Validate, Conclude, WriteMetric, Report,
         ReportNothing, Deliver, DeliveryFails, Settle, CallFails, Kill, Reboot,
         durable
<1> QED
  BY <1>2 DEF WriteState, WriteFails, world

\* "succeeded" is durable only while that commit is checked out and serves.
THEOREM SucceededAlwaysLive == Spec => SucceededIsLive
<1>1. ASSUME IInv, [Next]_vars
      PROVE  [state' # state /\ state'.phase = "succeeded"
                => CheckedOut(state'.commit) /\ Serving(state'.commit)]_vars
  BY <1>1, StateWrites DEF IInv, LiveInv, VerdictTrue
<1> QED
  BY <1>1, Invariant, PTL DEF Spec, SucceededIsLive

\* A rollback is recorded as succeeded only while the previous release is
\* checked out and serves.
THEOREM RollbackAlwaysRestores == Spec => RollbackRestores
<1>1. ASSUME IInv, [Next]_vars
      PROVE  [state' # state /\ state'.phase = "failed"
                 /\ state'.rollback = "succeeded"
                => CheckedOut(state'.previous) /\ Serving(state'.previous)]_vars
  BY <1>1, StateWrites DEF IInv, LiveInv, VerdictTrue
<1> QED
  BY <1>1, Invariant, PTL DEF Spec, RollbackRestores

\* What a sink is told is in state.json before it is told.
THEOREM VerdictAlwaysDurable == Spec => VerdictDurable
<1>1. ASSUME IInv, [Next]_vars
      PROVE  [\A s \in Sinks : told'[s] # told[s]
                                  => told'[s] = Verdict(state)]_vars
  <2>1. CASE \/ Deliver("github", "discord") \/ Deliver("discord", "settle")
             \/ DeliveryFails("github", "discord")
             \/ DeliveryFails("discord", "settle")
    <3>1. state = current /\ told \in [Sinks -> [commit : Commits \cup {None},
                              phase : {"absent", "succeeded", "failed"}]]
      BY <1>1, <2>1 DEF IInv, TypeOK, SyncInv, Deliver, DeliveryFails
    <3> QED
      BY <2>1, <3>1 DEF Deliver, DeliveryFails, Verdict
  <2>2. CASE told' = told
    BY <2>2
  <2> QED
    BY <1>1, <2>1, <2>2
       DEF Next, Agent, Publish, Start, Adopt, Revalidate, Reconcile,
           ObserveNothing, ObserveCandidate, Verify, Mirror, PinRevision,
           PullRevision, Recreate, Validate, Conclude, WriteState, WriteMetric,
           Report, ReportNothing, Settle, CallFails, WriteFails, Kill, Reboot,
           vars
<1> QED
  BY <1>1, Invariant, PTL DEF Spec, VerdictDurable

-----------------------------------------------------------------------------
(* The agent implements KindlePromotion. *)

\* What the snapshot about to be written makes of the one on disk: it opens an
\* attempt, goes on with the same attempt, or ends it.
SameAttempt == /\ state.phase \notin {"absent", "succeeded"}
               /\ current.phase \notin {"absent"}
               /\ current.commit = state.commit
               /\ current.previous = state.previous
Continues ==
    \/ mode = "adopt" /\ state.phase = "absent" /\ current.phase = "succeeded"
    \/ /\ mode = "poll" /\ state.phase = "succeeded"
       /\ current.phase = "observed" /\ current.previous = state.commit
    \/ mode \in {"forward", "rollback", "handler"} /\ SameAttempt
    \/ mode = "recover" /\ current.phase = "failed" /\ SameAttempt
    \/ /\ mode = "recover" /\ state.phase = "failed"
       /\ current.phase = "succeeded" /\ current.commit = state.previous
    \/ /\ mode = "report" /\ current.phase = state.phase
       /\ current.commit = state.commit /\ current.previous = state.previous

AttemptInv == pc = "write" => Continues


\* A snapshot is written only over one that it continues.
LEMMA AttemptStep ==
    ASSUME IInv, [Next]_vars, AttemptInv
    PROVE  AttemptInv'
<1> USE DEF AttemptInv
<1>1. TypeOK /\ ControlInv /\ SyncInv /\ SoundInv
  BY DEF IInv
<1>2. SnapshotOK(current) /\ SnapshotOK(state)
  BY <1>1 DEF TypeOK
<1>3. CASE pc' # "write"
  BY <1>3
<1>4. CASE UNCHANGED <<pc, mode, current, state>>
  BY <1>4 DEF Continues, SameAttempt
<1>5. CASE Adopt
  <2>1. state.phase = "absent"
    BY <1>1, <1>5 DEF Adopt, ControlInv, PinInv, SyncInv
  <2> QED
    BY <1>1, <1>5, <2>1 DEF Adopt, Fresh, Continues, ControlInv, durable
<1>6. CASE Reconcile
  BY <1>1, <1>2, <1>6
     DEF Reconcile, Continues, SameAttempt, ControlInv, SyncInv, SnapshotOK,
         Snapshot
<1>7. CASE ObserveCandidate
  BY <1>1, <1>7
     DEF ObserveCandidate, Fresh, Continues, ControlInv, SyncInv, durable
<1>8. CASE Verify \/ Mirror \/ Recreate \/ Validate \/ Conclude \/ PullRevision
  <2>1. pc \in {"execute", "pull"} /\ Advance /\ UNCHANGED state
    BY <1>8
       DEF Verify, Mirror, Recreate, Validate, Conclude, PullRevision, durable
  <2> QED
    BY <1>1, <2>1, GoalCases, AdvanceOK DEF Continues, SameAttempt, SyncInv
<1>9. CASE WriteMetric
  BY <1>1, <1>2, <1>9
     DEF WriteMetric, AfterPhase, AfterObserve, AfterRecovery, AfterBaseline,
         EndRun, Continues, ControlInv, SyncInv, Fresh
<1>10. CASE Settle
  BY <1>1, <1>2, <1>10
     DEF Settle, EndRun, Continues, ControlInv, SyncInv, SnapshotOK, Snapshot,
         durable
<1>11. CASE CallFails \/ WriteFails
  <2>1. \/ mode = "rollback" /\ Handle
        \/ pc' # "write"
    BY <1>11 DEF CallFails, WriteFails, BeginRollback, EndRun
  <2>2. CASE mode = "rollback" /\ Handle
    <3>1. current.phase \notin {"absent", "observed", "verified", "mirrored",
                                "succeeded"}
      BY <1>1, <1>11, <2>2, RollbackHasAttempt DEF CallFails, WriteFails
    <3>2. SameAttempt
      BY <1>1, <1>11, <2>2, <3>1
         DEF CallFails, WriteFails, Continues, SameAttempt, SyncInv, ControlInv
    <3> QED
      BY <1>2, <1>11, <2>2, <3>1, <3>2, HandleOK
         DEF CallFails, WriteFails, Handle, Continues, SameAttempt, durable
  <2> QED
    BY <2>1, <2>2
<1> QED
  BY <1>3, <1>4, <1>5, <1>6, <1>7, <1>8, <1>9, <1>10, <1>11
     DEF Next, Agent, Publish, Start, Revalidate, ObserveNothing, PinRevision,
         WriteState, Report, ReportNothing, Deliver, DeliveryFails, Kill,
         Reboot, EndRun, vars, durable, run

\* The only ways state.json moves are the four of KindlePromotion.
LEMMA RefinesStep ==
    ASSUME IInv, AttemptInv, [Next]_vars
    PROVE  Promise!Next
<1> USE KindleAssumption DEF Baseline, Attempt
<1>1. /\ TypeOK /\ SoundInv /\ LiveInv
      /\ SnapshotOK(current) /\ SnapshotOK(state)
  BY DEF IInv, TypeOK
<1>2. main' >= main
  BY <1>1
     DEF Next, Agent, Publish, Start, Adopt, Revalidate, Reconcile,
         ObserveNothing, ObserveCandidate, Verify, Mirror, PinRevision,
         PullRevision, Recreate, Validate, Conclude, WriteState, WriteMetric,
         Report, ReportNothing, Deliver, DeliveryFails, Settle, CallFails,
         WriteFails, PartialEffect, Kill, Reboot, TypeOK, Commits, vars, world
<1>3. CASE state' = state
  BY <1>2, <1>3 DEF Promise!Next, Promise!Environment
<1>4. CASE state' # state
  <2>1. /\ pc = "write" /\ state' = current /\ Continues
        /\ UNCHANGED <<main, live>> /\ Sound(current) /\ VerdictTrue(current)
    BY <1>1, <1>4, StateWrites DEF AttemptInv, SoundInv, LiveInv
  <2>2. CASE mode = "adopt"
    <3>1. /\ state.phase = "absent" /\ current.phase = "succeeded"
          /\ state.commit = None /\ current.commit \in Commits
      BY <1>1, <2>1, <2>2 DEF Continues, SnapshotOK, Snapshot
    <3>2. Promise!Adopt
      BY <2>1, <3>1
         DEF Promise!Adopt, Promise!Serves, Promise!Commits, Promise!None,
             Commits, None, Sound, VerdictTrue, Serving
    <3> QED
      BY <3>2 DEF Promise!Next
  <2>3. CASE mode = "poll"
    <3>1. /\ state.phase = "succeeded" /\ current.phase = "observed"
          /\ current.previous = state.commit /\ current.previous # None
          /\ current.commit \in Commits /\ state.commit \in Commits
      BY <1>1, <2>1, <2>3 DEF Continues, SnapshotOK, Snapshot, None
    <3>2. Promise!Begin
      BY <2>1, <3>1
         DEF Promise!Begin, Promise!NextRelease, Promise!Commits, Promise!None,
             Commits, None, Sound, Follows
    <3> QED
      BY <3>2 DEF Promise!Next
  <2>4. CASE SameAttempt /\ current.phase # "succeeded"
    BY <1>2, <2>1, <2>4 DEF SameAttempt, Promise!Next, Promise!Environment
  <2>5. CASE SameAttempt /\ current.phase = "succeeded"
    BY <1>1, <2>1, <2>5
       DEF SameAttempt, Promise!Next, Promise!Promote, Promise!Serves,
           Promise!None, None, Sound, VerdictTrue, Serving, SnapshotOK
  <2>6. CASE /\ mode = "recover" /\ state.phase = "failed"
             /\ current.phase = "succeeded" /\ current.commit = state.previous
    BY <1>1, <2>1, <2>6
       DEF Promise!Next, Promise!GiveUp, Promise!Serves, Promise!None, None,
           VerdictTrue, Serving, SnapshotOK
  <2>7. CASE /\ mode = "report" /\ current.phase = state.phase
             /\ current.commit = state.commit
             /\ current.previous = state.previous
    BY <1>2, <2>1, <2>7 DEF Promise!Next, Promise!Environment
  <2> QED
    BY <2>1, <2>2, <2>3, <2>4, <2>5, <2>6, <2>7 DEF Continues
<1> QED
  BY <1>3, <1>4

\* Releases are attempted one at a time and in history order, and the baseline
\* moves only as KindlePromotion promises.
THEOREM Implements == Spec => PromotesInOrder
<1>1. Init => AttemptInv /\ Promise!Init
  BY DEF Init, AttemptInv, Promise!Init, Promise!None, None, NoSnapshot, Fresh,
     Baseline, Attempt
<1>2. Spec => [](IInv /\ AttemptInv)
  BY <1>1, Invariant, AttemptStep, PTL DEF Spec
<1>3. IInv /\ AttemptInv /\ [Next]_vars => [Promise!Next]_(Promise!vars)
  BY RefinesStep
<1> QED
  BY <1>1, <1>2, <1>3, PTL DEF Spec, PromotesInOrder, Promise!Spec

-----------------------------------------------------------------------------
(* The reports: the inductive invariant. *)

\* The phases that end an attempt.
Terminal == {"succeeded", "failed"}

\* A terminal state.json is never simply forgotten: its verdict reached both
\* sinks, or the degradation that makes the next run try again is in it, or
\* the run that had to report it was cut short.
Accounted == state.phase \in Terminal => Reported \/ state.degraded \/ cut

\* How the snapshot of a run differs from the one it loaded.  Only a poll that
\* finds nothing new ends with the snapshot it began with, and so with nothing
\* to report.
LoadedInv ==
    /\ mode = "adopt" => initial.phase = "absent"
    /\ mode = "recover" => initial.phase = "failed"
    /\ mode = "poll" /\ pc \notin {"write", "metric"} => current = initial
    /\ mode = "poll" /\ pc \in {"write", "metric"} =>
          current.commit # initial.commit
    /\ mode \in {"forward", "rollback", "handler"} =>
          \/ initial.phase \notin Terminal
          \/ current.commit # initial.commit
    /\ pc = "report" =>
          /\ mode # "report"
          /\ mode = "recover" => current.phase = "succeeded"

\* What the run knows of its own report.
SinksInv ==
    /\ pc = "discord" /\ ~errors => told["github"] = Verdict(current)
    /\ pc = "settle" /\ ~errors => \A s \in Sinks : told[s] = Verdict(current)
    /\ mode = "report" /\ pc \in {"write", "metric"} =>
          /\ current.degraded = errors
          /\ errors \/ \A s \in Sinks : told[s] = Verdict(current)

\* Nothing is forgotten between runs, or by a run that has nothing to write.
AccountedInv ==
    pc = "idle" \/ (mode = "poll" /\ pc \notin {"write", "metric"}) => Accounted

ReportInv == LoadedInv /\ SinksInv /\ AccountedInv

-----------------------------------------------------------------------------
(* Every step preserves it. *)

\* A step of the agent with its history is a step of the agent.
LEMMA HistoryIsNext ==
    ASSUME HistoryNext
    PROVE  Next /\ Remember
  BY DEF HistoryNext, Next

\* The snapshot a run works on has left the one it loaded behind as soon as it
\* writes anything.
LEMMA LoadedStep ==
    ASSUME IInv, LoadedInv, Next
    PROVE  LoadedInv'
<1> USE DEF LoadedInv, Terminal
<1>1. TypeOK /\ ControlInv /\ SyncInv
  BY DEF IInv
<1>2. SnapshotOK(current) /\ SnapshotOK(state)
  BY <1>1 DEF TypeOK
<1>3. CASE Publish \/ Reboot
  BY <1>3 DEF Publish, Reboot, run
<1>4. CASE Start
  BY <1>1, <1>2, <1>4 DEF Start, SnapshotOK, Snapshot
<1>5. CASE Adopt
  BY <1>1, <1>5 DEF Adopt, ControlInv
<1>6. CASE ObserveCandidate
  <2>1. PICK d \in Candidates(current.commit) :
           current' = Fresh(d, "observed", current.commit)
    BY <1>6 DEF ObserveCandidate
  <2>2. current'.commit # current.commit /\ current = initial
    BY <1>1, <1>2, <1>6, <2>1
       DEF ObserveCandidate, ControlInv, Fresh, Candidates, Commits, None,
           SnapshotOK, Snapshot
  <2> QED
    BY <1>1, <1>6, <2>2 DEF ObserveCandidate, ControlInv
<1>7. CASE Revalidate \/ Reconcile \/ ObserveNothing
  BY <1>1, <1>7 DEF Revalidate, Reconcile, ObserveNothing, ControlInv
<1>8. CASE Verify \/ Mirror \/ Recreate \/ Validate \/ Conclude \/ PullRevision
  <2>1. pc \in {"execute", "pull"} /\ Advance
    BY <1>8 DEF Verify, Mirror, Recreate, Validate, Conclude, PullRevision
  <2> QED
    BY <1>1, <1>2, <2>1 DEF Advance, ControlInv, SnapshotOK, Snapshot
<1>9. CASE PinRevision \/ WriteState
  BY <1>1, <1>9 DEF PinRevision, WriteState, ControlInv
<1>10. CASE WriteMetric
  <2>1. CASE AfterPhase
    BY <1>1, <1>10, <2>1 DEF WriteMetric, AfterPhase, ControlInv
  <2>2. CASE AfterObserve
    BY <1>1, <1>10, <2>2 DEF WriteMetric, AfterObserve, ControlInv
  <2>3. CASE AfterRecovery
    BY <1>1, <1>10, <2>3 DEF WriteMetric, AfterRecovery, ControlInv
  <2>4. CASE AfterBaseline
    BY <1>1, <1>10, <2>4 DEF WriteMetric, AfterBaseline, ControlInv
  <2> QED
    BY <1>10, <2>1, <2>2, <2>3, <2>4 DEF WriteMetric, EndRun
<1>11. CASE \/ Report \/ ReportNothing
            \/ Deliver("github", "discord") \/ Deliver("discord", "settle")
            \/ DeliveryFails("github", "discord")
            \/ DeliveryFails("discord", "settle")
  BY <1>1, <1>11
     DEF Report, ReportNothing, Deliver, DeliveryFails, EndRun, ControlInv
<1>12. CASE Settle
  BY <1>1, <1>12 DEF Settle, EndRun, ControlInv
<1>13. CASE CallFails \/ WriteFails \/ Kill
  <2>1. CASE EndRun("raised") \/ EndRun("killed")
    BY <2>1 DEF EndRun
  <2>2. CASE mode = "rollback" /\ Handle
    BY <1>1, <1>2, <2>2 DEF Handle, SnapshotOK, Snapshot
  <2>3. CASE mode = "forward" /\ BeginRollback
    BY <2>3 DEF BeginRollback
  <2> QED
    BY <1>13, <2>1, <2>2, <2>3 DEF CallFails, WriteFails, Kill
<1> QED
  BY <1>3, <1>4, <1>5, <1>6, <1>7, <1>8, <1>9, <1>10, <1>11, <1>12, <1>13
     DEF Next, Agent

\* A sink that refuses the report is remembered until the run has written it.
LEMMA SinksStep ==
    ASSUME IInv, SinksInv, Next
    PROVE  SinksInv'
<1> USE DEF SinksInv
<1>1. TypeOK /\ ControlInv
  BY DEF IInv
<1>2. SnapshotOK(current) /\ DOMAIN told = Sinks
  BY <1>1 DEF TypeOK
<1>3. CASE Publish \/ Reboot \/ Start
  BY <1>1, <1>3 DEF Publish, Reboot, Start, ControlInv, run
<1>4. CASE Deliver("github", "discord") \/ DeliveryFails("github", "discord")
  BY <1>2, <1>4 DEF Deliver, DeliveryFails, Sinks
<1>5. CASE Deliver("discord", "settle") \/ DeliveryFails("discord", "settle")
  BY <1>2, <1>5 DEF Deliver, DeliveryFails, Sinks
<1>6. CASE Settle
  <2>1. errors \in BOOLEAN /\ DOMAIN current = DOMAIN NoSnapshot
    BY <1>1, <1>2 DEF TypeOK, SnapshotOK, Snapshot, NoSnapshot, Fresh
  <2>2. CASE errors \/ current.degraded
    <3>1. /\ current'.degraded = errors /\ errors' = errors
          /\ Verdict(current') = Verdict(current)
          /\ told' = told /\ pc' = "write"
      BY <1>2, <1>6, <2>2 DEF Settle, EndRun, Verdict, SnapshotOK, Snapshot
    <3> QED
      BY <1>6, <3>1 DEF Settle
  <2>3. CASE ~errors /\ ~current.degraded
    BY <1>6, <2>3 DEF Settle, EndRun
  <2> QED
    BY <2>2, <2>3
<1>7. CASE WriteState
  BY <1>7 DEF WriteState
<1>8. CASE WriteMetric
  BY <1>1, <1>8
     DEF WriteMetric, AfterPhase, AfterObserve, AfterRecovery, AfterBaseline,
         EndRun, ControlInv
<1>9. CASE Verify \/ Mirror \/ Recreate \/ Validate \/ Conclude \/ PullRevision
  <2>1. pc \in {"execute", "pull"} /\ Advance
    BY <1>9 DEF Verify, Mirror, Recreate, Validate, Conclude, PullRevision
  <2> QED
    BY <1>1, <2>1 DEF Advance, ControlInv
<1>10. CASE \/ Adopt \/ Revalidate \/ Reconcile \/ ObserveNothing
            \/ ObserveCandidate \/ PinRevision \/ Report \/ ReportNothing
  BY <1>1, <1>10
     DEF Adopt, Revalidate, Reconcile, ObserveNothing, ObserveCandidate,
         PinRevision, Report, ReportNothing, EndRun, ControlInv
<1>11. CASE CallFails \/ WriteFails \/ Kill
  BY <1>11 DEF CallFails, WriteFails, Kill, EndRun, Handle, BeginRollback
<1> QED
  BY <1>3, <1>4, <1>5, <1>6, <1>7, <1>8, <1>9, <1>10, <1>11 DEF Next, Agent

\* A step that changes neither state.json nor what the sinks were told
\* accounts for the verdict as it was accounted for.
LEMMA StaysAccounted ==
    ASSUME Accounted, Remember, state' = state, told' = told
    PROVE  Accounted'
  BY DEF Accounted, Remember, Reported, Verdict, Terminal

\* A step that ends a run early is remembered in cut.
LEMMA CutIsRemembered ==
    ASSUME Remember, pc # "idle", pc' = "idle", outcome' # "exit"
    PROVE  Accounted'
  BY DEF Accounted, Remember, Terminal

\* A run that returns has told both sinks, or has written that it could not.
LEMMA ExitAccounts ==
    ASSUME IInv, ReportInv, Next, Remember, pc # "idle", pc' = "idle",
           outcome' = "exit"
    PROVE  Accounted'
<1>1. TypeOK /\ ControlInv /\ SyncInv /\ LoadedInv /\ SinksInv /\ AccountedInv
  BY DEF IInv, ReportInv
<1>2. \/ WriteMetric /\ mode = "report"
      \/ ReportNothing
      \/ Settle /\ ~errors /\ ~current.degraded
  <2>1. /\ ~Publish /\ ~Start /\ ~Kill /\ ~Reboot /\ ~CallFails /\ ~WriteFails
    BY DEF Publish, Start, Kill, Reboot, CallFails, WriteFails, EndRun, Handle,
           BeginRollback, run
  <2>2. /\ ~Verify /\ ~Mirror /\ ~Recreate /\ ~Validate /\ ~Conclude
        /\ ~PullRevision /\ ~PinRevision
    BY DEF Verify, Mirror, Recreate, Validate, Conclude, PullRevision,
           PinRevision, Advance
  <2>3. /\ ~Adopt /\ ~Revalidate /\ ~Reconcile /\ ~ObserveNothing
        /\ ~ObserveCandidate /\ ~WriteState /\ ~Report
        /\ ~Deliver("github", "discord") /\ ~Deliver("discord", "settle")
        /\ ~DeliveryFails("github", "discord")
        /\ ~DeliveryFails("discord", "settle")
    BY DEF Adopt, Revalidate, Reconcile, ObserveNothing, ObserveCandidate,
           WriteState, Report, Deliver, DeliveryFails
  <2>4. WriteMetric => mode = "report"
    BY DEF WriteMetric, AfterPhase, AfterObserve, AfterRecovery, AfterBaseline
  <2>5. Settle => ~errors /\ ~current.degraded
    BY DEF Settle
  <2> QED
    BY <2>1, <2>2, <2>3, <2>4, <2>5 DEF Next, Agent
<1>3. CASE WriteMetric /\ mode = "report"
  <2>1. /\ state' = state /\ told' = told /\ state = current
        /\ current.phase \in Terminal
        /\ state.degraded \/ \A s \in Sinks : told[s] = Verdict(current)
    BY <1>1, <1>3 DEF WriteMetric, SyncInv, SinksInv, ControlInv, Terminal
  <2> QED
    BY <2>1 DEF Accounted, Reported, Terminal, Verdict
<1>4. CASE ReportNothing
  <2>1. current = initial /\ initial.phase # "absent" /\ pc = "report"
        /\ state' = state /\ told' = told
    BY <1>4 DEF ReportNothing, durable
  <2>2. mode \in {"adopt", "poll", "recover", "forward", "rollback", "handler"}
    BY <1>1, <2>1 DEF TypeOK, ControlInv, LoadedInv
  <2>3. mode = "poll"
    BY <1>1, <2>1, <2>2 DEF LoadedInv, ControlInv, Terminal
  <2> QED
    BY <1>1, <2>1, <2>3, StaysAccounted DEF AccountedInv
<1>5. CASE Settle /\ ~errors /\ ~current.degraded
  <2>1. /\ state' = state /\ told' = told /\ state = current
        /\ current.phase \in Terminal
        /\ \A s \in Sinks : told[s] = Verdict(current)
    BY <1>1, <1>5 DEF Settle, SyncInv, SinksInv, ControlInv, Terminal, durable
  <2> QED
    BY <2>1 DEF Accounted, Reported, Terminal, Verdict
<1> QED
  BY <1>2, <1>3, <1>4, <1>5

\* Nothing is forgotten between runs.
LEMMA AccountedStep ==
    ASSUME IInv, ReportInv, HistoryNext
    PROVE  AccountedInv'
<1> USE DEF AccountedInv
<1>1. /\ Next /\ Remember /\ TypeOK /\ ControlInv
      /\ LoadedInv /\ AccountedInv
  BY HistoryIsNext DEF IInv, ReportInv
<1>2. CASE pc # "idle" /\ pc' = "idle"
  BY <1>1, <1>2, ExitAccounts, CutIsRemembered
<1>3. CASE pc = "idle"
  <2>1. Publish \/ Start \/ Reboot
    BY <1>1, <1>3
       DEF Next, Agent, Adopt, Revalidate, Reconcile, ObserveNothing,
           ObserveCandidate, Verify, Mirror, PinRevision, PullRevision,
           Recreate, Validate, Conclude, WriteState, WriteMetric, Report,
           ReportNothing, Deliver, Settle, CallFails, WriteFails,
           DeliveryFails, Kill
  <2>2. state' = state /\ told' = told
    BY <2>1 DEF Publish, Start, Reboot, durable
  <2> QED
    BY <1>1, <1>3, <2>2, StaysAccounted
<1>4. CASE pc # "idle" /\ pc' # "idle"
  <2>1. CASE mode' # "poll" \/ pc' \in {"write", "metric"}
    BY <1>4, <2>1
  <2>2. CASE mode' = "poll" /\ pc' \notin {"write", "metric"}
    <3>1. Publish \/ Revalidate \/ Reconcile \/ ObserveNothing
      <4>1. mode = "poll"
        BY <1>1, <1>4, <2>2
           DEF Next, Agent, Adopt, Revalidate, Reconcile, ObserveNothing,
               ObserveCandidate, Verify, Mirror, PinRevision, PullRevision,
               Recreate, Validate, Conclude, Advance, WriteState, WriteMetric,
               AfterPhase, AfterObserve, AfterRecovery, AfterBaseline, EndRun,
               Report, ReportNothing, Deliver, Settle, CallFails, WriteFails,
               Handle, BeginRollback, DeliveryFails, Kill, Publish, Start,
               Reboot, run
      <4> QED
        BY <1>1, <1>4, <2>2, <4>1
           DEF Next, Agent, Adopt, ControlInv,
               ObserveCandidate, Verify, Mirror, PinRevision, PullRevision,
               Recreate, Validate, Conclude, Advance, WriteState, WriteMetric,
               AfterPhase, AfterObserve, AfterRecovery, AfterBaseline, EndRun,
               Report, ReportNothing, Deliver, Settle, CallFails, WriteFails,
               Handle, BeginRollback, DeliveryFails, Kill, Start, Reboot
    <3>2. /\ state' = state /\ told' = told
          /\ mode = "poll" /\ pc \notin {"write", "metric"}
      BY <2>2, <3>1
         DEF Publish, Revalidate, Reconcile, ObserveNothing, durable, run
    <3> QED
      BY <1>1, <3>2, StaysAccounted
  <2> QED
    BY <2>1, <2>2
<1> QED
  BY <1>2, <1>3, <1>4

\* Together: the invariant is inductive.
LEMMA HistoryStep ==
    IInv /\ ReportInv /\ [HistoryNext]_historyVars => ReportInv'
<1>1. ASSUME IInv, ReportInv, HistoryNext PROVE ReportInv'
  BY <1>1, HistoryIsNext, LoadedStep, SinksStep, AccountedStep DEF ReportInv
<1>2. ASSUME ReportInv, UNCHANGED historyVars PROVE ReportInv'
  BY <1>2
     DEF ReportInv, LoadedInv, SinksInv, AccountedInv, Accounted, Reported,
         Verdict, historyVars, vars, durable, run
<1> QED
  BY <1>1, <1>2

-----------------------------------------------------------------------------
(* The theorems about the reports. *)

\* The history variables only watch: what is proved of the agent holds of it
\* with them as well.
LEMMA HistoryIsSpec == HistorySpec => Spec
<1>1. HistoryInit => Init
  BY DEF HistoryInit
<1>2. [HistoryNext]_historyVars => [Next]_vars
  BY HistoryIsNext DEF historyVars
<1> QED
  BY <1>1, <1>2, PTL DEF HistorySpec, Spec

\* The invariant holds of every state the agent can reach.
THEOREM ReportInvariant == HistorySpec => []ReportInv
<1>1. HistoryInit => ReportInv
  BY DEF HistoryInit, Init, ReportInv, LoadedInv, SinksInv, AccountedInv,
         Accounted, Terminal, NoSnapshot, Fresh
<1> QED
  BY <1>1, HistoryStep, HistoryIsSpec, Invariant, PTL DEF HistorySpec

\* A run that returns leaves either both sinks with the verdict of state.json
\* or a degradation in it that makes the next run try again, unless a run was
\* cut short before it had reported.
THEOREM VerdictAlwaysReported == HistorySpec => []VerdictReported
<1>1. IInv /\ ReportInv => VerdictReported
  BY DEF IInv, ReportInv, AccountedInv, Accounted, Terminal, VerdictReported,
         CleanExitProjects
<1> QED
  BY <1>1, HistoryIsSpec, Invariant, ReportInvariant, PTL
=============================================================================
