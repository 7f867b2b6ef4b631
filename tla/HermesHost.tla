------------------------------ MODULE HermesHost ------------------------------
(***************************************************************************)
(* The agent of HermesAgent under the backup of its state,                 *)
(* scripts/hermes-state-backup.sh: a supervisor on the host stops the      *)
(* health timer, the health check and the container, archives the home of  *)
(* the agent, compares what the repository gives back with the home, and   *)
(* starts again what it found active.  No lock keeps two backups apart.    *)
(*                                                                         *)
(* The home is the ledger and the session database, which grows with every *)
(* message.  One agent stands for two.  The units are external, and so is  *)
(* the local side of the backup: any of its failures closes the pipe, and  *)
(* is a failure of the step the supervisor is in.  preflight and rehearse  *)
(* change no unit and are left out.                                        *)
(***************************************************************************)
EXTENDS HermesAgent

CONSTANT Supervisors   \* the remote processes that backups may have at one time

VARIABLES
    timer,      \* the health timer: "active", "inactive" or "absent"
    health,     \* the health check: those, "activating" or "failed"
    supervisor, \* the remote process of each backup
    outcome,    \* how the last backup ended
    backups,
    stranded    \* history: a backup was cut short, could not start a unit, or
                \* stopped what another backup had started meanwhile

units == <<timer, health, writer>>
vars == <<agentVars, timer, health, supervisor, outcome, backups, stranded>>

NoCopy == [ledger |-> Corrupt, db |-> 0]
Absent == [at |-> "absent", prior |-> [timer |-> "absent", writer |-> "absent"],
           copy |-> NoCopy, matched |-> FALSE, ok |-> FALSE]

\* The files of the home.
Source == [ledger |-> file, db |-> Len(turns)]

\* systemctl show: a unit that is neither active nor inactive is refused.
Readable == health \notin {"activating", "failed"}

Init ==
    /\ AgentInit
    /\ timer \in {"active", "absent"}
    /\ health = IF timer = "absent" THEN "absent" ELSE "inactive"
    /\ supervisor = [b \in Supervisors |-> Absent] /\ outcome = "none"
    /\ backups = 0 /\ stranded = FALSE

-----------------------------------------------------------------------------
(* The units. *)

HealthFires ==
    /\ timer = "active" /\ health \in {"inactive", "failed"}
    /\ health' \in {"active", "activating"}
    /\ UNCHANGED <<agentVars, timer, supervisor, outcome, backups, stranded>>

HealthEnds ==
    /\ health \in {"active", "activating"}
    /\ health' \in {"inactive", "failed"}
    /\ UNCHANGED <<agentVars, timer, supervisor, outcome, backups, stranded>>

\* A deployment starts what is declared.
Deploy ==
    /\ Mishap
    /\ writer = "inactive"
    /\ AgentStarts
    /\ timer' = IF timer = "absent" THEN timer ELSE "active"
    /\ UNCHANGED <<bounds, notices, grafana, turns, pending, file, clock,
                   sightings, overwritten, pauses, queue, runner, recorded,
                   audit, restarted, unrecorded, health, supervisor, outcome,
                   backups, stranded>>

-----------------------------------------------------------------------------
(* A supervisor. *)

At(b, step) == supervisor[b].at = step
Goes(b, step) == supervisor' = [supervisor EXCEPT ![b].at = step]
Ends(b, how) == supervisor' = [supervisor EXCEPT ![b] = Absent] /\ outcome' = how
Other == UNCHANGED <<backups, stranded>>

\* What another backup has stopped at that moment is found inactive.
Begin(b) ==
    /\ At(b, "absent") /\ backups < bounds.backups
    /\ backups' = backups + 1
    /\ IF Readable
       THEN /\ supervisor' = [supervisor EXCEPT ![b] = [Absent EXCEPT
                 !.at = "stop-timer",
                 !.prior = [timer |-> timer, writer |-> writer]]]
            /\ outcome' = "none"
       ELSE /\ UNCHANGED supervisor
            /\ outcome' = "failed"
    /\ UNCHANGED <<agentVars, timer, health, stranded>>

StopTimer(b) ==
    /\ At(b, "stop-timer")
    /\ timer' = IF timer = "absent" THEN timer ELSE "inactive"
    /\ Goes(b, "stop-health")
    /\ UNCHANGED <<agentVars, health, outcome>> /\ Other

\* A check that has failed stays failed.
StopHealth(b) ==
    /\ At(b, "stop-health")
    /\ health' = IF health \in {"absent", "failed"} THEN health ELSE "inactive"
    /\ Goes(b, "stop-writer")
    /\ UNCHANGED <<agentVars, timer, outcome>> /\ Other

\* An agent that was found inactive is stopped as well, and will not be started.
StopWriter(b) ==
    /\ At(b, "stop-writer")
    /\ AgentStops
    /\ Goes(b, "confirm")
    /\ stranded' = \/ stranded
                   \/ writer = "active" /\ supervisor[b].prior.writer = "inactive"
    /\ UNCHANGED <<bounds, notices, grafana, file, clock, sightings,
                   overwritten, pauses, ops, mishaps, timer, health, outcome,
                   backups>>

Confirm(b) ==
    /\ At(b, "confirm")
    /\ Goes(b, IF Readable /\ "active" \notin {timer, health, writer}
               THEN "archive-ledger" ELSE "finally")
    /\ UNCHANGED <<agentVars, timer, health, outcome>> /\ Other

ArchiveLedger(b) ==
    /\ At(b, "archive-ledger")
    /\ supervisor' = [supervisor EXCEPT ![b].at = "archive-database",
                                        ![b].copy.ledger = file]
    /\ UNCHANGED <<agentVars, timer, health, outcome>> /\ Other

\* The archive is complete: it may be what the home is at this moment.
ArchiveDatabase(b) ==
    /\ At(b, "archive-database")
    /\ supervisor' = [supervisor EXCEPT
                        ![b].at = "compare-ledger",
                        ![b].copy.db = Len(turns),
                        ![b].matched = supervisor[b].copy.ledger = file]
    /\ UNCHANGED <<agentVars, timer, health, outcome>> /\ Other

\* Mutant: only the database is compared.
CompareLedgerNever(b) ==
    /\ At(b, "compare-ledger")
    /\ supervisor' = [supervisor EXCEPT
                        ![b].at = "compare-database",
                        ![b].matched = @ \/ supervisor[b].copy = Source]
    /\ UNCHANGED <<agentVars, timer, health, outcome>> /\ Other

CompareLedger(b) ==
    /\ At(b, "compare-ledger")
    /\ supervisor' = [supervisor EXCEPT
                        ![b].at = IF supervisor[b].copy.ledger = file
                                  THEN "compare-database" ELSE "finally",
                        ![b].matched = @ \/ supervisor[b].copy = Source]
    /\ UNCHANGED <<agentVars, timer, health, outcome>> /\ Other

CompareDatabase(b) ==
    /\ At(b, "compare-database")
    /\ supervisor' = [supervisor EXCEPT
                        ![b].at = "finally",
                        ![b].ok = supervisor[b].copy.db = Len(turns),
                        ![b].matched = @ \/ supervisor[b].copy = Source]
    /\ UNCHANGED <<agentVars, timer, health, outcome>> /\ Other

\* Mutant: the stops are not part of what is recovered from.
FailsBeforeTry(b) ==
    /\ \/ /\ supervisor[b].at \in {"stop-timer", "stop-health", "stop-writer",
                                   "confirm"}
          /\ Ends(b, "failed")
       \/ /\ supervisor[b].at \in {"archive-ledger", "archive-database",
                                   "compare-ledger", "compare-database"}
          /\ Goes(b, "finally") /\ UNCHANGED outcome
    /\ UNCHANGED <<agentVars, timer, health>> /\ Other

\* A command, the repository or the transport fails, or a signal arrives.
Fails(b) ==
    /\ supervisor[b].at \in {"stop-timer", "stop-health", "stop-writer",
                             "confirm", "archive-ledger", "archive-database",
                             "compare-ledger", "compare-database"}
    /\ Goes(b, "finally")
    /\ UNCHANGED <<agentVars, timer, health, outcome>> /\ Other

\* From here on signals are ignored.
Recover(b) ==
    /\ At(b, "finally")
    /\ Goes(b, "start-writer")
    /\ UNCHANGED <<agentVars, timer, health, outcome>> /\ Other

\* A signal before that ends the recovery, and a kill ends it anywhere.
CutShort(b) ==
    /\ Mishap
    /\ ~At(b, "absent")
    /\ Ends(b, IF At(b, "finally") THEN "failed" ELSE "killed")
    /\ stranded' = TRUE
    /\ UNCHANGED <<bounds, agent, ops, timer, health, backups>>

StartWriter(b) ==
    /\ At(b, "start-writer")
    /\ IF supervisor[b].prior.writer = "active" /\ writer = "inactive"
       THEN AgentStarts ELSE UNCHANGED <<writer, mounted>>
    /\ Goes(b, "start-timer")
    /\ UNCHANGED <<bounds, notices, grafana, turns, pending, file, clock,
                   sightings, overwritten, pauses, queue, runner, recorded,
                   audit, restarted, unrecorded, mishaps, timer, health,
                   outcome>>
    /\ Other

StartTimer(b) ==
    /\ At(b, "start-timer")
    /\ timer' = IF supervisor[b].prior.timer = "active" THEN "active" ELSE timer
    /\ Goes(b, "recheck")
    /\ UNCHANGED <<agentVars, health, outcome>> /\ Other

\* A unit that does not start is no reason not to try the next.
StartFails(b) ==
    /\ Mishap
    /\ \/ /\ At(b, "start-writer") /\ supervisor[b].prior.writer = "active"
          /\ Goes(b, "start-timer")
       \/ /\ At(b, "start-timer") /\ supervisor[b].prior.timer = "active"
          /\ Goes(b, "recheck")
    /\ stranded' = TRUE
    /\ UNCHANGED <<bounds, agent, ops, timer, health, outcome, backups>>

Recheck(b) ==
    /\ At(b, "recheck")
    /\ Ends(b, IF ~Readable \/ supervisor[b].prior
                                 # [timer |-> timer, writer |-> writer]
               THEN "attention"
               ELSE IF supervisor[b].ok THEN "passed" ELSE "failed")
    /\ UNCHANGED <<agentVars, timer, health>> /\ Other

Supervise(b) ==
    \/ Begin(b) \/ StopTimer(b) \/ StopHealth(b) \/ StopWriter(b) \/ Confirm(b)
    \/ ArchiveLedger(b) \/ ArchiveDatabase(b)
    \/ CompareLedger(b) \/ CompareDatabase(b)
    \/ Fails(b) \/ Recover(b) \/ CutShort(b)
    \/ StartWriter(b) \/ StartTimer(b) \/ StartFails(b) \/ Recheck(b)

Next ==
    \/ AgentNext /\ UNCHANGED <<timer, health, supervisor, outcome, backups,
                                stranded>>
    \/ HealthFires \/ HealthEnds \/ Deploy
    \/ \E b \in Supervisors : Supervise(b)

Spec == Init /\ [][Next]_vars
-----------------------------------------------------------------------------
VerdictType ==
    [kind : {"none", "unknown", "new", "new_episode", "repeat", "resolved"},
     family : Families \cup {0}, since : 0 .. MaxNotices,
     count : 0 .. MaxNotices]

InstanceType ==
    [family : Families, since : 1 .. MaxNotices, resolved : BOOLEAN]

EpisodeType ==
    [since : 1 .. MaxNotices, count : 1 .. MaxNotices, resolved : BOOLEAN,
     seen : Nat]

LedgerOK(l) ==
    \/ l = Corrupt
    \/ DOMAIN l \subseteq Families /\ \A f \in DOMAIN l :
                                        Range(l[f]) \subseteq EpisodeType

TurnOK(turn) ==
    /\ turn.at \in {"thinking", "asking", "loaded", "done"}
    /\ Range(turn.notice) \subseteq InstanceType
    /\ turn.verdict \in VerdictType
    /\ LedgerOK(turn.copy)
    /\ turn.asks \in 0 .. bounds.asks
    /\ turn.told \in {"nothing", "unavailable", "restarted", "refused",
                      "failed"}

RequestType == [turn : Turns, ask : 1 .. bounds.asks, target : Targets]

TypeOK ==
    /\ \A t \in Turns : TurnOK(turns[t])
    /\ Range(pending) \subseteq Turns /\ IsInjective(pending)
    /\ Len(pending) <= MaxPending
    /\ LedgerOK(file)
    /\ Range(queue) \subseteq RequestType /\ Len(queue) <= Backlog + 1
    /\ runner.at \in {"idle", "down", "restarting", "recording", "auditing",
                     "answering"}
    /\ runner.job \in RequestType \cup {None}
    /\ recorded \subseteq Allowed
    /\ audit \subseteq Turns \X (1 .. bounds.asks)
    /\ {timer, writer} \subseteq {"active", "inactive", "absent"}
    /\ health \in {"active", "inactive", "absent", "activating", "failed"}
    /\ outcome \in {"none", "passed", "failed", "attention", "killed"}

\* A backup passes only when its archive is the home as it was at one moment
\* (send_archive and verify, hermes-state-backup.sh:112-124, 233-262), even
\* when a deployment, or another backup that ends, starts the agent while its
\* files are read one by one.
PassIsAMoment ==
    \A b \in Supervisors : supervisor[b].ok => supervisor[b].matched

\* The agent is down only while a backup that found it active has it stopped,
\* unless a backup was killed, interrupted in the window before it ignores
\* signals, or could not start it (remote, 280-325), or two overlapped: one that
\* began while another had the agent stopped stops it again after the other, or a
\* deployment, has started it, and leaves it so.  The runbook names concurrency
\* as a limit (hermes-state-backup-one-pager.md:98).  Every other failure, at any
\* step, reaches the recovery with the state that was found before the first stop.
DownOnlyInBackup ==
    writer = "inactive" =>
        \/ stranded
        \/ \E b \in Supervisors :
              /\ supervisor[b].prior.writer = "active"
              /\ supervisor[b].at \in
                    {"confirm", "archive-ledger", "archive-database",
                     "compare-ledger", "compare-database", "finally",
                     "start-writer"}
=============================================================================
