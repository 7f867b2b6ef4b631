----------------------------- MODULE HermesAgent -----------------------------
(***************************************************************************)
(* Argus, the agent that answers Grafana's notices, with the two plugins   *)
(* that keep state between its turns, and the runner on the host that      *)
(* restarts containers for it:                                             *)
(*                                                                         *)
(*   hermes-plugins/alert-dedupe  pre_llm_call, transform_llm_output       *)
(*   hermes-plugins/ops-fix       handler, request                         *)
(*   services/ops-fix             ops-fix-runner.py and its unit           *)
(*                                                                         *)
(* A turn is one message answered by the agent.  Turns run at the same     *)
(* time in one process; its memory (the pending verdicts) dies with its    *)
(* container, the ledger file and the runner's files survive.  Each hook   *)
(* is called at most once in a turn, so that _EMITTED never decides.       *)
(***************************************************************************)
EXTENDS AlertLedger

CONSTANTS
    None,
    Families,       \* the alerts of Grafana, in the order a notice lists them
    Targets,        \* the containers a turn may name
    Allowed,        \* the allowlist of the runner
    MaxPending,     \* MAX_PENDING
    Backlog,        \* the backlog of the runner's socket
    Worlds          \* the bounds a behaviour may have, a set of World

\* The notices, the other messages, the requests of a turn to the runner, the
\* failed writes, lost files, kills and deployments, the pauses longer than
\* MaxAge, and the backups of a behaviour: a bound on each.
World == [notices : Nat, chats : Nat, asks : Nat, mishaps : Nat, pauses : Nat,
          backups : Nat]

ASSUME AgentAssumption ==
    /\ Families \subseteq Nat \ {0} /\ IsFiniteSet(Families)
    /\ Allowed \subseteq Targets
    /\ {MaxEpisodes, MaxFamilies, MaxPending, MaxAge} \subseteq Nat \ {0}
    /\ Backlog \in Nat
    /\ Worlds \subseteq World /\ IsFiniteSet(Worlds)

VARIABLES
    bounds,     \* how often what is not bounded by the code happens
    notices,    \* the notices sent
    grafana,    \* each alert: its last start, and whether it fires
    turns,      \* the turns, in the order of their messages
    pending,    \* _PENDING: the turns with a verdict, the oldest first
    file,       \* the ledger file
    clock,      \* the time, in commits
    writer,     \* the agent's container: "active" or "inactive"
    mounted,    \* its /run/ops-fix is the directory the runner listens in
    queue,      \* connections the runner has not accepted
    runner,     \* the runner and the request it handles
    recorded,   \* state.json: targets with an action in the last interval
    audit,      \* audit.jsonl: the requests with a line
    mishaps, pauses,
    sightings,  \* history: the commits of each episode
    overwritten,\* history: a commit replaced another that it had not read
    restarted,  \* history: restarts of each target in the interval
    unrecorded  \* history: those of them that state.json never showed

agent == <<notices, grafana, turns, pending, file, clock, writer, sightings,
           overwritten, pauses>>
ops == <<queue, runner, recorded, audit, restarted, unrecorded, mounted>>
agentVars == <<bounds, agent, ops, mishaps>>

Done == [at |-> "done", notice |-> <<>>, verdict |-> NoVerdict,
         copy |-> Empty, asks |-> 0, told |-> "nothing"]

Idle == [at |-> "idle", job |-> None, reply |-> "nothing"]
Down == [Idle EXCEPT !.at = "down"]

Turns == DOMAIN turns
Thinking(t) == writer = "active" /\ turns[t].at = "thinking"
Mishap == mishaps < bounds.mishaps /\ mishaps' = mishaps + 1

MaxNotices == Max({w.notices : w \in Worlds} \cup {1})
Episode == Families \X (1 .. MaxNotices)

AgentInit ==
    /\ bounds \in Worlds
    /\ notices = 0
    /\ grafana = [f \in Families |-> [since |-> 0, firing |-> FALSE]]
    /\ turns = <<>> /\ pending = <<>>
    /\ file = Empty /\ clock = 0
    /\ writer = "active" /\ mounted = TRUE
    /\ queue = <<>> /\ runner = Idle
    /\ recorded = {} /\ audit = {}
    /\ mishaps = 0 /\ pauses = 0
    /\ sightings = [e \in Episode |-> 0] /\ overwritten = FALSE
    /\ restarted = [g \in Targets |-> 0] /\ unrecorded = [g \in Targets |-> 0]

-----------------------------------------------------------------------------
(* Messages.  A notice repeats an alert that fires, says that it ended, or *)
(* that it started again, with a new start or with the same; the last is   *)
(* also a notice that the agent sees after the one that says it ended.     *)

Nexts(f) ==
    LET g == grafana[f]
    IN  {[since |-> g.since + 1, firing |-> TRUE]}
          \cup IF g.since = 0 THEN {} ELSE {[g EXCEPT !.firing = TRUE]}
          \cup IF g.firing THEN {[g EXCEPT !.firing = FALSE]} ELSE {}

\* Mutant: one verdict more than the limit is kept.
RememberOneMore(t) ==
    Append(IF Len(pending) > MaxPending THEN Tail(pending) ELSE pending, t)

Remember(t) ==
    Append(IF Len(pending) >= MaxPending THEN Tail(pending) ELSE pending, t)

\* The turn begins with what the ledger says of the message.
PreLlmCall(notice) ==
    /\ writer = "active"
    /\ turns' = Append(turns, [at |-> "thinking", notice |-> notice,
                               verdict |-> Classify(file, notice),
                               copy |-> Empty, asks |-> 0,
                               told |-> "nothing"])
    /\ pending' = Remember(Len(turns) + 1)
    /\ UNCHANGED <<bounds, file, clock, writer, sightings, overwritten, pauses,
                   ops, mishaps>>

Notify ==
    /\ notices < bounds.notices
    /\ notices' = notices + 1
    /\ \E S \in (SUBSET Families) \ {{}} :
       \E next \in [S -> UNION {Nexts(f) : f \in S}] :
          /\ \A f \in S : next[f] \in Nexts(f)
          /\ grafana' = [f \in Families |-> IF f \in S THEN next[f]
                                                       ELSE grafana[f]]
          /\ PreLlmCall(
                [n \in 1 .. Cardinality(S) |->
                    LET f == Ascending(S)[n]
                    IN  [family |-> f, since |-> next[f].since,
                         resolved |-> ~next[f].firing]])

\* Somebody writes to the agent: a message that holds no alert.
Chat ==
    /\ Len(turns) - notices < bounds.chats
    /\ PreLlmCall(<<>>)
    /\ UNCHANGED <<notices, grafana>>

-----------------------------------------------------------------------------
(* The answer of a turn. *)

\* The model fails or says nothing: the verdict stays pending.
SaysNothing(t) ==
    /\ Thinking(t)
    /\ turns' = [turns EXCEPT ![t] = Done]
    /\ UNCHANGED <<bounds, notices, grafana, pending, file, clock, writer,
                   sightings, overwritten, pauses, ops, mishaps>>

TransformLoad(t) ==
    /\ Thinking(t)
    /\ pending' = Keeping(pending, {p \in DOMAIN pending : pending[p] # t})
    /\ turns' = [turns EXCEPT ![t] =
          IF t \in Range(pending) /\ @.verdict.kind \notin {"none", "unknown"}
          THEN [@ EXCEPT !.at = "loaded", !.copy = file]
          ELSE Done]
    /\ UNCHANGED <<bounds, notices, grafana, file, clock, writer, sightings,
                   overwritten, pauses, ops, mishaps>>

\* A ledger that could not be read is not written.
TransformSave(t) ==
    LET turn == turns[t]
        v == turn.verdict
    IN  /\ writer = "active" /\ turn.at = "loaded"
        /\ turns' = [turns EXCEPT ![t] = Done]
        /\ IF turn.copy = Corrupt
           THEN UNCHANGED <<file, clock, sightings, overwritten>>
           ELSE /\ file' = Commit(turn.copy, v, clock)
                /\ clock' = clock + 1
                /\ sightings' =
                      IF v.kind = "resolved" THEN sightings
                      ELSE [sightings EXCEPT ![<<v.family, v.since>>] = @ + 1]
                /\ overwritten' = (overwritten \/ file # turn.copy)
        /\ UNCHANGED <<bounds, notices, grafana, pending, writer, pauses, ops,
                       mishaps>>

\* The write fails: it is logged, and the reply is annotated all the same.
SaveFails(t) ==
    /\ Mishap
    /\ writer = "active" /\ turns[t].at = "loaded"
    /\ turns' = [turns EXCEPT ![t] = Done]
    /\ UNCHANGED <<bounds, notices, grafana, pending, file, clock, writer,
                   sightings, overwritten, pauses, ops>>

LedgerLost ==
    /\ Mishap
    /\ \E f \in {Empty, Corrupt} : f # file /\ file' = f
    /\ UNCHANGED <<bounds, notices, grafana, turns, pending, clock, writer,
                   sightings, overwritten, pauses, ops>>

\* No alert for longer than an episode is kept.
LongPause ==
    /\ pauses < bounds.pauses /\ \A t \in Turns : turns[t].at = "done"
    /\ pauses' = pauses + 1
    /\ clock' = clock + MaxAge
    /\ UNCHANGED <<bounds, notices, grafana, turns, pending, file, writer,
                   sightings, overwritten, ops, mishaps>>

-----------------------------------------------------------------------------
(* The tool.  A request is the turn, its number and the target. *)

Waits(request) ==
    /\ turns[request.turn].at = "asking"
    /\ turns[request.turn].asks = request.ask

Reachable == mounted /\ runner.at # "down" /\ Len(queue) <= Backlog

OpsFix(t, target) ==
    /\ Thinking(t) /\ turns[t].asks < bounds.asks
    /\ LET n == turns[t].asks + 1
       IN  IF Reachable
           THEN /\ turns' = [turns EXCEPT ![t].at = "asking", ![t].asks = n,
                                          ![t].told = "nothing"]
                /\ queue' = Append(queue, [turn |-> t, ask |-> n,
                                           target |-> target])
           ELSE /\ turns' = [turns EXCEPT ![t].asks = n,
                                          ![t].told = "unavailable"]
                /\ UNCHANGED queue
    /\ UNCHANGED <<bounds, notices, grafana, pending, file, clock, writer,
                   sightings, overwritten, pauses, runner, recorded, audit,
                   restarted, unrecorded, mounted, mishaps>>

\* The client waits 90 seconds; a restart may take 150.
ClientTimeout(t) ==
    /\ turns[t].at = "asking"
    /\ turns' = [turns EXCEPT ![t].at = "thinking",
                              ![t].told = "unavailable"]
    /\ UNCHANGED <<bounds, notices, grafana, pending, file, clock, writer,
                   sightings, overwritten, pauses, ops, mishaps>>

-----------------------------------------------------------------------------
(* The runner serves one connection at a time. *)

Reply(what) == runner' = [runner EXCEPT !.at = "answering", !.reply = what]

RunnerUnchanged ==
    UNCHANGED <<bounds, notices, grafana, pending, file, clock, writer,
                sightings, overwritten, pauses, mounted>>

\* Mutant: the answer is sent before anything is recorded.
RestartAnswersFirst ==
    /\ runner.at = "restarting"
    /\ Reply("restarted")
    /\ restarted' = [restarted EXCEPT ![runner.job.target] = @ + 1]
    /\ RunnerUnchanged
    /\ UNCHANGED <<turns, queue, recorded, audit, unrecorded, mishaps>>

Accept ==
    /\ runner.at = "idle" /\ queue # <<>>
    /\ queue' = Tail(queue)
    /\ LET request == Head(queue)
       IN  runner' = [job |-> request,
                      at |-> IF request.target \in Allowed \ recorded
                             THEN "restarting" ELSE "answering",
                      reply |-> IF request.target \in Allowed \ recorded
                                THEN "nothing" ELSE "refused"]
    /\ RunnerUnchanged
    /\ UNCHANGED <<turns, recorded, audit, restarted, unrecorded, mishaps>>

\* docker restart fails or runs out of time, and may have restarted the
\* container all the same.
Restart ==
    /\ runner.at = "restarting"
    /\ \E did, ok \in BOOLEAN :
          /\ ok => did
          /\ IF ok THEN runner' = [runner EXCEPT !.at = "recording"]
                   ELSE Reply("failed")
          /\ restarted' = IF did THEN [restarted EXCEPT
                                         ![runner.job.target] = @ + 1]
                                 ELSE restarted
          /\ unrecorded' = IF did /\ ~ok
                           THEN [unrecorded EXCEPT
                                   ![runner.job.target] = @ + 1]
                           ELSE unrecorded
    /\ RunnerUnchanged
    /\ UNCHANGED <<turns, queue, recorded, audit, mishaps>>

\* Mutant: the answer is sent before the audit line is written.
RecordAnswersFirst ==
    /\ runner.at = "recording"
    /\ recorded' = recorded \cup {runner.job.target}
    /\ Reply("restarted")
    /\ RunnerUnchanged
    /\ UNCHANGED <<turns, queue, audit, restarted, unrecorded, mishaps>>

Record ==
    /\ runner.at = "recording"
    /\ recorded' = recorded \cup {runner.job.target}
    /\ runner' = [runner EXCEPT !.at = "auditing"]
    /\ RunnerUnchanged
    /\ UNCHANGED <<turns, queue, audit, restarted, unrecorded, mishaps>>

Audit ==
    /\ runner.at = "auditing"
    /\ audit' = audit \cup {<<runner.job.turn, runner.job.ask>>}
    /\ Reply("restarted")
    /\ RunnerUnchanged
    /\ UNCHANGED <<turns, queue, recorded, restarted, unrecorded, mishaps>>

Unseen ==
    unrecorded' = IF runner.at = "recording"
                  THEN [unrecorded EXCEPT ![runner.job.target] = @ + 1]
                  ELSE unrecorded

\* The disk refuses the state or the audit line.
RecordFails ==
    /\ Mishap
    /\ runner.at \in {"recording", "auditing"}
    /\ Reply("failed")
    /\ Unseen
    /\ RunnerUnchanged
    /\ UNCHANGED <<turns, queue, recorded, audit, restarted>>

\* Every client with a connection is cut off.
RunnerDies ==
    /\ runner' = Down
    /\ queue' = <<>>
    /\ turns' = [t \in Turns |->
          IF turns[t].at = "asking"
          THEN [turns[t] EXCEPT !.at = "thinking", !.told = "unavailable"]
          ELSE turns[t]]

\* An answer to a client that has gone raises outside of the try.
Answer ==
    /\ runner.at = "answering"
    /\ IF Waits(runner.job)
       THEN /\ turns' = [turns EXCEPT ![runner.job.turn].at = "thinking",
                                      ![runner.job.turn].told = runner.reply]
            /\ runner' = Idle
            /\ UNCHANGED queue
       ELSE RunnerDies
    /\ RunnerUnchanged
    /\ UNCHANGED <<recorded, audit, restarted, unrecorded, mishaps>>

RunnerKilled ==
    /\ Mishap
    /\ runner.at # "down"
    /\ RunnerDies
    /\ Unseen
    /\ RunnerUnchanged
    /\ UNCHANGED <<recorded, audit, restarted>>

\* systemd starts it again in a new /run/ops-fix, which a container that was
\* started before does not see.
RunnerReturns ==
    /\ runner.at = "down"
    /\ runner' = Idle
    /\ mounted' = FALSE
    /\ UNCHANGED <<bounds, agent, queue, recorded, audit, restarted,
                   unrecorded, mishaps>>

\* MIN_INTERVAL passes; no request takes that long.
IntervalPasses ==
    /\ runner.at \in {"idle", "down"} /\ queue = <<>>
    /\ restarted # [g \in Targets |-> 0]
    /\ recorded' = {}
    /\ restarted' = [g \in Targets |-> 0]
    /\ unrecorded' = [g \in Targets |-> 0]
    /\ UNCHANGED <<bounds, agent, queue, runner, audit, mounted, mishaps>>

-----------------------------------------------------------------------------
(* The container stops, with every turn it runs, and starts again. *)

AgentStops ==
    /\ writer' = "inactive"
    /\ turns' = [t \in Turns |-> Done]
    /\ pending' = <<>>

AgentStarts ==
    /\ writer' = "active"
    /\ mounted' = TRUE

Step(t) ==
    \/ SaysNothing(t) \/ TransformLoad(t) \/ TransformSave(t) \/ SaveFails(t)
    \/ ClientTimeout(t)
    \/ \E g \in Targets : OpsFix(t, g)

RunnerNext ==
    \/ Accept \/ Restart \/ Record \/ Audit \/ RecordFails
    \/ Answer \/ RunnerKilled \/ RunnerReturns \/ IntervalPasses

AgentNext ==
    \/ Notify \/ Chat \/ LedgerLost \/ LongPause
    \/ \E t \in Turns : Step(t)
    \/ RunnerNext
-----------------------------------------------------------------------------
(* Properties of the plugins and the runner. *)

\* A notice is called a repeat only when every alert it lists was counted by
\* an earlier turn (classify, alert-dedupe/__init__.py:261-266): whatever is
\* lost, evicted or overwritten, nothing unseen is called seen.
RepeatIsKnown ==
    \A t \in Turns : turns[t].verdict.kind = "repeat" =>
        \A i \in Range(turns[t].notice) : sightings[i.family, i.since] > 0

\* The ledger never counts an episode more often than turns committed it
\* (commit, 161-184), and as often when no write was lost or failed, no two
\* turns read the same ledger and nothing was old enough, or too much, to be
\* evicted.
Undisturbed ==
    /\ ~overwritten /\ mishaps = 0 /\ clock <= MaxAge
    /\ Cardinality({e[1] : e \in {x \in Episode : sightings[x] > 0}})
         <= MaxFamilies
    /\ \A f \in Families :
          Cardinality({e \in Episode : e[1] = f /\ sightings[e] > 0})
            <= MaxEpisodes

CountsAreSightings ==
    file # Corrupt =>
        /\ \A f \in DOMAIN file : \A e \in Range(file[f]) :
              e.count \in 1 .. sightings[f, e.since]
        /\ Undisturbed => \A e \in Episode : sightings[e] > 0 =>
              /\ Places(file, e[1], e[2]) # {}
              /\ Find(file, e[1], e[2]).count = sightings[e]

\* The ledger stays within its bounds, and no family has two episodes of one
\* start (commit and _prune, 161-203), whichever turns wrote it.
LedgerBounded ==
    file # Corrupt =>
        /\ Cardinality(DOMAIN file) <= MaxFamilies
        /\ \A f \in DOMAIN file :
              /\ Len(file[f]) \in 1 .. MaxEpisodes
              /\ \A m, n \in DOMAIN file[f] :
                    file[f][m].since = file[f][n].since => m = n

\* In one interval a target is restarted at most once, not counting restarts
\* that state.json never showed: they failed or ran out of time, or the runner
\* died before it wrote them (handle, ops-fix-runner.py:107-125).  An answer
\* that cannot be delivered is not among these causes.
OncePerInterval ==
    \A g \in Targets : restarted[g] <= 1 + unrecorded[g]

\* A turn that was told of a restart finds it in the audit (record_action,
\* 66-75, comes before the answer), and the answer is to its last request.
ToldIsAudited ==
    \A t \in Turns : turns[t].told = "restarted" =>
        <<t, turns[t].asks>> \in audit
=============================================================================
