----------------------------- MODULE HermesProofs -----------------------------
(***************************************************************************)
(* What holds of the ops-fix runner, of the backup and of the alert ledger *)
(* for any number of alerts, messages, requests, mishaps and backups, for  *)
(* every allowlist and for all limits of the ledger.                       *)
(***************************************************************************)
EXTENDS AlertLedgerProofs

-----------------------------------------------------------------------------
(* The inductive invariant of the runner and the backup. *)

\* A turn is a record, whatever its notice, verdict and ledger are.
TurnSet(N, V, L) ==
    [at : {"thinking", "asking", "loaded", "done"}, notice : N, verdict : V,
     copy : L, asks : Nat,
     told : {"nothing", "unavailable", "restarted", "refused", "failed"}]

TurnsInv == \E N, V, L : turns \in Seq(TurnSet(N, V, L))

Request == [turn : Nat, ask : Nat, target : Targets]

\* What the runner handles it has accepted, and it restarts only what
\* state.json does not show.
RunnerInv ==
    /\ queue \in Seq(Request)
    /\ runner \in [at : {"idle", "down", "restarting", "recording",
                         "auditing", "answering"},
                   job : Request \cup {None},
                   reply : {"nothing", "restarted", "refused", "failed"}]
    /\ runner.at \notin {"idle", "down"} => runner.job \in Request
    /\ runner.at \in {"restarting", "recording"}
          => runner.job.target \notin recorded

\* A restart that is neither recorded nor missing from state.json for good is
\* about to be recorded.
Accounted(g) ==
    \/ g \in recorded
    \/ runner.at = "recording" /\ runner.job.target = g

RateInv ==
    /\ restarted \in [Targets -> Nat] /\ unrecorded \in [Targets -> Nat]
    /\ \A g \in Targets :
          restarted[g] <= unrecorded[g] + (IF Accounted(g) THEN 1 ELSE 0)

\* An answer that speaks of a restart is on its way from an audited request.
ToldInv ==
    /\ ToldIsAudited
    /\ runner.at = "answering" /\ runner.reply = "restarted"
          => <<runner.job.turn, runner.job.ask>> \in audit

\* The supervisors and the units.
SupervisorSet(L) ==
    [at : {"absent", "stop-timer", "stop-health", "stop-writer", "confirm",
           "archive-ledger", "archive-database", "compare-ledger",
           "compare-database", "finally", "start-writer", "start-timer",
           "recheck"},
     prior : [timer : {"active", "inactive", "absent"},
              writer : {"active", "inactive", "absent"}],
     copy : [ledger : L, db : Nat], matched : BOOLEAN, ok : BOOLEAN]

SupervisorInv ==
    /\ \E L : supervisor \in [Supervisors -> SupervisorSet(L)]
    /\ writer \in {"active", "inactive"}
    /\ timer \in {"active", "inactive", "absent"}
    /\ stranded \in BOOLEAN

\* A backup that has begun knows how it found the agent.
Knows(b) ==
    ~At(b, "absent") => supervisor[b].prior.writer \in {"active", "inactive"}

\* Whether a backup will start the agent: it found it active, and has stopped it.
Holds(b) ==
    /\ supervisor[b].prior.writer = "active"
    /\ supervisor[b].at \in {"confirm", "archive-ledger", "archive-database",
                             "compare-ledger", "compare-database", "finally",
                             "start-writer"}

PriorInv == /\ DownOnlyInBackup
            /\ \A b \in Supervisors : Knows(b)

\* The session database only grows: once it differs from the archive it will
\* not be equal to it again.
Copied(s) ==
    /\ s.ok => s.matched
    /\ s.ok => s.at \in {"finally", "start-writer", "start-timer", "recheck"}
    /\ s.at \in {"compare-ledger", "compare-database"}
          => s.copy.db <= Len(turns)
    /\ s.at = "compare-database" /\ ~s.matched => s.copy.db < Len(turns)

CopyInv == \A b \in Supervisors : Copied(supervisor[b])

IInv == /\ TurnsInv /\ RunnerInv /\ RateInv /\ ToldInv
        /\ SupervisorInv /\ PriorInv /\ CopyInv

-----------------------------------------------------------------------------
(* The turns. *)

\* What a step does to the turns: none is lost, and one is only told of a
\* restart by an answer to its last request.
TurnsGrow ==
    /\ TurnsInv'
    /\ Len(turns) \in Nat /\ Len(turns') \in Nat /\ Len(turns) <= Len(turns')
    /\ \A t \in Turns' : turns'[t].told = "restarted" =>
          \/ /\ t \in Turns /\ turns[t].told = "restarted"
             /\ turns'[t].asks = turns[t].asks
          \/ /\ Answer /\ runner.reply = "restarted"
             /\ t = runner.job.turn /\ turns'[t].asks = runner.job.ask

\* A sequence of elements of a set is one of elements of any larger set.
LEMMA SeqWidens ==
    ASSUME NEW A, NEW B, A \subseteq B, NEW s \in Seq(A)
    PROVE  s \in Seq(B)
  OBVIOUS

\* A message begins a turn that was told nothing.
LEMMA TurnsAppended ==
    ASSUME TurnsInv, NEW notice, PreLlmCall(notice)
    PROVE  TurnsGrow
  <1> DEFINE new == [at |-> "thinking", notice |-> notice,
                     verdict |-> Classify(file, notice), copy |-> Empty,
                     asks |-> 0, told |-> "nothing"]
  <1>1. PICK N, V, L : turns \in Seq(TurnSet(N, V, L))
    BY DEF TurnsInv
  <1> DEFINE S == TurnSet(N \cup {notice}, V \cup {new.verdict}, L \cup {Empty})
  <1>2. new \in S
    BY DEF TurnSet
  <1>3. TurnSet(N, V, L) \subseteq S
    BY DEF TurnSet
  <1>4. turns \in Seq(S)
    BY <1>1, <1>3, SeqWidens
  <1>5. turns' = Append(turns, new)
    BY DEF PreLlmCall
  <1> HIDE DEF S
  <1>6. /\ turns' \in Seq(S) /\ Len(turns') = Len(turns) + 1
        /\ \A t \in 1 .. Len(turns) : turns'[t] = turns[t]
        /\ turns'[Len(turns) + 1] = new
    BY <1>2, <1>4, <1>5, AppendProperties
  <1>7. TurnsInv'
    BY <1>6 DEF S, TurnsInv
  <1>8. Turns = 1 .. Len(turns) /\ Turns' = 1 .. Len(turns) + 1
    BY <1>4, <1>6 DEF Turns
  <1>9. QED
    BY <1>4, <1>6, <1>7, <1>8 DEF TurnsGrow

\* A step that replaces turns by turns.
LEMMA TurnsReplaced ==
    ASSUME TurnsInv, NEW N, NEW V, NEW L,
           turns' = [t \in Turns |-> turns'[t]],
           \A t \in Turns : turns'[t] \in TurnSet(N, V, L)
    PROVE  TurnsInv' /\ Len(turns) \in Nat /\ Len(turns') = Len(turns)
           /\ Turns' = Turns
  <1>1. Len(turns) \in Nat /\ Turns = 1 .. Len(turns)
    BY DEF TurnsInv, Turns
  <1>2. turns' \in Seq(TurnSet(N, V, L)) /\ Len(turns') = Len(turns)
    BY <1>1
  <1>3. Turns' = Turns
    BY <1>1, <1>2 DEF Turns
  <1>4. QED
    BY <1>1, <1>2, <1>3 DEF TurnsInv

\* What every turn is one of.
LEMMA TurnsTyped ==
    ASSUME TurnsInv
    PROVE  \E N, V, L : /\ turns \in [Turns -> TurnSet(N, V, L)]
                        /\ Done \in TurnSet(N, V, L)
                        /\ file \in L
  <1>1. PICK N, V, L : turns \in Seq(TurnSet(N, V, L))
    BY DEF TurnsInv
  <1> DEFINE N2 == N \cup {<<>>}
             V2 == V \cup {NoVerdict}
             L2 == L \cup {Empty, file}
  <1>2. \A t \in Turns : turns[t] \in TurnSet(N, V, L)
    BY <1>1 DEF Turns
  <1>3. turns \in [Turns -> TurnSet(N, V, L)]
    BY <1>1 DEF Turns
  <1>4. TurnSet(N, V, L) \subseteq TurnSet(N2, V2, L2)
    BY DEF TurnSet
  <1>5. turns \in [Turns -> TurnSet(N2, V2, L2)]
    BY <1>3, <1>4
  <1>6. Done \in TurnSet(N2, V2, L2) /\ file \in L2
    BY DEF Done, TurnSet
  <1>7. QED
    BY <1>5, <1>6

\* Every step leaves turns, and none forgets what it was told unless it is
\* told something else.
LEMMA TurnsStep ==
    ASSUME IInv, Next
    PROVE  TurnsGrow
  <1>1. TurnsInv /\ Len(turns) \in Nat
    BY DEF IInv, TurnsInv
  <1>2. PICK N, V, L : /\ turns \in [Turns -> TurnSet(N, V, L)]
                       /\ Done \in TurnSet(N, V, L)
                       /\ file \in L
    BY <1>1, TurnsTyped
  <1>3. CASE Notify \/ Chat
    BY <1>1, <1>3, TurnsAppended DEF Notify, Chat
  <1>4. ASSUME turns' = turns
        PROVE  TurnsGrow
    BY <1>1, <1>4 DEF TurnsGrow, TurnsInv, Turns
  <1>5. ASSUME NEW t \in Turns, NEW r \in TurnSet(N, V, L),
               turns' = [turns EXCEPT ![t] = r],
               r.told = "restarted" =>
                  \/ turns[t].told = "restarted" /\ r.asks = turns[t].asks
                  \/ /\ Answer /\ runner.reply = "restarted"
                     /\ t = runner.job.turn /\ r.asks = runner.job.ask
        PROVE  TurnsGrow
    <2>1. /\ turns' = [u \in Turns |-> turns'[u]]
          /\ \A u \in Turns : turns'[u] = IF u = t THEN r ELSE turns[u]
      BY <1>2, <1>5
    <2>2. \A u \in Turns : turns'[u] \in TurnSet(N, V, L)
      BY <1>2, <1>5, <2>1
    <2>3. TurnsInv' /\ Len(turns') = Len(turns) /\ Turns' = Turns
      BY <1>1, <2>1, <2>2, TurnsReplaced
    <2>4. QED
      BY <1>1, <1>5, <2>1, <2>3 DEF TurnsGrow
  <1>6. ASSUME turns' = [t \in Turns |-> turns'[t]],
               \A t \in Turns :
                  /\ turns'[t] \in TurnSet(N, V, L)
                  /\ turns'[t].told = "restarted" =>
                        /\ turns[t].told = "restarted"
                        /\ turns'[t].asks = turns[t].asks
        PROVE  TurnsGrow
    <2>1. TurnsInv' /\ Len(turns') = Len(turns) /\ Turns' = Turns
      BY <1>1, <1>6, TurnsReplaced
    <2>2. QED
      BY <1>1, <1>6, <2>1 DEF TurnsGrow
  <1>7. ASSUME NEW t \in Turns,
               SaysNothing(t) \/ TransformLoad(t) \/ TransformSave(t)
                 \/ SaveFails(t)
        PROVE  TurnsGrow
    <2>1. CASE turns' = [turns EXCEPT ![t] = Done]
      BY <1>2, <1>5, <2>1 DEF Done
    <2>2. CASE turns' = [turns EXCEPT ![t] =
                            [@ EXCEPT !.at = "loaded", !.copy = file]]
      <3> DEFINE r == [turns[t] EXCEPT !.at = "loaded", !.copy = file]
      <3>1. /\ r \in TurnSet(N, V, L)
            /\ r.told = turns[t].told /\ r.asks = turns[t].asks
        BY <1>2 DEF TurnSet
      <3>2. turns' = [turns EXCEPT ![t] = r]
        BY <2>2
      <3> HIDE DEF r
      <3>3. QED
        BY <1>5, <3>1, <3>2
    <2>3. QED
      BY <1>7, <2>1, <2>2 DEF SaysNothing, TransformLoad, TransformSave,
         SaveFails
  <1>8. ASSUME NEW t \in Turns, ClientTimeout(t)
        PROVE  TurnsGrow
    <2> DEFINE r == [turns[t] EXCEPT !.at = "thinking", !.told = "unavailable"]
    <2>1. r \in TurnSet(N, V, L) /\ r.told # "restarted"
      BY <1>2 DEF TurnSet
    <2>2. turns' = [turns EXCEPT ![t] = r]
      BY <1>2, <1>8 DEF ClientTimeout, TurnSet
    <2> HIDE DEF r
    <2>3. QED
      BY <1>5, <2>1, <2>2
  <1>9. ASSUME NEW t \in Turns, NEW g \in Targets, OpsFix(t, g)
        PROVE  TurnsGrow
    <2>1. turns[t] \in TurnSet(N, V, L) /\ turns[t].asks + 1 \in Nat
      BY <1>2 DEF TurnSet
    <2>2. ASSUME NEW at \in {"thinking", "asking"},
                 NEW told \in {"nothing", "unavailable"},
                 turns' = [turns EXCEPT ![t] = [turns[t] EXCEPT
                    !.at = at, !.asks = turns[t].asks + 1, !.told = told]]
          PROVE  TurnsGrow
      <3> DEFINE r == [turns[t] EXCEPT !.at = at, !.asks = turns[t].asks + 1,
                                       !.told = told]
      <3>1. r \in TurnSet(N, V, L) /\ r.told # "restarted"
        BY <2>1, <2>2 DEF TurnSet
      <3>2. turns' = [turns EXCEPT ![t] = r]
        BY <2>2
      <3> HIDE DEF r
      <3>3. QED
        BY <1>5, <3>1, <3>2
    <2>3. CASE Reachable
      <3>1. turns' = [turns EXCEPT ![t] = [turns[t] EXCEPT
               !.at = "asking", !.asks = turns[t].asks + 1,
               !.told = "nothing"]]
        BY <1>2, <1>9, <2>3 DEF OpsFix, TurnSet
      <3>2. QED
        BY <2>2, <3>1
    <2>4. CASE ~Reachable
      <3>1. turns' = [turns EXCEPT ![t] = [turns[t] EXCEPT
               !.at = turns[t].at, !.asks = turns[t].asks + 1,
               !.told = "unavailable"]]
        BY <1>2, <1>9, <2>4 DEF OpsFix, TurnSet
      <3>2. turns[t].at = "thinking"
        BY <1>9 DEF OpsFix, Thinking
      <3>3. QED
        BY <2>2, <3>1, <3>2
    <2>5. QED
      BY <2>3, <2>4
  <1>10. ASSUME RunnerDies
        PROVE  TurnsGrow
    <2>1. \A t \in Turns :
             /\ turns'[t] \in TurnSet(N, V, L)
             /\ turns'[t].told = "restarted" =>
                   /\ turns[t].told = "restarted"
                   /\ turns'[t].asks = turns[t].asks
      BY <1>2, <1>10 DEF RunnerDies, TurnSet
    <2>2. turns' = [t \in Turns |-> turns'[t]]
      BY <1>10 DEF RunnerDies
    <2>3. QED
      BY <1>6, <2>1, <2>2
  <1>11. CASE Answer
    <2>1. CASE Waits(runner.job) /\ runner.job.turn \in Turns
      <3> DEFINE t == runner.job.turn
                 r == [turns[t] EXCEPT !.at = "thinking",
                                       !.told = runner.reply]
      <3>1. turns' = [turns EXCEPT ![t] = r]
        BY <1>2, <1>11, <2>1 DEF Answer, TurnSet
      <3>2. /\ r \in TurnSet(N, V, L) /\ r.told = runner.reply
            /\ r.asks = runner.job.ask
        BY <1>2, <2>1 DEF IInv, RunnerInv, TurnSet, Waits
      <3> HIDE DEF r
      <3>3. QED
        BY <1>5, <1>11, <2>1, <3>1, <3>2
    <2>2. CASE Waits(runner.job) /\ runner.job.turn \notin Turns
      <3>1. turns' = turns
        BY <1>2, <1>11, <2>2 DEF Answer
      <3>2. QED
        BY <1>4, <3>1
    <2>3. CASE ~Waits(runner.job)
      BY <1>10, <1>11, <2>3 DEF Answer
    <2>4. QED
      BY <2>1, <2>2, <2>3
  <1>12. CASE \E b \in Supervisors : StopWriter(b)
    <2>1. turns' = [t \in Turns |-> Done]
      BY <1>12 DEF StopWriter, AgentStops
    <2>2. /\ turns' = [t \in Turns |-> turns'[t]]
          /\ \A t \in Turns : turns'[t] = Done
      BY <2>1
    <2>3. Done.told # "restarted"
      BY DEF Done
    <2>4. QED
      BY <1>2, <1>6, <2>2, <2>3
  <1>13. CASE RunnerKilled
    BY <1>10, <1>13 DEF RunnerKilled
  <1>14. QED
    <2>1. CASE AgentNext
      BY <1>3, <1>4, <1>7, <1>8, <1>11, <1>13, <1>9, <2>1
         DEF AgentNext, Step, RunnerNext, LedgerLost, LongPause, Accept,
         Restart, Record, Audit, RecordFails, RunnerReturns, IntervalPasses,
         RunnerUnchanged, agent
    <2>2. CASE HealthFires \/ HealthEnds \/ Deploy
      BY <1>4, <2>2 DEF HealthFires, HealthEnds, Deploy, agentVars, agent
    <2>3. ASSUME NEW b \in Supervisors, Supervise(b), ~StopWriter(b)
          PROVE  turns' = turns
      BY <2>3 DEF Supervise, Begin, StopTimer, StopHealth, Confirm,
         ArchiveLedger, ArchiveDatabase, CompareLedger, CompareDatabase, Fails,
         Recover, CutShort, StartWriter, StartTimer, StartFails, Recheck,
         agentVars, agent
    <2>4. QED
      BY <1>4, <1>12, <2>1, <2>2, <2>3 DEF Next

-----------------------------------------------------------------------------
(* The runner. *)

runnerVars == <<queue, runner, recorded, audit, restarted, unrecorded>>

\* The steps that touch neither the runner nor its files.
LEMMA RunnerFrame ==
    ASSUME Next
    PROVE  \/ UNCHANGED runnerVars
           \/ \E t \in Turns, g \in Targets : OpsFix(t, g)
           \/ RunnerNext
  <1>1. ASSUME NEW b \in Supervisors, Supervise(b)
        PROVE  UNCHANGED runnerVars
    BY <1>1 DEF Supervise, Begin, StopTimer, StopHealth, StopWriter, Confirm,
       ArchiveLedger, ArchiveDatabase, CompareLedger, CompareDatabase, Fails,
       Recover, CutShort, StartWriter, StartTimer, StartFails, Recheck,
       agentVars, ops, runnerVars
  <1>2. CASE HealthFires \/ HealthEnds \/ Deploy
    BY <1>2 DEF HealthFires, HealthEnds, Deploy, agentVars, ops, runnerVars
  <1>3. CASE AgentNext
    BY <1>3 DEF AgentNext, Step, Notify, Chat, PreLlmCall, LedgerLost,
       LongPause, SaysNothing, TransformLoad, TransformSave, SaveFails,
       ClientTimeout, ops, runnerVars
  <1>4. QED
    BY <1>1, <1>2, <1>3 DEF Next

\* What is queued stays a request, and a restart begins with a target that
\* state.json does not show.
LEMMA RunnerStep ==
    ASSUME IInv, Next
    PROVE  RunnerInv'
  <1> USE DEF IInv, RunnerInv
  <1>1. CASE UNCHANGED runnerVars
    BY <1>1 DEF runnerVars
  <1>2. ASSUME NEW t \in Turns, NEW g \in Targets, OpsFix(t, g)
        PROVE  RunnerInv'
    <2>1. PICK N, V, L : turns \in [Turns -> TurnSet(N, V, L)]
      BY TurnsTyped
    <2>2. t \in Nat /\ turns[t].asks + 1 \in Nat
      BY <2>1 DEF TurnSet, TurnsInv, Turns
    <2>3. [turn |-> t, ask |-> turns[t].asks + 1, target |-> g] \in Request
      BY <2>2 DEF Request
    <2>4. queue' \in Seq(Request)
      <3>1. \/ queue' = Append(queue, [turn |-> t, ask |-> turns[t].asks + 1,
                                       target |-> g])
            \/ queue' = queue
        BY <1>2 DEF OpsFix
      <3>2. QED
        BY <2>3, <3>1, AppendProperties
    <2>5. QED
      BY <1>2, <2>4 DEF OpsFix
  <1>3. CASE Accept
    <2>1. Head(queue) \in Request /\ queue' \in Seq(Request)
      BY <1>3 DEF Accept
    <2>2. PICK request \in Request :
            runner' = [job |-> request,
                       at |-> IF request.target \in Allowed \ recorded
                              THEN "restarting" ELSE "answering",
                       reply |-> IF request.target \in Allowed \ recorded
                                 THEN "nothing" ELSE "refused"]
      BY <1>3, <2>1 DEF Accept
    <2>3. recorded' = recorded
      BY <1>3 DEF Accept
    <2>4. QED
      BY <2>1, <2>2, <2>3
  <1>4. CASE Restart \/ Record \/ Audit \/ RecordFails
    BY <1>4 DEF Restart, Record, Audit, RecordFails, Reply
  <1>5. CASE Answer \/ RunnerKilled
    <2>1. queue' \in Seq(Request)
      <3>1. queue' = queue \/ queue' = <<>>
        BY <1>5 DEF Answer, RunnerKilled, RunnerDies
      <3>2. QED
        BY <3>1, EmptySeq
    <2>2. runner' \in {Idle, Down}
      BY <1>5 DEF Answer, RunnerKilled, RunnerDies
    <2>3. QED
      BY <2>1, <2>2 DEF Idle, Down
  <1>6. CASE RunnerReturns
    BY <1>6 DEF RunnerReturns, Idle
  <1>7. CASE IntervalPasses
    BY <1>7 DEF IntervalPasses
  <1>8. QED
    BY <1>1, <1>2, <1>3, <1>4, <1>5, <1>6, <1>7, RunnerFrame
       DEF RunnerNext

\* A restart is counted when it is done, and from then on it is recorded, about
\* to be, or among those that state.json never showed.
LEMMA RateStep ==
    ASSUME IInv, Next
    PROVE  RateInv'
  <1> USE DEF IInv, RateInv, Accounted
  <1>1. CASE UNCHANGED runnerVars
    BY <1>1 DEF runnerVars
  <1>2. ASSUME NEW t \in Turns, NEW g \in Targets, OpsFix(t, g)
        PROVE  RateInv'
    BY <1>2 DEF OpsFix
  <1>3. CASE Accept \/ RunnerReturns
    BY <1>3 DEF Accept, RunnerReturns, Idle
  <1>4. CASE Restart
    <2>1. runner.job.target \in Targets /\ runner.job.target \notin recorded
      BY <1>4 DEF RunnerInv, Request, Restart
    <2>2. PICK did \in BOOLEAN, ok \in BOOLEAN :
            /\ ok => did
            /\ runner' = [runner EXCEPT
                            !.at = IF ok THEN "recording" ELSE "answering",
                            !.reply = IF ok THEN @ ELSE "failed"]
            /\ restarted' = IF did THEN [restarted EXCEPT
                                           ![runner.job.target] = @ + 1]
                                   ELSE restarted
            /\ unrecorded' = IF did /\ ~ok
                             THEN [unrecorded EXCEPT
                                     ![runner.job.target] = @ + 1]
                             ELSE unrecorded
      BY <1>4 DEF Restart, Reply, RunnerInv
    <2>3. recorded' = recorded /\ runner.at = "restarting"
      BY <1>4 DEF Restart
    <2>4. QED
      BY <2>1, <2>2, <2>3 DEF RunnerInv
  <1>5. CASE Record \/ Audit
    BY <1>5 DEF Record, Audit, Reply, RunnerInv, Request
  <1>6. CASE RecordFails \/ RunnerKilled
    <2>1. /\ runner'.at # "recording" /\ restarted' = restarted
          /\ recorded' = recorded
      BY <1>6 DEF RecordFails, RunnerKilled, RunnerDies, Reply, Down, Idle,
         RunnerInv
    <2>2. unrecorded' = IF runner.at = "recording"
                        THEN [unrecorded EXCEPT ![runner.job.target] = @ + 1]
                        ELSE unrecorded
      BY <1>6 DEF RecordFails, RunnerKilled, Unseen
    <2>3. QED
      BY <2>1, <2>2 DEF RunnerInv, Request
  <1>7. CASE Answer
    <2>1. /\ runner.at = "answering" /\ runner'.at # "recording"
          /\ UNCHANGED <<recorded, restarted, unrecorded>>
      <3>1. runner' \in {Idle, Down}
        BY <1>7 DEF Answer, RunnerDies
      <3>2. QED
        BY <1>7, <3>1 DEF Answer, Idle, Down
    <2>2. QED
      BY <2>1
  <1>8. CASE IntervalPasses
    BY <1>8 DEF IntervalPasses
  <1>9. QED
    BY <1>1, <1>2, <1>3, <1>4, <1>5, <1>6, <1>7, <1>8, RunnerFrame
       DEF RunnerNext

\* The audit grows, and its entry precedes the answer.
LEMMA ToldStep ==
    ASSUME IInv, Next
    PROVE  ToldInv'
  <1>1. TurnsGrow
    BY TurnsStep
  <1>2. audit \subseteq audit'
    <2>1. CASE \E t \in Turns, g \in Targets : OpsFix(t, g)
      BY <2>1 DEF OpsFix
    <2>2. CASE RunnerNext
      BY <2>2 DEF RunnerNext, Accept, Restart, Record, Audit, RecordFails,
         Answer, RunnerKilled, RunnerReturns, IntervalPasses
    <2>3. QED
      BY <2>1, <2>2, RunnerFrame DEF runnerVars
  <1>3. ToldIsAudited'
    <2>1. SUFFICES ASSUME NEW t \in Turns', turns'[t].told = "restarted"
                   PROVE  <<t, turns'[t].asks>> \in audit'
      BY DEF ToldIsAudited, Turns
    <2>2. CASE t \in Turns /\ turns[t].told = "restarted"
               /\ turns'[t].asks = turns[t].asks
      BY <1>2, <2>2 DEF IInv, ToldInv, ToldIsAudited
    <2>3. CASE Answer /\ runner.reply = "restarted"
               /\ t = runner.job.turn /\ turns'[t].asks = runner.job.ask
      BY <1>2, <2>3 DEF IInv, ToldInv, Answer
    <2>4. QED
      BY <1>1, <2>1, <2>2, <2>3 DEF TurnsGrow
  <1>4. runner'.at = "answering" /\ runner'.reply = "restarted"
          => <<runner'.job.turn, runner'.job.ask>> \in audit'
    <2>1. CASE UNCHANGED runnerVars
      BY <2>1 DEF IInv, ToldInv, runnerVars
    <2>2. CASE \E t \in Turns, g \in Targets : OpsFix(t, g)
      BY <2>2 DEF IInv, ToldInv, OpsFix
    <2>3. CASE Accept
      <3>1. runner'.reply \in {"nothing", "refused"}
        BY <2>3 DEF Accept
      <3>2. QED
        BY <3>1
    <2>4. CASE Audit
      BY <2>4 DEF IInv, RunnerInv, Audit, Reply
    <2>5. CASE Restart \/ RecordFails \/ Record
      <3>1. runner'.at # "answering" \/ runner'.reply = "failed"
        BY <2>5 DEF IInv, RunnerInv, Restart, RecordFails, Record, Reply
      <3>2. QED
        BY <3>1
    <2>6. CASE Answer \/ RunnerKilled \/ RunnerReturns
      <3>1. runner' \in {Idle, Down}
        BY <2>6 DEF Answer, RunnerKilled, RunnerReturns, RunnerDies
      <3>2. QED
        BY <3>1 DEF Idle, Down
    <2>7. CASE IntervalPasses
      BY <2>7 DEF IInv, ToldInv, IntervalPasses
    <2>8. QED
      BY <2>1, <2>2, <2>3, <2>4, <2>5, <2>6, <2>7, RunnerFrame DEF RunnerNext
  <1>5. QED
    BY <1>3, <1>4 DEF ToldInv

-----------------------------------------------------------------------------
(* The backup. *)

supervisorVars == <<timer, writer, supervisor, stranded>>

\* The steps that touch neither a supervisor nor what it stops.
LEMMA SupervisorFrame ==
    ASSUME Next
    PROVE  \/ UNCHANGED supervisorVars
           \/ Deploy
           \/ \E b \in Supervisors : Supervise(b)
  BY DEF Next, AgentNext, Step, Notify, Chat, PreLlmCall, LedgerLost,
     LongPause, SaysNothing, TransformLoad, TransformSave, SaveFails,
     ClientTimeout, OpsFix, RunnerNext, Accept, Restart, Record, Audit,
     RecordFails, Answer, RunnerKilled, RunnerReturns, IntervalPasses,
     RunnerUnchanged, HealthFires, HealthEnds, agentVars, agent, supervisorVars

\* Where a supervisor is between two steps.
Steps == {"absent", "stop-timer", "stop-health", "stop-writer", "confirm",
          "archive-ledger", "archive-database", "compare-ledger",
          "compare-database", "finally", "start-writer", "start-timer",
          "recheck"}

\* No supervisor is one.
LEMMA AbsentTyped == Absent \in SupervisorSet({Corrupt})
  <1>1. NoCopy \in [ledger : {Corrupt}, db : Nat]
    BY DEF NoCopy
  <1>2. QED
    BY <1>1 DEF Absent, SupervisorSet

\* A supervisor takes its own steps: it leaves the others where they are.
LEMMA Apart ==
    ASSUME SupervisorInv, NEW b \in Supervisors, Supervise(b)
    PROVE  /\ supervisor' = [supervisor EXCEPT ![b] = supervisor'[b]]
           /\ \A c \in Supervisors \ {b} : supervisor'[c] = supervisor[c]
  <1>1. PICK L : supervisor \in [Supervisors -> SupervisorSet(L)]
    BY DEF SupervisorInv
  <1>2. \/ supervisor' = supervisor
        \/ \E s : supervisor' = [supervisor EXCEPT ![b] = s]
    <2>1. CASE Begin(b) \/ CutShort(b) \/ Recheck(b)
      BY <2>1 DEF Begin, CutShort, Recheck, Ends
    <2>2. CASE StopTimer(b) \/ StopHealth(b) \/ StopWriter(b) \/ Confirm(b)
               \/ Fails(b) \/ Recover(b) \/ StartWriter(b) \/ StartTimer(b)
               \/ StartFails(b)
      BY <2>2 DEF StopTimer, StopHealth, StopWriter, Confirm, Fails, Recover,
         StartWriter, StartTimer, StartFails, Goes
    <2>3. CASE ArchiveLedger(b) \/ ArchiveDatabase(b) \/ CompareLedger(b)
               \/ CompareDatabase(b)
      BY <1>1, <2>3 DEF ArchiveLedger, ArchiveDatabase, CompareLedger,
         CompareDatabase
    <2>4. QED
      BY <2>1, <2>2, <2>3 DEF Supervise
  <1>3. QED
    BY <1>1, <1>2

\* A backup that begins knows what it found, and nothing else.
LEMMA BeginStarts ==
    ASSUME SupervisorInv, NEW b \in Supervisors, Begin(b),
           supervisor' # supervisor
    PROVE  /\ supervisor'[b].at = "stop-timer"
           /\ supervisor'[b].prior = [timer |-> timer, writer |-> writer]
           /\ supervisor'[b].ok = FALSE
           /\ supervisor'[b] \in SupervisorSet({Corrupt})
  <1>1. supervisor'[b] = [Absent EXCEPT
                            !.at = "stop-timer",
                            !.prior = [timer |-> timer, writer |-> writer]]
    BY DEF Begin, SupervisorInv
  <1>2. [timer |-> timer, writer |-> writer]
           \in [timer : {"active", "inactive", "absent"},
               writer : {"active", "inactive", "absent"}]
    BY DEF SupervisorInv
  <1>3. supervisor'[b] \in SupervisorSet({Corrupt})
    BY <1>1, <1>2, AbsentTyped DEF SupervisorSet
  <1>4. QED
    BY <1>1, <1>3 DEF Absent

\* Where a step takes the supervisor that takes it.
LEMMA GoesTo ==
    ASSUME SupervisorInv, NEW b \in Supervisors, NEW s, Goes(b, s)
    PROVE  /\ supervisor'[b] = [supervisor[b] EXCEPT !.at = s]
           /\ supervisor'[b].at = s
           /\ supervisor'[b].prior = supervisor[b].prior
           /\ supervisor'[b].copy = supervisor[b].copy
           /\ supervisor'[b].ok = supervisor[b].ok
           /\ supervisor'[b].matched = supervisor[b].matched
  <1>1. PICK L : supervisor \in [Supervisors -> SupervisorSet(L)]
    BY DEF SupervisorInv
  <1>2. supervisor[b] \in SupervisorSet(L)
    BY <1>1
  <1>3. supervisor'[b] = [supervisor[b] EXCEPT !.at = s]
    BY <1>1 DEF Goes
  <1>4. QED
    BY <1>2, <1>3 DEF SupervisorSet

\* The steps that do no more to the supervisor than take it on.
LEMMA StepsGo ==
    ASSUME NEW b, Supervise(b),
           ~Begin(b), ~CutShort(b), ~Recheck(b), ~ArchiveLedger(b),
           ~ArchiveDatabase(b), ~CompareLedger(b), ~CompareDatabase(b)
    PROVE  \E s \in Steps : Goes(b, s)
  <1>1. CASE StopTimer(b) \/ StopHealth(b) \/ StopWriter(b) \/ Confirm(b)
    BY <1>1 DEF StopTimer, StopHealth, StopWriter, Confirm, Steps
  <1>2. CASE Fails(b) \/ Recover(b) \/ StartWriter(b) \/ StartTimer(b)
    BY <1>2 DEF Fails, Recover, StartWriter, StartTimer, Steps
  <1>3. CASE StartFails(b)
    BY <1>3 DEF StartFails, Steps
  <1>4. QED
    BY <1>1, <1>2, <1>3 DEF Supervise

\* What a supervisor becomes is a supervisor.
LEMMA OneTyped ==
    ASSUME IInv, NEW b \in Supervisors, Supervise(b)
    PROVE  \E M : supervisor'[b] \in SupervisorSet(M)
  <1>1. PICK L : supervisor \in [Supervisors -> SupervisorSet(L)]
    BY DEF IInv, SupervisorInv
  <1>2. supervisor[b] \in SupervisorSet(L) /\ SupervisorInv
    BY <1>1 DEF IInv
  <1>3. CASE Begin(b)
    BY <1>2, <1>3, BeginStarts
  <1>4. CASE ArchiveLedger(b)
    <2>1. supervisor'[b] \in SupervisorSet({file})
      BY <1>1, <1>2, <1>4 DEF ArchiveLedger, SupervisorSet
    <2>2. QED
      BY <2>1
  <1>5. CASE ArchiveDatabase(b)
    <2>1. Len(turns) \in Nat
      BY DEF IInv, TurnsInv
    <2>2. (supervisor[b].copy.ledger = file) \in BOOLEAN
      OBVIOUS
    <2>3. supervisor'[b] \in SupervisorSet(L)
      BY <1>1, <1>2, <1>5, <2>1, <2>2 DEF ArchiveDatabase, SupervisorSet
    <2>4. QED
      BY <2>3
  <1>6. CASE CompareLedger(b) \/ CompareDatabase(b)
    <2>1. supervisor'[b] \in SupervisorSet(L)
      BY <1>1, <1>2, <1>6 DEF CompareLedger, CompareDatabase, SupervisorSet
    <2>2. QED
      BY <2>1
  <1>7. CASE CutShort(b) \/ Recheck(b)
    <2>1. supervisor'[b] = Absent
      BY <1>1, <1>7 DEF CutShort, Recheck, Ends
    <2>2. QED
      BY <2>1, AbsentTyped
  <1>8. CASE /\ ~Begin(b) /\ ~CutShort(b) /\ ~Recheck(b)
             /\ ~ArchiveLedger(b) /\ ~ArchiveDatabase(b)
             /\ ~CompareLedger(b) /\ ~CompareDatabase(b)
    <2>1. PICK s \in Steps : Goes(b, s)
      BY <1>8, StepsGo
    <2>2. supervisor'[b] \in SupervisorSet(L)
      BY <1>2, <2>1, GoesTo DEF SupervisorSet, Steps
    <2>3. QED
      BY <2>2
  <1>9. QED
    BY <1>3, <1>4, <1>5, <1>6, <1>7, <1>8

\* Every supervisor is always at a step, and the units are in a state.
LEMMA SupervisorStep ==
    ASSUME IInv, Next
    PROVE  SupervisorInv'
  <1>1. CASE UNCHANGED supervisorVars
    BY <1>1 DEF IInv, SupervisorInv, supervisorVars
  <1>2. CASE Deploy
    BY <1>2 DEF IInv, SupervisorInv, Deploy, AgentStarts
  <1>3. ASSUME NEW b \in Supervisors, Supervise(b)
        PROVE  SupervisorInv'
    <2>1. PICK L : supervisor \in [Supervisors -> SupervisorSet(L)]
      BY DEF IInv, SupervisorInv
    <2>2. /\ writer' \in {"active", "inactive"}
          /\ timer' \in {"active", "inactive", "absent"}
          /\ stranded' \in BOOLEAN
      BY <1>3
         DEF IInv, SupervisorInv, Supervise, Begin, StopTimer,
         StopHealth, StopWriter, Confirm, ArchiveLedger, ArchiveDatabase,
         CompareLedger, CompareDatabase, Fails, Recover, CutShort, StartWriter,
         StartTimer, StartFails, Recheck, Other, AgentStops, AgentStarts,
         agentVars, agent
    <2>3. PICK M : supervisor'[b] \in SupervisorSet(M)
      BY <1>3, OneTyped
    <2>4. supervisor' = [supervisor EXCEPT ![b] = supervisor'[b]]
      BY <1>3, Apart DEF IInv
    <2>5. /\ SupervisorSet(L) \subseteq SupervisorSet(L \cup M)
          /\ SupervisorSet(M) \subseteq SupervisorSet(L \cup M)
      BY DEF SupervisorSet
    <2>6. supervisor' \in [Supervisors -> SupervisorSet(L \cup M)]
      BY <2>1, <2>3, <2>4, <2>5
    <2>7. QED
      BY <2>2, <2>6 DEF SupervisorInv
  <1>4. QED
    BY <1>1, <1>2, <1>3, SupervisorFrame

\* A step of a supervisor leaves it with what it found the agent to be.
LEMMA KnowsStep ==
    ASSUME IInv, NEW b \in Supervisors, Supervise(b)
    PROVE  \A c \in Supervisors : Knows(c)'
  <1>0. SupervisorInv
    BY DEF IInv
  <1> USE DEF IInv, PriorInv, Knows, At
  <1>1. PICK L : supervisor \in [Supervisors -> SupervisorSet(L)]
    BY DEF SupervisorInv
  <1>2. supervisor[b] \in SupervisorSet(L)
    BY <1>1
  <1>3. \A c \in Supervisors \ {b} : Knows(c)'
    BY Apart
  <1>4. CASE Begin(b)
    <2>1. CASE supervisor' = supervisor
      BY <2>1
    <2>2. CASE supervisor' # supervisor
      <3>1. supervisor'[b].prior = [timer |-> timer, writer |-> writer]
        BY <1>0, <1>4, <2>2, BeginStarts
      <3>2. QED
        BY <1>3, <3>1 DEF SupervisorInv
    <2>3. QED
      BY <2>1, <2>2
  <1>5. CASE CutShort(b) \/ Recheck(b)
    <2>1. supervisor'[b] = Absent
      BY <1>1, <1>5 DEF CutShort, Recheck, Ends
    <2>2. QED
      BY <1>3, <2>1 DEF Absent
  <1>6. CASE ~Begin(b) /\ ~CutShort(b) /\ ~Recheck(b)
    <2>1. supervisor[b].at # "absent"
      BY <1>6 DEF Supervise, StopTimer, StopHealth, StopWriter, Confirm,
         ArchiveLedger, ArchiveDatabase, CompareLedger, CompareDatabase, Fails,
         Recover, StartWriter, StartTimer, StartFails
    <2>2. supervisor'[b].prior = supervisor[b].prior
      <3>1. CASE \E s \in Steps : Goes(b, s)
        BY <3>1, GoesTo
      <3>2. CASE ArchiveLedger(b) \/ ArchiveDatabase(b) \/ CompareLedger(b)
                 \/ CompareDatabase(b)
        BY <1>1, <1>2, <3>2 DEF ArchiveLedger, ArchiveDatabase, CompareLedger,
           CompareDatabase, SupervisorSet
      <3>3. QED
        BY <1>6, <3>1, <3>2, StepsGo
    <2>3. QED
      BY <1>3, <2>1, <2>2
  <1>7. QED
    BY <1>4, <1>5, <1>6

\* A backup that holds the agent does so until the agent is up, or stranded.
LEMMA HoldsStep ==
    ASSUME IInv, NEW b \in Supervisors, Supervise(b),
           NEW c \in Supervisors, Holds(c),
           writer' = "inactive", ~stranded'
    PROVE  Holds(c)'
  <1> USE DEF IInv, Holds, At
  <1>1. CASE c # b
    BY <1>1, Apart
  <1>2. CASE c = b
    <2>1. PICK L : supervisor \in [Supervisors -> SupervisorSet(L)]
      BY DEF SupervisorInv
    <2>2. supervisor[b] \in SupervisorSet(L) /\ Holds(b)
      BY <1>2, <2>1
    <2>3. CASE Begin(b) \/ StopTimer(b) \/ StopHealth(b) \/ StopWriter(b)
               \/ StartTimer(b) \/ Recheck(b)
      BY <2>2, <2>3 DEF Begin, StopTimer, StopHealth, StopWriter, StartTimer,
         Recheck
    <2>4. CASE Confirm(b) \/ Fails(b) \/ Recover(b)
      <3>1. PICK s \in {"archive-ledger", "finally", "start-writer"} :
               Goes(b, s)
        BY <2>4 DEF Confirm, Fails, Recover
      <3>2. QED
        BY <1>2, <2>2, <3>1, GoesTo
    <2>5. CASE ArchiveLedger(b) \/ ArchiveDatabase(b) \/ CompareLedger(b)
               \/ CompareDatabase(b)
      BY <1>2, <2>1, <2>2, <2>5 DEF ArchiveLedger, ArchiveDatabase,
         CompareLedger, CompareDatabase, SupervisorSet
    <2>6. CASE StartWriter(b)
      BY <2>2, <2>6 DEF StartWriter, AgentStarts, SupervisorInv
    <2>7. CASE CutShort(b) \/ StartFails(b)
      BY <2>7 DEF CutShort, StartFails
    <2>8. QED
      BY <2>3, <2>4, <2>5, <2>6, <2>7 DEF Supervise
  <1>3. QED
    BY <1>1, <1>2

\* Only a supervisor stops the agent, and it then holds it, or leaves it
\* stranded.
LEMMA StopsHold ==
    ASSUME IInv, NEW b \in Supervisors, Supervise(b),
           writer = "active", writer' = "inactive", ~stranded'
    PROVE  Holds(b)'
  <1> USE DEF IInv, Holds, At
  <1>1. StopWriter(b)
    BY DEF Supervise, Begin, StopTimer, StopHealth, Confirm, ArchiveLedger,
       ArchiveDatabase, CompareLedger, CompareDatabase, Fails, Recover,
       CutShort, StartWriter, StartTimer, StartFails, Recheck, AgentStarts,
       agentVars, agent
  <1>2. supervisor[b].prior.writer = "active"
    BY <1>1 DEF StopWriter, PriorInv, Knows
  <1>3. Goes(b, "confirm")
    BY <1>1 DEF StopWriter
  <1>4. QED
    BY <1>2, <1>3, GoesTo

\* The agent is held as long as it is down and nothing has stranded it.
LEMMA PriorStep ==
    ASSUME IInv, Next
    PROVE  PriorInv'
  <1> USE DEF IInv, PriorInv
  <1>1. CASE UNCHANGED supervisorVars
    BY <1>1 DEF supervisorVars, DownOnlyInBackup, Knows, At
  <1>2. CASE Deploy
    BY <1>2 DEF Deploy, AgentStarts, DownOnlyInBackup, Knows, At
  <1>3. ASSUME NEW b \in Supervisors, Supervise(b)
        PROVE  PriorInv'
    <2>1. stranded => stranded'
      BY <1>3 DEF Supervise, Begin, StopTimer, StopHealth, StopWriter, Confirm,
         ArchiveLedger, ArchiveDatabase, CompareLedger, CompareDatabase, Fails,
         Recover, CutShort, StartWriter, StartTimer, StartFails, Recheck, Other
    <2>2. ASSUME writer' = "inactive", ~stranded'
          PROVE  \E c \in Supervisors : Holds(c)'
      <3>1. CASE writer = "active"
        BY <1>3, <2>2, <3>1, StopsHold
      <3>2. CASE writer = "inactive"
        <4>1. PICK c \in Supervisors : Holds(c)
          BY <2>1, <2>2, <3>2 DEF DownOnlyInBackup, Holds
        <4>2. QED
          BY <1>3, <2>2, <4>1, HoldsStep
      <3>3. QED
        BY <3>1, <3>2 DEF SupervisorInv
    <2>3. DownOnlyInBackup'
      BY <2>2 DEF DownOnlyInBackup, Holds
    <2>4. QED
      BY <1>3, <2>3, KnowsStep
  <1>4. QED
    BY <1>1, <1>2, <1>3, SupervisorFrame

\* An archive stays what it is as long as its supervisor takes no step.
LEMMA CopiedKept ==
    ASSUME SupervisorInv, NEW c \in Supervisors, Copied(supervisor[c]),
           supervisor'[c] = supervisor[c],
           Len(turns) \in Nat, Len(turns') \in Nat,
           Len(turns) <= Len(turns')
    PROVE  Copied(supervisor[c])'
  <1>1. PICK L : supervisor[c] \in SupervisorSet(L)
    BY DEF SupervisorInv
  <1>2. QED
    BY <1>1 DEF Copied, SupervisorSet

\* An archive that has fallen behind the database stays behind it.
LEMMA CopiedStep ==
    ASSUME IInv, NEW b \in Supervisors, Supervise(b),
           Len(turns) \in Nat, Len(turns') \in Nat,
           Len(turns) <= Len(turns')
    PROVE  Copied(supervisor[b])'
  <1> USE DEF At
  <1>1. PICK L : supervisor \in [Supervisors -> SupervisorSet(L)]
    BY DEF IInv, SupervisorInv
  <1>2. /\ supervisor[b] \in SupervisorSet(L) /\ SupervisorInv
        /\ Copied(supervisor[b])
    BY <1>1 DEF IInv, CopyInv
  <1>3. CASE Begin(b)
    <2>1. CASE supervisor' = supervisor
      BY <1>2, <2>1, CopiedKept
    <2>2. CASE supervisor' # supervisor
      BY <1>2, <1>3, <2>2, BeginStarts DEF Copied
    <2>3. QED
      BY <2>1, <2>2
  <1>4. CASE StopTimer(b) \/ StopHealth(b) \/ StopWriter(b) \/ Confirm(b)
             \/ Fails(b) \/ Recover(b) \/ StartWriter(b) \/ StartTimer(b)
             \/ StartFails(b)
    <2>1. PICK s \in Steps \ {"compare-ledger", "compare-database"} :
             /\ Goes(b, s)
             /\ supervisor[b].ok => s \in {"finally", "start-writer",
                                           "start-timer", "recheck"}
      <3>1. CASE StopTimer(b) \/ StopHealth(b) \/ StopWriter(b) \/ Confirm(b)
        BY <1>2, <3>1 DEF StopTimer, StopHealth, StopWriter, Confirm, Steps,
           Copied
      <3>2. CASE Fails(b) \/ Recover(b) \/ StartWriter(b) \/ StartTimer(b)
        BY <3>2 DEF Fails, Recover, StartWriter, StartTimer, Steps
      <3>3. CASE StartFails(b)
        BY <3>3 DEF StartFails, Steps
      <3>4. QED
        BY <1>4, <3>1, <3>2, <3>3
    <2>2. QED
      BY <1>2, <2>1, GoesTo DEF Copied
  <1>5. CASE ArchiveLedger(b)
    BY <1>1, <1>2, <1>5 DEF ArchiveLedger, SupervisorSet, Copied
  <1>6. CASE ArchiveDatabase(b)
    <2>1. /\ supervisor'[b].at = "compare-ledger"
          /\ supervisor'[b].copy.db = Len(turns)
          /\ supervisor'[b].ok = supervisor[b].ok
      BY <1>1, <1>2, <1>6 DEF ArchiveDatabase, SupervisorSet
    <2>2. ~supervisor[b].ok
      BY <1>2, <1>6 DEF ArchiveDatabase, Copied
    <2>3. QED
      BY <2>1, <2>2 DEF Copied
  <1>7. CASE CompareLedger(b)
    <2>1. /\ supervisor[b].at = "compare-ledger" /\ turns' = turns
          /\ supervisor[b].copy.db <= Len(turns)
      BY <1>2, <1>7 DEF CompareLedger, Copied, agentVars, agent
    <2>2. /\ supervisor'[b].at = IF supervisor[b].copy.ledger = file
                                 THEN "compare-database" ELSE "finally"
          /\ supervisor'[b].copy = supervisor[b].copy
          /\ supervisor'[b].ok = supervisor[b].ok
          /\ supervisor'[b].matched
                = (supervisor[b].matched \/ supervisor[b].copy = Source)
      BY <1>1, <1>2, <1>7 DEF CompareLedger, SupervisorSet
    <2>3. ASSUME supervisor'[b].at = "compare-database",
                 ~supervisor'[b].matched
          PROVE  supervisor[b].copy.db < Len(turns)
      <3>1. supervisor[b].copy.ledger = file /\ supervisor[b].copy # Source
        BY <2>2, <2>3
      <3>2. supervisor[b].copy \in [ledger : L, db : Nat]
        BY <1>2 DEF SupervisorSet
      <3>3. supervisor[b].copy.db # Len(turns)
        BY <3>1, <3>2 DEF Source
      <3>4. QED
        BY <2>1, <3>2, <3>3
    <2>4. ~supervisor[b].ok
      BY <1>2, <2>1 DEF Copied
    <2>5. QED
      BY <2>1, <2>2, <2>3, <2>4 DEF Copied
  <1>8. CASE CompareDatabase(b)
    <2>1. /\ supervisor[b].at = "compare-database"
          /\ supervisor'[b].at = "finally"
          /\ supervisor'[b].ok => supervisor[b].copy.db = Len(turns)
          /\ supervisor[b].matched => supervisor'[b].matched
      BY <1>1, <1>2, <1>8 DEF CompareDatabase, SupervisorSet
    <2>2. ASSUME supervisor'[b].ok
          PROVE  supervisor'[b].matched
      <3>1. supervisor[b].copy.db \in Nat
        BY <1>2 DEF SupervisorSet
      <3>2. ~(supervisor[b].copy.db < Len(turns))
        BY <2>1, <2>2, <3>1
      <3>3. supervisor[b].matched
        BY <1>2, <2>1, <3>2 DEF Copied
      <3>4. QED
        BY <2>1, <3>3
    <2>3. QED
      BY <2>1, <2>2 DEF Copied
  <1>9. CASE CutShort(b) \/ Recheck(b)
    <2>1. supervisor'[b] = Absent
      BY <1>1, <1>9 DEF CutShort, Recheck, Ends
    <2>2. QED
      BY <2>1 DEF Absent, Copied
  <1>10. QED
    BY <1>3, <1>4, <1>5, <1>6, <1>7, <1>8, <1>9 DEF Supervise

\* Every archive, whichever supervisor takes a step.
LEMMA CopyStep ==
    ASSUME IInv, Next
    PROVE  CopyInv'
  <1>1. /\ Len(turns) \in Nat /\ Len(turns') \in Nat
        /\ Len(turns) <= Len(turns')
    BY TurnsStep DEF TurnsGrow
  <1>2. SupervisorInv /\ \A c \in Supervisors : Copied(supervisor[c])
    BY DEF IInv, CopyInv
  <1>3. CASE supervisor' = supervisor
    BY <1>1, <1>2, <1>3, CopiedKept DEF CopyInv
  <1>4. ASSUME NEW b \in Supervisors, Supervise(b)
        PROVE  CopyInv'
    BY <1>1, <1>2, <1>4, Apart, CopiedKept, CopiedStep DEF CopyInv
  <1>5. QED
    BY <1>3, <1>4, SupervisorFrame DEF supervisorVars, Deploy

-----------------------------------------------------------------------------
(* The theorems about the runner and the backup. *)

\* No turn, no request and no backup.
LEMMA InitInv == Init => IInv
  <1> SUFFICES ASSUME Init PROVE IInv
    OBVIOUS
  <1> USE DEF Init, AgentInit
  <1>1. TurnsInv
    BY EmptySeq DEF TurnsInv
  <1>2. RunnerInv
    BY EmptySeq DEF RunnerInv, Idle
  <1>3. RateInv
    BY DEF RateInv
  <1>4. ToldInv
    BY DEF ToldInv, ToldIsAudited, Turns, Idle
  <1>5. SupervisorInv
    <2>1. supervisor \in [Supervisors -> SupervisorSet({Corrupt})]
      BY AbsentTyped
    <2>2. QED
      BY <2>1 DEF SupervisorInv
  <1>6. PriorInv /\ CopyInv
    BY DEF PriorInv, DownOnlyInBackup, Knows, At, CopyInv, Copied, Absent
  <1>7. QED
    BY <1>1, <1>2, <1>3, <1>4, <1>5, <1>6 DEF IInv

\* Every step keeps every part of the invariant.
LEMMA NextInv == IInv /\ [Next]_vars => IInv'
  <1>1. ASSUME IInv, UNCHANGED vars
        PROVE  IInv'
    BY <1>1 DEF IInv, vars, agentVars, agent, ops, TurnsInv, RunnerInv,
       RateInv, Accounted, ToldInv, ToldIsAudited, Turns, SupervisorInv,
       PriorInv, DownOnlyInBackup, Knows, At, CopyInv, Copied
  <1>2. ASSUME IInv, Next
        PROVE  IInv'
    BY <1>2, TurnsStep, RunnerStep, RateStep, ToldStep, SupervisorStep,
       PriorStep, CopyStep DEF IInv, TurnsGrow
  <1>3. QED
    BY <1>1, <1>2

\* The invariant holds throughout.
LEMMA Invariant == Spec => []IInv
  BY InitInv, NextInv, PTL DEF Spec

\* A target is restarted once in an interval, for any number of clients,
\* whichever of them time out and whenever the runner dies, but for restarts
\* that state.json never showed.
THEOREM RateIsKept == Spec => []OncePerInterval
  <1>1. IInv => OncePerInterval
    BY DEF IInv, RateInv, OncePerInterval
  <1>2. QED
    BY <1>1, Invariant, PTL

\* No turn is told of a restart that the audit does not have.
THEOREM ToldAlwaysAudited == Spec => []ToldIsAudited
  <1>1. IInv => ToldIsAudited
    BY DEF IInv, ToldInv
  <1>2. QED
    BY <1>1, Invariant, PTL

\* A backup that passes is the home as it was at one moment, however long the
\* session database grows while the archive is made and compared.
THEOREM PassAlwaysAMoment == Spec => []PassIsAMoment
  <1>1. IInv => PassIsAMoment
    BY DEF IInv, CopyInv, Copied, PassIsAMoment
  <1>2. QED
    BY <1>1, Invariant, PTL

\* However many backups run at a time or one after the other, and at whatever
\* steps they fail, the agent is down outside of those that found it active only
\* after a kill, an early signal, a start that failed, or the stop of one that
\* had found it stopped by another.
THEOREM DownAlwaysInBackup == Spec => []DownOnlyInBackup
  <1>1. IInv => DownOnlyInBackup
    BY DEF IInv, PriorInv
  <1>2. QED
    BY <1>1, Invariant, PTL

-----------------------------------------------------------------------------
(* The inductive invariant of the ledger and of the types. *)

\* Time has passed since the ledger was written, it is within its limits, and
\* it counts no more than was committed.
LedgerGood(l, now, s) ==
    l # Corrupt => Wellformed(l, now) /\ Bounded(l) /\ AtMost(l, s)

\* A turn's verdict is about an alert, a repeat is of what was counted, and
\* the ledger it read was once the file.
TurnGood(turn, asks, now, s) ==
    /\ Range(turn.notice) \subseteq InstanceType
    /\ turn.verdict \in VerdictType
    /\ turn.verdict.kind # "none" =>
          /\ turn.verdict.family \in Families
          /\ turn.verdict.since \in 1 .. MaxNotices
    /\ turn.verdict.kind = "repeat" =>
          \A i \in Range(turn.notice) : s[<<i.family, i.since>>] > 0
    /\ turn.at = "loaded" => turn.verdict.kind \notin {"none", "unknown"}
    /\ turn.asks <= asks
    /\ LedgerGood(turn.copy, now, s)

TurnsGood == \A t \in Turns : TurnGood(turns[t], bounds.asks, clock, sightings)

\* Every notice is committed at most once: by the turn it began.
Announced == {t \in Turns : turns[t].verdict.kind # "none"}

NoticesInv ==
    /\ bounds \in Worlds
    /\ notices \in 0 .. bounds.notices
    /\ grafana \in [Families -> [since : 0 .. notices, firing : BOOLEAN]]
    /\ \A f \in Families : grafana[f].firing => grafana[f].since # 0
    /\ sightings \in [Episode -> Nat]
    /\ \A e \in Episode : sightings[e] + Cardinality(Announced) <= notices

FileInv ==
    /\ clock \in Nat /\ mishaps \in Nat /\ overwritten \in BOOLEAN
    /\ LedgerGood(file, clock, sightings)
    /\ Undisturbed /\ file # Corrupt => Shows(file, sightings)

PendingInv ==
    /\ pending \in Seq(Turns) /\ Len(pending) <= MaxPending
    /\ IsInjective(pending)

\* Whatever the runner has in hand was asked for by a turn.
Asked(r) == r.turn \in Turns /\ r.ask \in 1 .. bounds.asks

QueueInv ==
    /\ \A i \in DOMAIN queue : Asked(queue[i])
    /\ Len(queue) <= Backlog + 1
    /\ runner.job # None => Asked(runner.job)
    /\ runner.at \notin {"idle", "down"} => Asked(runner.job)
    /\ runner.at \in {"restarting", "recording"}
          => runner.job.target \in Allowed
    /\ recorded \subseteq Allowed
    /\ audit \subseteq Turns \X (1 .. bounds.asks)

UnitsInv ==
    /\ health \in {"active", "inactive", "absent", "activating", "failed"}
    /\ outcome \in {"none", "passed", "failed", "attention", "killed"}

LInv == /\ TurnsGood /\ NoticesInv /\ FileInv
        /\ PendingInv /\ QueueInv /\ UnitsInv

-----------------------------------------------------------------------------
(* What the steps change of the ledger and the turns. *)

ledgerVars == <<notices, grafana, file, clock, sightings, overwritten>>

\* The steps that change the ledger or what it is about.
LEMMA LedgerFrame ==
    ASSUME Next
    PROVE  \/ UNCHANGED ledgerVars
           \/ Notify
           \/ \E t \in Turns : TransformSave(t)
           \/ LedgerLost
           \/ LongPause
  BY DEF Next, AgentNext, Step, Chat, PreLlmCall, SaysNothing, TransformLoad,
     SaveFails, ClientTimeout, OpsFix, RunnerNext, Accept, Restart, Record,
     Audit, RecordFails, Answer, RunnerKilled, RunnerReturns, IntervalPasses,
     RunnerUnchanged, HealthFires, HealthEnds, Deploy, Supervise, Begin,
     StopTimer, StopHealth, StopWriter, Confirm, ArchiveLedger,
     ArchiveDatabase, CompareLedger, CompareDatabase, Fails, Recover,
     CutShort, StartWriter, StartTimer, StartFails, Recheck, agentVars, agent,
     ledgerVars

\* No step changes the bounds, and mishaps only add up.
LEMMA BoundsFrame ==
    ASSUME Next
    PROVE  bounds' = bounds /\ (mishaps' = mishaps \/ mishaps' = mishaps + 1)
  BY DEF Next, AgentNext, Step, Notify, Chat, PreLlmCall, LedgerLost, LongPause,
     SaysNothing, TransformLoad, TransformSave,
     SaveFails, ClientTimeout, OpsFix, RunnerNext, Accept, Restart, Record,
     Audit, RecordFails, Answer, RunnerKilled, RunnerReturns, IntervalPasses,
     RunnerUnchanged, HealthFires, HealthEnds, Deploy, Supervise, Begin,
     StopTimer, StopHealth, StopWriter, Confirm, ArchiveLedger,
     ArchiveDatabase, CompareLedger, CompareDatabase, Fails, Recover,
     CutShort, StartWriter, StartTimer, StartFails, Recheck, agentVars, agent,
     Mishap

\* The steps that change the turns or what is pending.
LEMMA TurnsFrame ==
    ASSUME Next
    PROVE  \/ UNCHANGED <<turns, pending>>
           \/ Notify \/ Chat
           \/ \E t \in Turns : Step(t)
           \/ UNCHANGED pending /\ (Answer \/ RunnerDies)
           \/ AgentStops
  BY DEF Next, AgentNext, LedgerLost, LongPause,
     RunnerNext, Accept, Restart, Record,
     Audit, RecordFails, Answer, RunnerKilled, RunnerReturns, IntervalPasses,
     RunnerUnchanged, HealthFires, HealthEnds, Deploy, Supervise, Begin,
     StopTimer, StopHealth, StopWriter, Confirm, ArchiveLedger,
     ArchiveDatabase, CompareLedger, CompareDatabase, Fails, Recover,
     CutShort, StartWriter, StartTimer, StartFails, Recheck, agentVars, agent

\* How a turn comes out of a step: it goes on with the same verdict, it ends,
\* or it begins with a message.
GoesOn(t) ==
    /\ t \in Turns
    /\ turns'[t].notice = turns[t].notice
    /\ turns'[t].verdict = turns[t].verdict
    /\ turns'[t].copy \in {turns[t].copy, file}
    /\ turns'[t].asks <= bounds.asks
    /\ turns'[t].at = "loaded" => \/ turns[t].at = "loaded"
                                  \/ turns[t].verdict.kind \notin {"none", "unknown"}

EndsNow(t) == t \in Turns /\ turns'[t] = Done

Begins(t) ==
    /\ t = Len(turns) + 1
    /\ \E notice \in Seq(InstanceType) :
          /\ PreLlmCall(notice)
          /\ Notify \/ notice = <<>>
          /\ turns'[t] = [at |-> "thinking", notice |-> notice,
                          verdict |-> Classify(file, notice), copy |-> Empty,
                          asks |-> 0, told |-> "nothing"]

\* The bounds of a behaviour are numbers.
LEMMA BoundsOK ==
    ASSUME NoticesInv
    PROVE  /\ bounds.notices \in Nat /\ bounds.notices <= MaxNotices
           /\ bounds.asks \in Nat
           /\ MaxNotices \in Nat \ {0} /\ notices \in Nat
<1>1. AgentAssumption
  BY AgentAssumption
<1>2. bounds \in World
  BY <1>1 DEF AgentAssumption, NoticesInv
<1>3. bounds.notices \in Nat /\ bounds.asks \in Nat
  BY <1>2 DEF World
<1> QED
  BY <1>1, <1>3, MaxNoticesOK DEF NoticesInv

\* A notice lists instances of alerts.
LEMMA NotifyOK ==
    ASSUME NoticesInv, Notify
    PROVE  /\ notices' = notices + 1 /\ notices < bounds.notices
           /\ grafana' \in [Families -> [since : 0 .. notices + 1, firing : BOOLEAN]]
           /\ \A f \in Families : grafana'[f].firing => grafana'[f].since # 0
           /\ \E notice \in Seq(InstanceType) : PreLlmCall(notice)
<1>1. /\ bounds.notices \in Nat /\ bounds.notices <= MaxNotices
      /\ MaxNotices \in Nat \ {0} /\ notices \in Nat
  BY BoundsOK
<1>2. PICK S \in (SUBSET Families) \ {{}} :
      \E next \in [S -> UNION {Nexts(f) : f \in S}] :
          /\ \A f \in S : next[f] \in Nexts(f)
          /\ grafana' = [f \in Families |-> IF f \in S THEN next[f]
                                                       ELSE grafana[f]]
          /\ PreLlmCall(
                [n \in 1 .. Cardinality(S) |->
                    LET f == Ascending(S)[n]
                    IN  [family |-> f, since |-> next[f].since,
                         resolved |-> ~next[f].firing]])
  BY DEF Notify
<1>3. PICK next \in [S -> UNION {Nexts(f) : f \in S}] :
          /\ \A f \in S : next[f] \in Nexts(f)
          /\ grafana' = [f \in Families |-> IF f \in S THEN next[f]
                                                       ELSE grafana[f]]
          /\ PreLlmCall(
                [n \in 1 .. Cardinality(S) |->
                    LET f == Ascending(S)[n]
                    IN  [family |-> f, since |-> next[f].since,
                         resolved |-> ~next[f].firing]])
  BY <1>2
<1>4. notices' = notices + 1 /\ notices < bounds.notices
  BY DEF Notify
<1> DEFINE Alert == [since : 0 .. notices + 1, firing : BOOLEAN]
<1>5. ASSUME NEW f \in Families
      PROVE  grafana[f] \in Alert /\ (grafana[f].firing => grafana[f].since # 0)
  BY <1>1 DEF NoticesInv
<1>6. ASSUME NEW f \in Families, NEW g \in Nexts(f)
      PROVE  g \in Alert /\ g.since \in 1 .. notices + 1
  <2>1. /\ grafana[f].since \in 0 .. notices
        /\ grafana[f] \in [since : 0 .. notices, firing : BOOLEAN]
    BY DEF NoticesInv
  <2>2. CASE g = [since |-> grafana[f].since + 1, firing |-> TRUE]
    BY <1>1, <2>1, <2>2
  <2>3. CASE grafana[f].since # 0 /\ g = [grafana[f] EXCEPT !.firing = TRUE]
    <3>1. grafana[f].since \in 1 .. notices + 1
      BY <1>1, <2>1, <2>3
    <3>2. /\ g.since = grafana[f].since
          /\ g \in [since : 0 .. notices, firing : BOOLEAN]
      BY <2>1, <2>3
    <3>3. 0 .. notices \subseteq 0 .. notices + 1
      BY <1>1
    <3> QED
      BY <3>1, <3>2, <3>3
  <2>4. CASE grafana[f].firing /\ g = [grafana[f] EXCEPT !.firing = FALSE]
    <3>1. grafana[f].since \in 1 .. notices + 1
      BY <1>1, <1>5, <2>1, <2>4
    <3>2. /\ g.since = grafana[f].since
          /\ g \in [since : 0 .. notices, firing : BOOLEAN]
      BY <2>1, <2>4
    <3>3. 0 .. notices \subseteq 0 .. notices + 1
      BY <1>1
    <3> QED
      BY <3>1, <3>2, <3>3
  <2> QED
    BY <2>2, <2>3, <2>4 DEF Nexts
<1>7. grafana' \in [Families -> Alert]
  BY <1>3, <1>5, <1>6
<1>8. \A f \in Families : grafana'[f].firing => grafana'[f].since # 0
  <2> TAKE f \in Families
  <2>1. CASE f \in S
    <3>1. grafana'[f].since \in 1 .. notices + 1
      BY <1>3, <1>6, <2>1
    <3> QED
      BY <1>1, <3>1
  <2>2. CASE f \notin S
    <3>1. grafana'[f] = grafana[f]
      BY <1>3, <2>2
    <3> QED
      BY <1>5, <3>1
  <2> QED
    BY <2>1, <2>2
<1> DEFINE e(f) == [family |-> f, since |-> next[f].since,
                    resolved |-> ~next[f].firing]
           notice == [n \in 1 .. Cardinality(S) |-> e(Ascending(S)[n])]
<1>9. \A f \in S : e(f) \in InstanceType
  <2> TAKE f \in S
  <2>1. /\ f \in Families
        /\ next[f] \in Alert
        /\ next[f].since \in 1 .. notices + 1
    BY <1>3, <1>6
  <2>2. next[f].since \in 1 .. MaxNotices
    BY <1>1, <1>4, <2>1
  <2> QED
    BY <2>1, <2>2 DEF InstanceType
<1>10. /\ Cardinality(S) \in Nat
       /\ \A n \in 1 .. Cardinality(S) : Ascending(S)[n] \in S
  <2>1. AgentAssumption
    BY AgentAssumption
  <2>2. S \in SUBSET Families /\ S \in SUBSET Int /\ IsFiniteSet(Families)
    BY <2>1 DEF AgentAssumption
  <2>3. IsFiniteSet(S)
    BY <2>2, FS_Subset
  <2>4. Cardinality(S) \in Nat /\ Ascending(S) \in [1 .. Cardinality(S) -> S]
    BY <2>2, <2>3, AscendingOK
  <2> QED
    BY <2>4
<1>11. notice \in Seq(InstanceType)
  <2>1. \A n \in 1 .. Cardinality(S) : e(Ascending(S)[n]) \in InstanceType
    BY <1>9, <1>10
  <2> HIDE DEF e
  <2> QED
    BY <1>10, <2>1
<1>12. PreLlmCall(notice)
  BY <1>3
<1> QED
  BY <1>4, <1>7, <1>8, <1>11, <1>12

\* Every turn goes on, ends or begins.
LEMMA TurnsShape ==
    ASSUME IInv, LInv, Next
    PROVE  \A t \in Turns' : GoesOn(t) \/ EndsNow(t) \/ Begins(t)
<1>1. TurnsInv /\ Len(turns) \in Nat /\ NoticesInv /\ TurnsGood
  BY DEF IInv, LInv, TurnsInv
<1>2. PICK N, V, L : turns \in [Turns -> TurnSet(N, V, L)]
  BY <1>1, TurnsTyped
<1>3. bounds.asks \in Nat /\ \A t \in Turns : turns[t].asks <= bounds.asks
  BY <1>1, BoundsOK DEF TurnsGood, TurnGood
<1>4. ASSUME NEW notice \in Seq(InstanceType), PreLlmCall(notice),
             Notify \/ notice = <<>>
      PROVE  \A t \in Turns' : GoesOn(t) \/ Begins(t)
  <2> DEFINE new == [at |-> "thinking", notice |-> notice,
                     verdict |-> Classify(file, notice), copy |-> Empty,
                     asks |-> 0, told |-> "nothing"]
  <2>1. turns' = Append(turns, new)
    BY <1>4 DEF PreLlmCall
  <2>2. PICK M : turns \in Seq(M)
    BY <1>1 DEF TurnsInv
  <2> HIDE DEF new
  <2>3. turns \in Seq(M \cup {new})
    BY <2>2, SeqWidens
  <2>4. /\ Len(turns') = Len(turns) + 1 /\ turns' \in Seq(M \cup {new})
        /\ \A t \in 1 .. Len(turns) : turns'[t] = turns[t]
        /\ turns'[Len(turns) + 1] = new
    BY <2>1, <2>3, AppendProperties
  <2>5. Turns' = 1 .. Len(turns) + 1 /\ Turns = 1 .. Len(turns)
    BY <2>2, <2>4 DEF Turns
  <2>6. Begins(Len(turns) + 1)
    BY <1>4, <2>4 DEF Begins, new
  <2>7. \A t \in Turns : GoesOn(t)
    BY <1>3, <2>4, <2>5 DEF GoesOn
  <2> QED
    BY <1>1, <2>5, <2>6, <2>7
<1>5. CASE Notify
  BY <1>1, <1>4, <1>5, NotifyOK
<1>6. CASE Chat
  <2>1. <<>> \in Seq(InstanceType)
    BY EmptySeq
  <2> QED
    BY <1>4, <1>6, <2>1 DEF Chat
<1>7. ASSUME turns' = turns
      PROVE  \A t \in Turns' : GoesOn(t)
  BY <1>3, <1>7 DEF GoesOn, Turns
<1>8. ASSUME NEW t \in Turns, turns' = [turns EXCEPT ![t] = Done]
      PROVE  \A u \in Turns' : GoesOn(u) \/ EndsNow(u)
  <2>1. /\ Turns' = Turns
        /\ \A u \in Turns : turns'[u] = IF u = t THEN Done ELSE turns[u]
    BY <1>2, <1>8 DEF Turns
  <2> QED
    BY <1>3, <2>1 DEF GoesOn, EndsNow
<1>9. ASSUME NEW t \in Turns, NEW r, turns' = [turns EXCEPT ![t] = r],
             r.notice = turns[t].notice, r.verdict = turns[t].verdict,
             r.copy \in {turns[t].copy, file}, r.asks <= bounds.asks,
             r.at = "loaded" => \/ turns[t].at = "loaded"
                                \/ turns[t].verdict.kind \notin {"none", "unknown"}
      PROVE  \A u \in Turns' : GoesOn(u)
  <2>1. /\ Turns' = Turns
        /\ \A u \in Turns : turns'[u] = IF u = t THEN r ELSE turns[u]
    BY <1>2, <1>9 DEF Turns
  <2> QED
    BY <1>3, <1>9, <2>1 DEF GoesOn
<1>10. ASSUME NEW t \in Turns,
              SaysNothing(t) \/ TransformSave(t) \/ SaveFails(t)
       PROVE  \A u \in Turns' : GoesOn(u) \/ EndsNow(u)
  BY <1>8, <1>10 DEF SaysNothing, TransformSave, SaveFails
<1>11. ASSUME NEW t \in Turns, TransformLoad(t)
       PROVE  \A u \in Turns' : GoesOn(u) \/ EndsNow(u)
  <2>1. CASE /\ t \in Range(pending)
             /\ turns[t].verdict.kind \notin {"none", "unknown"}
    <3> DEFINE r == [turns[t] EXCEPT !.at = "loaded", !.copy = file]
    <3>1. turns' = [turns EXCEPT ![t] = r]
      BY <1>11, <2>1 DEF TransformLoad
    <3>2. /\ r.notice = turns[t].notice /\ r.verdict = turns[t].verdict
          /\ r.copy = file /\ r.asks = turns[t].asks
      BY <1>2 DEF TurnSet
    <3> HIDE DEF r
    <3> QED
      BY <1>3, <1>9, <2>1, <3>1, <3>2
  <2>2. CASE ~(/\ t \in Range(pending)
              /\ turns[t].verdict.kind \notin {"none", "unknown"})
    <3>1. turns' = [turns EXCEPT ![t] = Done]
      BY <1>11, <2>2 DEF TransformLoad
    <3> QED
      BY <1>8, <3>1
  <2> QED
    BY <2>1, <2>2
<1>12. ASSUME NEW t \in Turns, ClientTimeout(t)
       PROVE  \A u \in Turns' : GoesOn(u)
  <2> DEFINE r == [turns[t] EXCEPT !.at = "thinking", !.told = "unavailable"]
  <2>1. turns' = [turns EXCEPT ![t] = r]
    BY <1>2, <1>12 DEF ClientTimeout, TurnSet
  <2>2. /\ r.notice = turns[t].notice /\ r.verdict = turns[t].verdict
        /\ r.copy = turns[t].copy /\ r.asks = turns[t].asks /\ r.at = "thinking"
    BY <1>2 DEF TurnSet
  <2> HIDE DEF r
  <2> QED
    BY <1>3, <1>9, <2>1, <2>2
<1>13. ASSUME NEW t \in Turns, NEW g \in Targets, OpsFix(t, g)
       PROVE  \A u \in Turns' : GoesOn(u)
  <2>1. /\ turns[t].asks \in Nat
        /\ turns[t].asks < bounds.asks
        /\ turns[t].at = "thinking"
    BY <1>2, <1>13 DEF OpsFix, Thinking, TurnSet
  <2> DEFINE n == turns[t].asks + 1
  <2>2. n <= bounds.asks
    BY <1>3, <2>1
  <2>3. PICK at \in {"thinking", "asking"},
             told \in {"nothing", "unavailable"} :
          turns' = [turns EXCEPT ![t] =
                      [turns[t] EXCEPT !.at = at, !.asks = n, !.told = told]]
    <3>1. CASE Reachable
      <4>1. turns' = [turns EXCEPT ![t] = [turns[t] EXCEPT
               !.at = "asking", !.asks = n, !.told = "nothing"]]
        BY <1>2, <1>13, <3>1 DEF OpsFix, TurnSet
      <4> QED
        BY <4>1
    <3>2. CASE ~Reachable
      <4>1. turns' = [turns EXCEPT ![t] = [turns[t] EXCEPT
               !.at = turns[t].at, !.asks = n, !.told = "unavailable"]]
        BY <1>2, <1>13, <3>2 DEF OpsFix, TurnSet
      <4> QED
        BY <2>1, <4>1
    <3> QED
      BY <3>1, <3>2
  <2> DEFINE r == [turns[t] EXCEPT !.at = at, !.asks = n, !.told = told]
  <2> HIDE DEF n
  <2>4. /\ r.notice = turns[t].notice /\ r.verdict = turns[t].verdict
        /\ r.copy = turns[t].copy /\ r.asks = n /\ r.at = at
    BY <1>2 DEF TurnSet
  <2> HIDE DEF r
  <2> QED
    BY <1>9, <2>2, <2>3, <2>4 DEF r
<1>14. ASSUME RunnerDies
       PROVE  \A u \in Turns' : GoesOn(u)
  <2>1. Turns' = Turns
    BY <1>14 DEF RunnerDies, Turns
  <2>2. \A u \in Turns :
           /\ turns'[u].notice = turns[u].notice
           /\ turns'[u].verdict = turns[u].verdict
           /\ turns'[u].copy = turns[u].copy /\ turns'[u].asks = turns[u].asks
           /\ turns'[u].at = "loaded" => turns[u].at = "loaded"
    BY <1>2, <1>14 DEF RunnerDies, TurnSet
  <2> QED
    BY <1>3, <2>1, <2>2 DEF GoesOn
<1>15. CASE Answer
  <2>1. CASE Waits(runner.job) /\ runner.job.turn \in Turns
    <3> DEFINE t == runner.job.turn
               r == [turns[t] EXCEPT !.at = "thinking", !.told = runner.reply]
    <3>1. turns' = [turns EXCEPT ![t] = r]
      BY <1>2, <1>15, <2>1 DEF Answer, TurnSet
    <3>2. /\ r.notice = turns[t].notice /\ r.verdict = turns[t].verdict
          /\ r.copy = turns[t].copy
          /\ r.asks = turns[t].asks
          /\ r.at = "thinking"
      BY <1>2, <2>1 DEF TurnSet
    <3> HIDE DEF r
    <3> QED
      BY <1>3, <1>9, <2>1, <3>1, <3>2
  <2>2. CASE Waits(runner.job) /\ runner.job.turn \notin Turns
    <3>1. turns' = turns
      BY <1>2, <1>15, <2>2 DEF Answer
    <3> QED
      BY <1>7, <3>1
  <2>3. CASE ~Waits(runner.job)
    BY <1>14, <1>15, <2>3 DEF Answer
  <2> QED
    BY <2>1, <2>2, <2>3
<1>16. CASE AgentStops
  <2>1. turns' = [t \in Turns |-> Done]
    BY <1>16 DEF AgentStops
  <2>2. Turns' = Turns
    BY <2>1 DEF Turns
  <2> QED
    BY <2>1, <2>2 DEF EndsNow
<1>17. ASSUME NEW t \in Turns, Step(t)
       PROVE  \A u \in Turns' : GoesOn(u) \/ EndsNow(u)
  BY <1>10, <1>11, <1>12, <1>13, <1>17 DEF Step
<1> QED
  BY <1>5, <1>6, <1>7, <1>14, <1>15, <1>16, <1>17, TurnsFrame

-----------------------------------------------------------------------------
(* The turns and the ledgers they read. *)

\* A ledger that was good stays so as time passes and more is counted.
LEMMA GoodLater ==
    ASSUME NEW l, NEW now \in Nat, NEW then \in Nat, now <= then,
           NEW s \in [Episode -> Nat], NEW t \in [Episode -> Nat],
           \A e \in Episode : s[e] <= t[e], LedgerGood(l, now, s)
    PROVE  LedgerGood(l, then, t)
<1> SUFFICES ASSUME l # Corrupt PROVE Wellformed(l, then) /\ AtMost(l, t)
  BY DEF LedgerGood
<1>1. Wellformed(l, now) /\ AtMost(l, s)
  BY DEF LedgerGood
<1>2. ASSUME NEW f \in DOMAIN l, NEW i \in DOMAIN l[f]
      PROVE  l[f][i].seen < then /\ l[f][i].count <= t[<<f, l[f][i].since>>]
  <2>1. l[f][i] \in EpisodeRecord /\ <<f, l[f][i].since>> \in Episode
    BY <1>1, EpisodeOf
  <2>2. l[f][i].seen \in Nat /\ l[f][i].count \in Nat
    BY <2>1 DEF EpisodeRecord
  <2>3. l[f][i].seen < now /\ l[f][i].count <= s[<<f, l[f][i].since>>]
    BY <1>1 DEF Wellformed, AtMost
  <2> DEFINE e == <<f, l[f][i].since>>
  <2>4. s[e] \in Nat /\ t[e] \in Nat /\ s[e] <= t[e]
    BY <2>1
  <2> QED
    BY <2>2, <2>3, <2>4
<1> QED
  BY <1>1, <1>2 DEF Wellformed, AtMost

\* A ledger that is missing is good.
LEMMA EmptyGood ==
    ASSUME NEW now, NEW s, AgentAssumption
    PROVE  LedgerGood(Empty, now, s)
<1>1. DOMAIN Empty = {} /\ Cardinality({}) = 0
  BY FS_EmptySet DEF Empty
<1>2. Empty \in [DOMAIN Empty -> Seq(EpisodeRecord)]
  BY DEF Empty
<1> QED
  BY <1>1, <1>2 DEF LedgerGood, Wellformed, Bounded, Short, AtMost,
     AgentAssumption

\* What fits after more was counted did fit before.
LEMMA FitsEarlier ==
    ASSUME NEW s \in [Episode -> Nat], NEW t \in [Episode -> Nat],
           \A e \in Episode : s[e] <= t[e], Fits(t), AgentAssumption
    PROVE  Fits(s)
<1> DEFINE F(u) == {e[1] : e \in {x \in Episode : u[x] > 0}}
           S(u, f) == {e \in Episode : e[1] = f /\ u[e] > 0}
<1>1. MaxNotices \in Nat /\ MaxEpisodes \in Nat /\ MaxFamilies \in Nat
      /\ IsFiniteSet(Families)
  BY MaxNoticesOK DEF AgentAssumption
<1>2. \A e \in Episode : s[e] > 0 => t[e] > 0
  <2> TAKE e \in Episode
  <2>1. s[e] \in Nat /\ t[e] \in Nat /\ s[e] <= t[e]
    OBVIOUS
  <2> QED
    BY <2>1
<1>3. Cardinality(F(s)) <= MaxFamilies
  <2>1. F(s) \in SUBSET F(t) /\ F(t) \in SUBSET Families
    BY <1>2 DEF Episode
  <2>2. Cardinality(F(t)) <= MaxFamilies
    BY DEF Fits
  <2> HIDE DEF F
  <2>3. IsFiniteSet(F(t))
    BY <1>1, <2>1, FS_Subset
  <2>4. IsFiniteSet(F(s)) /\ Cardinality(F(s)) <= Cardinality(F(t))
    BY <2>1, <2>3, FS_Subset
  <2>5. Cardinality(F(s)) \in Nat /\ Cardinality(F(t)) \in Nat
    BY <2>3, <2>4, FS_CardinalityType
  <2> QED
    BY <1>1, <2>2, <2>4, <2>5
<1>4. ASSUME NEW f \in Families PROVE Cardinality(S(s, f)) <= MaxEpisodes
  <2> DEFINE k == [n \in 1 .. MaxNotices |-> <<f, n>>]
             K == {k[n] : n \in 1 .. MaxNotices}
  <2>1. IsFiniteSet(1 .. MaxNotices)
    BY <1>1, UpTo
  <2>2. IsFiniteSet(K)
    BY <2>1, ImageFinite
  <2>3. S(t, f) \in SUBSET K
    <3> SUFFICES ASSUME NEW e \in S(t, f) PROVE e \in K
      OBVIOUS
    <3>1. e[2] \in 1 .. MaxNotices /\ e = <<f, e[2]>>
      BY DEF Episode
    <3> QED
      BY <3>1
  <2>4. S(s, f) \in SUBSET S(t, f)
    BY <1>2
  <2>5. Cardinality(S(t, f)) <= MaxEpisodes
    BY DEF Fits
  <2> HIDE DEF S, K
  <2>6. IsFiniteSet(S(t, f))
    BY <2>2, <2>3, FS_Subset
  <2>7. IsFiniteSet(S(s, f)) /\ Cardinality(S(s, f)) <= Cardinality(S(t, f))
    BY <2>4, <2>6, FS_Subset
  <2>8. Cardinality(S(s, f)) \in Nat /\ Cardinality(S(t, f)) \in Nat
    BY <2>6, <2>7, FS_CardinalityType
  <2> QED
    BY <1>1, <2>5, <2>7, <2>8
<1> QED
  BY <1>3, <1>4 DEF Fits

\* A commit writes what the ledger it read makes of the verdict.
LEMMA SaveOK ==
    ASSUME LInv, IInv, NEW t \in Turns, TransformSave(t),
           turns[t].copy # Corrupt
    PROVE  /\ turns[t].verdict.family \in Families
           /\ turns[t].verdict.since \in 1 .. MaxNotices
           /\ turns[t].verdict.kind # "none"
           /\ file' = Commit(turns[t].copy, turns[t].verdict, clock)
           /\ clock' = clock + 1
           /\ sightings' = Tally(sightings, turns[t].verdict)
           /\ Wellformed(turns[t].copy, clock) /\ Short(turns[t].copy)
           /\ AtMost(turns[t].copy, sightings)
<1>1. TurnGood(turns[t], bounds.asks, clock, sightings)
  BY DEF LInv, TurnsGood
<1>2. turns[t].at = "loaded" /\ turns[t].verdict.kind # "none"
  BY <1>1 DEF TransformSave, TurnGood
<1>3. LedgerGood(turns[t].copy, clock, sightings)
  BY <1>1 DEF TurnGood
<1> QED
  BY <1>1, <1>2, <1>3 DEF TransformSave, TurnGood, LedgerGood, Bounded, Tally

\* Time and counts only grow.
LEMMA HistoryGrows ==
    ASSUME IInv, LInv, Next
    PROVE  /\ clock \in Nat /\ clock' \in Nat /\ clock <= clock'
           /\ sightings \in [Episode -> Nat] /\ sightings' \in [Episode -> Nat]
           /\ \A e \in Episode : sightings[e] <= sightings'[e]
<1>1. clock \in Nat /\ sightings \in [Episode -> Nat] /\ MaxAge \in Nat
  <2>1. AgentAssumption
    BY AgentAssumption
  <2> QED
    BY <2>1 DEF LInv, FileInv, NoticesInv, AgentAssumption
<1>2. \A e \in Episode : sightings[e] \in Nat
  BY <1>1
<1>3. CASE UNCHANGED ledgerVars \/ Notify \/ LedgerLost
  <2>1. clock' = clock /\ sightings' = sightings
    BY <1>3 DEF ledgerVars, Notify, PreLlmCall, LedgerLost
  <2> QED
    BY <1>1, <1>2, <2>1
<1>4. CASE LongPause
  <2>1. clock' = clock + MaxAge /\ sightings' = sightings
    BY <1>4 DEF LongPause
  <2> QED
    BY <1>1, <1>2, <2>1
<1>5. ASSUME NEW t \in Turns, TransformSave(t)
      PROVE  /\ clock' \in Nat
             /\ clock <= clock'
             /\ sightings' \in [Episode -> Nat]
             /\ \A e \in Episode : sightings[e] <= sightings'[e]
  <2>1. CASE turns[t].copy = Corrupt
    <3>1. clock' = clock /\ sightings' = sightings
      BY <1>5, <2>1 DEF TransformSave
    <3> QED
      BY <1>1, <1>2, <3>1
  <2>2. CASE turns[t].copy # Corrupt
    <3>1. clock' = clock + 1 /\ sightings' = Tally(sightings, turns[t].verdict)
      BY <1>5, <2>2, SaveOK
    <3>2. /\ sightings' \in [Episode -> Nat]
          /\ \A e \in Episode : sightings[e] <= sightings'[e]
      BY <1>1, <3>1, TallyOK
    <3> QED
      BY <1>1, <3>1, <3>2
  <2> QED
    BY <2>1, <2>2
<1> QED
  BY <1>1, <1>3, <1>4, <1>5, LedgerFrame

\* Done is a good turn.
LEMMA DoneGood ==
    ASSUME NEW asks \in Nat, NEW now, NEW s
    PROVE  TurnGood(Done, asks, now, s) /\ Done.verdict.kind = "none"
<1>1. AgentAssumption
  BY AgentAssumption
<1>2. MaxNotices \in Nat
  BY <1>1, MaxNoticesOK
<1>3. NoVerdict \in VerdictType /\ NoVerdict.kind = "none"
  BY <1>2 DEF NoVerdict, VerdictType
<1>4. Range(<<>>) \subseteq InstanceType
  BY DEF Range
<1>5. LedgerGood(Empty, now, s)
  BY <1>1, EmptyGood
<1> QED
  BY <1>3, <1>4, <1>5 DEF Done, TurnGood

\* Every turn stays good.
LEMMA TurnsGoodStep ==
    ASSUME IInv, LInv, Next
    PROVE  TurnsGood'
<1>1. /\ clock \in Nat /\ clock' \in Nat /\ clock <= clock'
      /\ sightings \in [Episode -> Nat] /\ sightings' \in [Episode -> Nat]
      /\ \A e \in Episode : sightings[e] <= sightings'[e]
  BY HistoryGrows
<1>2. /\ bounds.notices \in Nat /\ bounds.notices <= MaxNotices
      /\ bounds.asks \in Nat
      /\ MaxNotices \in Nat \ {0} /\ notices \in Nat
  BY BoundsOK DEF LInv
<1>3. bounds' = bounds
  BY BoundsFrame
<1>4. LedgerGood(file, clock, sightings)
  BY DEF LInv, FileInv
<1> SUFFICES ASSUME NEW t \in Turns'
             PROVE  TurnGood(turns'[t], bounds.asks, clock', sightings')
  BY <1>3 DEF TurnsGood
<1>5. \A e \in Episode : sightings[e] > 0 => sightings'[e] > 0
  <2> TAKE e \in Episode
  <2>1. /\ sightings[e] \in Nat
        /\ sightings'[e] \in Nat
        /\ sightings[e] <= sightings'[e]
    BY <1>1
  <2> QED
    BY <2>1
<1>6. CASE GoesOn(t)
  <2>1. TurnGood(turns[t], bounds.asks, clock, sightings)
    BY <1>6 DEF LInv, TurnsGood, GoesOn
  <2>2. LedgerGood(turns'[t].copy, clock, sightings)
    BY <1>4, <1>6, <2>1 DEF GoesOn, TurnGood
  <2>3. LedgerGood(turns'[t].copy, clock', sightings')
    BY <1>1, <2>2, GoodLater
  <2>4. \A i \in Range(turns[t].notice) :
           sightings[<<i.family, i.since>>] > 0 =>
              sightings'[<<i.family, i.since>>] > 0
    <3> TAKE i \in Range(turns[t].notice)
    <3>1. i \in InstanceType
      BY <2>1 DEF TurnGood
    <3>2. <<i.family, i.since>> \in Episode
      BY <3>1 DEF InstanceType, Episode
    <3> QED
      BY <1>5, <3>2
  <2>5. /\ turns'[t].notice = turns[t].notice
        /\ turns'[t].verdict = turns[t].verdict
        /\ turns'[t].asks <= bounds.asks
        /\ turns'[t].at = "loaded"
              => turns[t].verdict.kind \notin {"none", "unknown"}
    BY <1>6, <2>1 DEF GoesOn, TurnGood
  <2> QED
    BY <2>1, <2>3, <2>4, <2>5 DEF TurnGood
<1>7. CASE EndsNow(t)
  BY <1>2, <1>7, DoneGood DEF EndsNow
<1>8. CASE Begins(t)
  <2>1. PICK notice \in Seq(InstanceType) :
          /\ PreLlmCall(notice)
          /\ Notify \/ notice = <<>>
          /\ turns'[t] = [at |-> "thinking", notice |-> notice,
                          verdict |-> Classify(file, notice), copy |-> Empty,
                          asks |-> 0, told |-> "nothing"]
    BY <1>8 DEF Begins
  <2>2. sightings' = sightings /\ clock' = clock
    BY <2>1 DEF PreLlmCall
  <2>3. AgentAssumption
    BY AgentAssumption
  <2>4. file # Corrupt => Wellformed(file, clock) /\ AtMost(file, sightings)
    BY <1>4 DEF LedgerGood
  <2> DEFINE v == Classify(file, notice)
  <2>5. /\ v \in VerdictType
        /\ v.kind # "none"
              => v.family \in Families /\ v.since \in 1 .. MaxNotices
        /\ v.kind = "repeat" =>
              \A i \in Range(notice) : sightings[<<i.family, i.since>>] > 0
    <3>1. CASE Notify
      <4>1. notices < MaxNotices
        <5>1. notices < bounds.notices
          BY <3>1 DEF Notify
        <5> QED
          BY <1>2, <5>1
      <4>2. \A e \in Episode : sightings[e] <= notices
        <5> TAKE e \in Episode
        <5>1. /\ sightings[e] + Cardinality(Announced) <= notices
              /\ sightings[e] \in Nat
          BY <1>1 DEF LInv, NoticesInv
        <5>2. Cardinality(Announced) \in Nat
          <6>1. Announced \in SUBSET (1 .. Len(turns)) /\ Len(turns) \in Nat
            BY DEF Announced, Turns, IInv, TurnsInv
          <6>2. IsFiniteSet(1 .. Len(turns))
            BY <6>1, UpTo
          <6>3. IsFiniteSet(Announced)
            BY <6>1, <6>2, FS_Subset
          <6> QED
            BY <6>3, FS_CardinalityType
        <5> QED
          BY <1>2, <5>1, <5>2
      <4> QED
        BY <1>1, <1>2, <2>3, <2>4, <4>1, <4>2, ClassifyOK
    <3>2. CASE notice = <<>>
      <4>1. v = NoVerdict
        BY <3>2 DEF Classify
      <4>2. NoVerdict \in VerdictType /\ NoVerdict.kind = "none"
        BY <1>2 DEF NoVerdict, VerdictType
      <4> QED
        BY <4>1, <4>2
    <3> QED
      BY <2>1, <3>1, <3>2
  <2> HIDE DEF v
  <2>6. turns'[t] = [at |-> "thinking", notice |-> notice, verdict |-> v,
                     copy |-> Empty, asks |-> 0, told |-> "nothing"]
    BY <2>1 DEF v
  <2>7. LedgerGood(Empty, clock', sightings')
    BY <2>3, EmptyGood
  <2>8. Range(notice) \subseteq InstanceType
    <3>1. \A n \in DOMAIN notice : notice[n] \in InstanceType
      BY LenProperties
    <3> QED
      BY <3>1 DEF Range
  <2> QED
    BY <1>2, <2>2, <2>5, <2>6, <2>7, <2>8 DEF TurnGood
<1> QED
  BY <1>6, <1>7, <1>8, TurnsShape

-----------------------------------------------------------------------------
(* The notices and the file. *)

\* There are only so many turns.
LEMMA AnnouncedOK ==
    ASSUME TurnsInv
    PROVE  IsFiniteSet(Announced) /\ Cardinality(Announced) \in Nat
<1>1. Announced \in SUBSET (1 .. Len(turns)) /\ Len(turns) \in Nat
  BY DEF Announced, Turns, TurnsInv
<1>2. IsFiniteSet(1 .. Len(turns))
  BY <1>1, UpTo
<1>3. IsFiniteSet(Announced)
  BY <1>1, <1>2, FS_Subset
<1> QED
  BY <1>3, FS_CardinalityType

\* Only a notice announces one more, and a commit settles one.
LEMMA AnnouncedStep ==
    ASSUME IInv, LInv, Next
    PROVE  /\ Cardinality(Announced) \in Nat /\ Cardinality(Announced') \in Nat
           /\ Cardinality(Announced') <= Cardinality(Announced) + 1
           /\ ~Notify => Cardinality(Announced') <= Cardinality(Announced)
           /\ \A t \in Turns : TransformSave(t) /\ turns[t].copy # Corrupt
                 => Cardinality(Announced') <= Cardinality(Announced) - 1
<1>1. IsFiniteSet(Announced) /\ Cardinality(Announced) \in Nat
  BY AnnouncedOK DEF IInv
<1>2. TurnsInv'
  BY TurnsStep DEF TurnsGrow
<1>3. IsFiniteSet(Announced') /\ Cardinality(Announced') \in Nat
  <2>1. Announced' \in SUBSET (1 .. Len(turns')) /\ Len(turns') \in Nat
    BY <1>2 DEF Announced, Turns, TurnsInv
  <2>2. IsFiniteSet(1 .. Len(turns'))
    BY <2>1, UpTo
  <2>3. IsFiniteSet(Announced')
    BY <2>1, <2>2, FS_Subset
  <2> QED
    BY <2>3, FS_CardinalityType
<1>4. NoVerdict.kind = "none" /\ Done.verdict.kind = "none"
  BY DEF NoVerdict, Done
<1>5. ASSUME NEW t \in Announced', ~Begins(t)
      PROVE  t \in Announced
  <2>1. t \in Turns' /\ turns'[t].verdict.kind # "none"
    BY DEF Announced
  <2>2. GoesOn(t)
    BY <1>4, <1>5, <2>1, TurnsShape DEF EndsNow
  <2> QED
    BY <2>1, <2>2 DEF GoesOn, Announced
<1>6. ASSUME NEW t \in Announced', Begins(t)
      PROVE  Notify /\ t = Len(turns) + 1
  <2>1. PICK notice \in Seq(InstanceType) :
          /\ Notify \/ notice = <<>>
          /\ turns'[t] = [at |-> "thinking", notice |-> notice,
                          verdict |-> Classify(file, notice), copy |-> Empty,
                          asks |-> 0, told |-> "nothing"]
    BY <1>6 DEF Begins
  <2>2. /\ turns'[t].verdict = Classify(file, notice)
        /\ turns'[t].verdict.kind # "none"
    BY <2>1 DEF Announced
  <2>3. notice # <<>>
    BY <1>4, <2>2 DEF Classify
  <2> QED
    BY <1>6, <2>1, <2>3 DEF Begins
<1>7. Cardinality(Announced') <= Cardinality(Announced) + 1
  <2> DEFINE n == Len(turns) + 1
             A == Announced \cup {n}
  <2>1. Announced' \in SUBSET A
    BY <1>5, <1>6
  <2> HIDE DEF n
  <2>2. IsFiniteSet(A) /\ Cardinality(A) = IF n \in Announced
           THEN Cardinality(Announced) ELSE Cardinality(Announced) + 1
    BY <1>1, FS_AddElement
  <2> HIDE DEF A
  <2>3. Cardinality(Announced') <= Cardinality(A)
    BY <2>1, <2>2, FS_Subset
  <2> QED
    BY <1>1, <1>3, <2>2, <2>3
<1>8. ASSUME ~Notify PROVE Cardinality(Announced') <= Cardinality(Announced)
  <2>1. Announced' \in SUBSET Announced
    BY <1>5, <1>6, <1>8
  <2> QED
    BY <1>1, <2>1, FS_Subset
<1>9. ASSUME NEW t \in Turns, TransformSave(t), turns[t].copy # Corrupt
      PROVE  Cardinality(Announced') <= Cardinality(Announced) - 1
  <2>1. t \in Announced
    BY <1>9, SaveOK DEF Announced
  <2>2. PICK N, V, L : turns \in [Turns -> TurnSet(N, V, L)]
    BY TurnsTyped DEF IInv
  <2>3. turns' = [turns EXCEPT ![t] = Done] /\ notices' = notices
    BY <1>9 DEF TransformSave
  <2>4. Turns' = Turns /\ turns'[t] = Done
    BY <2>2, <2>3 DEF Turns
  <2>5. ~Notify
    BY <2>3, BoundsOK DEF Notify, LInv
  <2>6. Announced' \in SUBSET (Announced \ {t})
    BY <1>4, <1>5, <1>6, <2>4, <2>5 DEF Announced
  <2>7. /\ IsFiniteSet(Announced \ {t})
        /\ Cardinality(Announced \ {t}) = Cardinality(Announced) - 1
    BY <1>1, <2>1, FS_RemoveElement
  <2> DEFINE A == Announced \ {t}
  <2> HIDE DEF A
  <2>8. Cardinality(Announced') <= Cardinality(A)
    BY <2>6, <2>7, FS_Subset DEF A
  <2> QED
    BY <2>7, <2>8 DEF A
<1> QED
  BY <1>1, <1>3, <1>7, <1>8, <1>9

\* No notice is counted by more commits than turns were begun by notices.
LEMMA NoticesStep ==
    ASSUME IInv, LInv, Next
    PROVE  NoticesInv'
<1>1. /\ bounds.notices \in Nat /\ notices \in Nat /\ notices <= bounds.notices
      /\ bounds' = bounds /\ bounds \in Worlds
  BY BoundsOK, BoundsFrame DEF LInv, NoticesInv
<1>2. /\ sightings \in [Episode -> Nat] /\ sightings' \in [Episode -> Nat]
  BY HistoryGrows
<1>3. /\ Cardinality(Announced) \in Nat /\ Cardinality(Announced') \in Nat
      /\ Cardinality(Announced') <= Cardinality(Announced) + 1
      /\ ~Notify => Cardinality(Announced') <= Cardinality(Announced)
      /\ \A t \in Turns : TransformSave(t) /\ turns[t].copy # Corrupt
            => Cardinality(Announced') <= Cardinality(Announced) - 1
  BY AnnouncedStep
<1> DEFINE a == Cardinality(Announced)
           b == Cardinality(Announced')
<1>4. \A e \in Episode : sightings[e] \in Nat /\ sightings'[e] \in Nat
                         /\ sightings[e] + a <= notices
  BY <1>2 DEF LInv, NoticesInv
<1>5. CASE Notify
  <2>1. sightings' = sightings
    BY <1>5 DEF Notify, PreLlmCall
  <2>2. /\ notices' = notices + 1 /\ notices < bounds.notices
        /\ grafana' \in [Families -> [since : 0 .. notices + 1, firing : BOOLEAN]]
        /\ \A f \in Families : grafana'[f].firing => grafana'[f].since # 0
    BY <1>5, NotifyOK DEF LInv
  <2> HIDE DEF a, b
  <2>3. b <= a + 1 /\ a \in Nat /\ b \in Nat
    BY <1>3 DEF a, b
  <2>4. \A e \in Episode : sightings'[e] + b <= notices'
    BY <1>1, <1>4, <2>1, <2>2, <2>3
  <2>5. notices' \in 0 .. bounds.notices
    BY <1>1, <2>2
  <2> QED
    BY <1>1, <1>2, <2>2, <2>4, <2>5 DEF NoticesInv, b
<1>6. ASSUME ~Notify, notices' = notices, grafana' = grafana,
             \A e \in Episode : sightings'[e] + b <= notices
      PROVE  NoticesInv'
  BY <1>1, <1>2, <1>6 DEF LInv, NoticesInv
<1>7. CASE ~Notify /\ (UNCHANGED ledgerVars \/ LedgerLost \/ LongPause)
  <2>1. notices' = notices /\ grafana' = grafana /\ sightings' = sightings
    BY <1>7 DEF ledgerVars, LedgerLost, LongPause
  <2> HIDE DEF a, b
  <2>2. b <= a /\ a \in Nat /\ b \in Nat
    BY <1>3, <1>7 DEF a, b
  <2>3. \A e \in Episode : sightings'[e] + b <= notices
    BY <1>1, <1>4, <2>1, <2>2
  <2> QED
    BY <1>6, <1>7, <2>1, <2>3
<1>8. ASSUME NEW t \in Turns, TransformSave(t), ~Notify
      PROVE  NoticesInv'
  <2>1. notices' = notices /\ grafana' = grafana
    BY <1>8 DEF TransformSave
  <2>2. CASE turns[t].copy = Corrupt
    <3>1. sightings' = sightings
      BY <1>8, <2>2 DEF TransformSave
    <3> HIDE DEF a, b
    <3>2. b <= a /\ a \in Nat /\ b \in Nat
      BY <1>3, <1>8 DEF a, b
    <3>3. \A e \in Episode : sightings'[e] + b <= notices
      BY <1>1, <1>4, <3>1, <3>2
    <3> QED
      BY <1>6, <1>8, <2>1, <3>3
  <2>3. CASE turns[t].copy # Corrupt
    <3>1. sightings' = Tally(sightings, turns[t].verdict)
      BY <1>8, <2>3, SaveOK
    <3>2. \A e \in Episode : sightings'[e] \in {sightings[e], sightings[e] + 1}
      BY <1>2, <3>1, TallyOK
    <3> HIDE DEF a, b
    <3>3. b <= a - 1 /\ a \in Nat /\ b \in Nat
      BY <1>3, <1>8, <2>3 DEF a, b
    <3>4. \A e \in Episode : sightings'[e] + b <= notices
      BY <1>1, <1>4, <3>2, <3>3
    <3> QED
      BY <1>6, <1>8, <2>1, <3>4
  <2> QED
    BY <2>2, <2>3
<1> QED
  BY <1>5, <1>7, <1>8, LedgerFrame

\* The file is always what a commit, or an accident, left.
LEMMA FileStep ==
    ASSUME IInv, LInv, Next
    PROVE  FileInv'
<1>1. /\ clock \in Nat /\ clock' \in Nat /\ clock <= clock'
      /\ sightings \in [Episode -> Nat] /\ sightings' \in [Episode -> Nat]
      /\ \A e \in Episode : sightings[e] <= sightings'[e]
  BY HistoryGrows
<1>2. /\ mishaps \in Nat /\ overwritten \in BOOLEAN
      /\ LedgerGood(file, clock, sightings)
      /\ Undisturbed /\ file # Corrupt => Shows(file, sightings)
  BY DEF LInv, FileInv
<1>3. mishaps' = mishaps \/ mishaps' = mishaps + 1
  BY BoundsFrame
<1>4. AgentAssumption /\ MaxAge \in Nat \ {0}
  <2>1. AgentAssumption
    BY AgentAssumption
  <2> QED
    BY <2>1 DEF AgentAssumption
<1>5. mishaps' \in Nat
  BY <1>2, <1>3
<1>6. ASSUME file' = file, sightings' = sightings, overwritten' = overwritten
      PROVE  FileInv'
  <2>1. LedgerGood(file, clock', sightings)
    BY <1>1, <1>2, <1>6, GoodLater
  <2>2. Undisturbed' => Undisturbed
    <3> SUFFICES ASSUME Undisturbed' PROVE Undisturbed
      OBVIOUS
    <3>1. mishaps = 0
      BY <1>2, <1>3 DEF Undisturbed
    <3>2. clock <= MaxAge
      BY <1>1, <1>4 DEF Undisturbed
    <3> QED
      BY <1>6, <3>1, <3>2 DEF Undisturbed
  <2> QED
    BY <1>1, <1>2, <1>5, <1>6, <2>1, <2>2 DEF FileInv
<1>7. CASE UNCHANGED ledgerVars \/ Notify \/ LongPause
  <2>1. file' = file /\ sightings' = sightings /\ overwritten' = overwritten
    BY <1>7 DEF ledgerVars, Notify, PreLlmCall, LongPause
  <2> QED
    BY <1>6, <2>1
<1>8. CASE LedgerLost
  <2>1. file' \in {Empty, Corrupt} /\ overwritten' = overwritten
    BY <1>8 DEF LedgerLost
  <2>2. ~Undisturbed'
    <3>1. mishaps' = mishaps + 1
      BY <1>8 DEF LedgerLost, Mishap
    <3>2. mishaps' # 0
      BY <1>2, <3>1
    <3> QED
      BY <3>2 DEF Undisturbed
  <2>3. LedgerGood(Empty, clock', sightings')
    BY <1>4, EmptyGood
  <2>4. LedgerGood(file', clock', sightings')
    BY <2>1, <2>3 DEF LedgerGood
  <2> QED
    BY <1>1, <1>2, <1>5, <2>1, <2>2, <2>4 DEF FileInv
<1>9. ASSUME NEW t \in Turns, TransformSave(t)
      PROVE  FileInv'
  <2>1. CASE turns[t].copy = Corrupt
    BY <1>6, <1>9, <2>1 DEF TransformSave
  <2>2. CASE turns[t].copy # Corrupt
    <3> DEFINE l == turns[t].copy
               v == turns[t].verdict
    <3>1. /\ v.family \in Families /\ v.since \in 1 .. MaxNotices
          /\ file' = Commit(l, v, clock)
          /\ clock' = clock + 1
          /\ sightings' = Tally(sightings, v)
          /\ Wellformed(l, clock) /\ Short(l) /\ AtMost(l, sightings)
      BY <1>9, <2>2, SaveOK
    <3>2. overwritten' = (overwritten \/ file # l)
      BY <1>9, <2>2 DEF TransformSave
    <3> HIDE DEF l, v
    <3>3. /\ Wellformed(Commit(l, v, clock), clock + 1)
          /\ Bounded(Commit(l, v, clock))
          /\ AtMost(Commit(l, v, clock), Tally(sightings, v))
      BY <1>1, <1>4, <3>1, CommitOK
    <3>4. LedgerGood(file', clock', sightings')
      BY <3>1, <3>3 DEF LedgerGood
    <3>5. ASSUME Undisturbed' PROVE Shows(file', sightings')
      <4>1. /\ ~overwritten' /\ mishaps' = 0 /\ clock' <= MaxAge
            /\ Fits(sightings')
        BY <3>5 DEF Undisturbed, Fits
      <4>2. ~overwritten /\ file = l
        BY <3>2, <4>1
      <4>3. mishaps = 0 /\ clock <= MaxAge
        BY <1>1, <1>2, <1>3, <1>4, <4>1
      <4>4. Fits(sightings)
        BY <1>1, <1>4, <4>1, FitsEarlier
      <4>5. Undisturbed
        BY <4>2, <4>3, <4>4 DEF Undisturbed, Fits
      <4>6. l # Corrupt
        BY <2>2 DEF l
      <4>7. Shows(l, sightings)
        BY <1>2, <4>2, <4>5, <4>6
      <4>8. Fits(Tally(sightings, v))
        BY <3>1, <4>1
      <4>9. Shows(Commit(l, v, clock), Tally(sightings, v))
        BY <1>1, <1>4, <3>1, <4>3, <4>7, <4>8, CommitShows
      <4> QED
        BY <3>1, <4>9
    <3>6. overwritten' \in BOOLEAN
      BY <3>2
    <3> QED
      BY <1>1, <1>5, <3>4, <3>5, <3>6 DEF FileInv
  <2> QED
    BY <2>1, <2>2
<1> QED
  BY <1>7, <1>8, <1>9, LedgerFrame

-----------------------------------------------------------------------------
(* What is pending and what is queued. *)

\* No turn is forgotten.
LEMMA TurnsMore ==
    ASSUME IInv, Next
    PROVE  /\ Turns \subseteq Turns'
           /\ Turns = 1 .. Len(turns)
           /\ Len(turns) \in Nat
<1>1. TurnsInv /\ TurnsInv' /\ Len(turns) \in Nat /\ Len(turns') \in Nat
      /\ Len(turns) <= Len(turns')
  BY TurnsStep DEF TurnsGrow, IInv
<1>2. Turns = 1 .. Len(turns) /\ Turns' = 1 .. Len(turns')
  BY <1>1 DEF TurnsInv, Turns
<1> QED
  BY <1>1, <1>2

\* A verdict is pending once, and only so many are.
LEMMA PendingStep ==
    ASSUME IInv, LInv, Next
    PROVE  PendingInv'
<1>1. /\ pending \in Seq(Turns)
      /\ Len(pending) <= MaxPending
      /\ IsInjective(pending)
  BY DEF LInv, PendingInv
<1>2. Turns \subseteq Turns' /\ Turns = 1 .. Len(turns) /\ Len(turns) \in Nat
  BY TurnsMore
<1>3. pending \in Seq(Turns')
  BY <1>1, <1>2, SeqWidens
<1>4. MaxPending \in Nat \ {0}
  <2>1. AgentAssumption
    BY AgentAssumption
  <2> QED
    BY <2>1 DEF AgentAssumption
<1>5. CASE pending' = pending
  BY <1>1, <1>3, <1>5 DEF PendingInv
<1>6. ASSUME NEW notice, PreLlmCall(notice)
      PROVE  PendingInv'
  <2> DEFINE new == Len(turns) + 1
             kept == IF Len(pending) >= MaxPending THEN Tail(pending)
                                               ELSE pending
  <2>1. pending' = Append(kept, new)
    BY <1>6 DEF PreLlmCall, Remember
  <2>2. new \in Turns' /\ new \notin Turns
    <3>1. PICK M : turns \in Seq(M)
      BY DEF IInv, TurnsInv
    <3> DEFINE r == [at |-> "thinking", notice |-> notice,
                     verdict |-> Classify(file, notice), copy |-> Empty,
                     asks |-> 0, told |-> "nothing"]
    <3>2. turns' = Append(turns, r)
      BY <1>6 DEF PreLlmCall
    <3> HIDE DEF r
    <3>3. turns \in Seq(M \cup {r})
      BY <3>1, SeqWidens
    <3>4. Len(turns') = Len(turns) + 1 /\ turns' \in Seq(M \cup {r})
      BY <3>2, <3>3, AppendProperties
    <3>5. Turns' = 1 .. Len(turns) + 1
      BY <3>4, LenProperties DEF Turns
    <3> QED
      BY <1>2, <3>5
  <2>3. DOMAIN pending = 1 .. Len(pending) /\ Len(pending) \in Nat
        /\ \A i \in DOMAIN pending : pending[i] \in Turns
    BY <1>1, LenProperties
  <2>4. /\ kept \in Seq(Turns) /\ Len(kept) <= MaxPending - 1
        /\ \A i, j \in 1 .. Len(kept) : kept[i] = kept[j] => i = j
    <3>1. CASE Len(pending) >= MaxPending
      <4>1. kept = Tail(pending) /\ pending # <<>>
        BY <1>4, <3>1
      <4>2. /\ Tail(pending) \in Seq(Turns)
            /\ Len(Tail(pending)) = Len(pending) - 1
            /\ \A i \in 1 .. Len(Tail(pending)) :
                  Tail(pending)[i] = pending[i + 1]
        BY <1>1, <4>1, HeadTailProperties
      <4> HIDE DEF kept
      <4>3. ASSUME NEW i \in 1 .. Len(kept), NEW j \in 1 .. Len(kept),
                   kept[i] = kept[j]
            PROVE  i = j
        <5>1. i + 1 \in DOMAIN pending /\ j + 1 \in DOMAIN pending
          BY <2>3, <4>1, <4>2
        <5>2. pending[i + 1] = pending[j + 1]
          BY <4>1, <4>2, <4>3
        <5>3. i + 1 = j + 1
          BY <1>1, <5>1, <5>2 DEF IsInjective
        <5> QED
          BY <5>3
      <4> QED
        BY <1>1, <1>4, <2>3, <4>1, <4>2, <4>3
    <3>2. CASE ~(Len(pending) >= MaxPending)
      BY <1>1, <1>4, <2>3, <3>2 DEF IsInjective
    <3> QED
      BY <3>1, <3>2
  <2> HIDE DEF kept, new
  <2>5. kept \in Seq(Turns')
    BY <1>2, <2>4, SeqWidens
  <2>6. /\ pending' \in Seq(Turns') /\ Len(pending') = Len(kept) + 1
        /\ \A i \in 1 .. Len(kept) : pending'[i] = kept[i]
        /\ pending'[Len(kept) + 1] = new
    BY <2>1, <2>2, <2>5, AppendProperties
  <2>7. Len(kept) \in Nat /\ \A i \in 1 .. Len(kept) : kept[i] \in Turns
    BY <2>4, LenProperties
  <2>8. Len(pending') <= MaxPending
    BY <1>4, <2>4, <2>6, <2>7
  <2>9. DOMAIN pending' = 1 .. Len(kept) + 1
    BY <2>6, LenProperties
  <2>10. IsInjective(pending')
    <3> SUFFICES ASSUME NEW i \in DOMAIN pending', NEW j \in DOMAIN pending',
                        pending'[i] = pending'[j]
                 PROVE  i = j
      BY DEF IsInjective
    <3>1. \/ /\ i \in 1 .. Len(kept) /\ pending'[i] = kept[i]
             /\ kept[i] \in Turns
          \/ i = Len(kept) + 1 /\ pending'[i] = new
      BY <2>6, <2>7, <2>9
    <3>2. \/ /\ j \in 1 .. Len(kept) /\ pending'[j] = kept[j]
             /\ kept[j] \in Turns
          \/ j = Len(kept) + 1 /\ pending'[j] = new
      BY <2>6, <2>7, <2>9
    <3> QED
      BY <2>2, <2>4, <3>1, <3>2
  <2> QED
    BY <2>6, <2>8, <2>10 DEF PendingInv
<1>7. ASSUME NEW t \in Turns, TransformLoad(t)
      PROVE  PendingInv'
  <2> DEFINE places == {p \in DOMAIN pending : pending[p] # t}
             k == Keeping(pending, places)
  <2>1. pending' = k
    BY <1>7 DEF TransformLoad
  <2>2. places \in SUBSET (DOMAIN pending)
    OBVIOUS
  <2> HIDE DEF places
  <2>3. /\ k \in Seq(Turns') /\ Len(k) <= Len(pending)
        /\ \E a \in [1 .. Len(k) -> places] :
              /\ \A i \in DOMAIN a : k[i] = pending[a[i]]
              /\ \A i, j \in DOMAIN a : a[i] = a[j] => i = j
    BY <1>3, <2>2, KeepingOK
  <2> HIDE DEF k
  <2>4. PICK a \in [1 .. Len(k) -> places] :
              /\ \A i \in DOMAIN a : k[i] = pending[a[i]]
              /\ \A i, j \in DOMAIN a : a[i] = a[j] => i = j
    BY <2>3
  <2>5. DOMAIN k = 1 .. Len(k)
    BY <2>3, LenProperties
  <2>6. IsInjective(k)
    <3> SUFFICES ASSUME NEW i \in DOMAIN k, NEW j \in DOMAIN k, k[i] = k[j]
                 PROVE  i = j
      BY DEF IsInjective
    <3>1. /\ a[i] \in DOMAIN pending
          /\ a[j] \in DOMAIN pending
          /\ pending[a[i]] = pending[a[j]]
      BY <2>2, <2>4, <2>5
    <3>2. a[i] = a[j]
      BY <1>1, <3>1 DEF IsInjective
    <3> QED
      BY <2>4, <2>5, <3>2
  <2>7. Len(k) <= MaxPending
    <3>1. Len(k) \in Nat /\ Len(pending) \in Nat
      BY <1>1, <2>3, LenProperties
    <3> QED
      BY <1>1, <1>4, <2>3, <3>1
  <2> QED
    BY <2>1, <2>3, <2>6, <2>7 DEF PendingInv
<1>8. ASSUME NEW t \in Turns, Step(t)
      PROVE  PendingInv'
  BY <1>5, <1>7, <1>8 DEF Step, SaysNothing, TransformSave, SaveFails,
     ClientTimeout, OpsFix
<1>9. CASE AgentStops
  <2>1. pending' = <<>>
    BY <1>9 DEF AgentStops
  <2>2. /\ <<>> \in Seq(Turns') /\ Len(<<>>) = 0 /\ IsInjective(<<>>)
    BY EmptySeq DEF IsInjective
  <2> QED
    BY <1>4, <2>1, <2>2 DEF PendingInv
<1> QED
  BY <1>5, <1>6, <1>8, <1>9, TurnsFrame DEF Notify, Chat

\* The runner only ever handles what a turn asked for, and records what is
\* allowed.
LEMMA QueueStep ==
    ASSUME IInv, LInv, Next
    PROVE  QueueInv'
<1>1. Turns \subseteq Turns' /\ bounds' = bounds
  BY TurnsMore, BoundsFrame
<1>2. QueueInv /\ RunnerInv
  BY DEF LInv, IInv
<1>3. \A r : Asked(r) => (r.turn \in Turns' /\ r.ask \in 1 .. bounds'.asks)
  BY <1>1 DEF Asked
<1>4. audit \subseteq Turns' \X (1 .. bounds'.asks)
  BY <1>1, <1>2 DEF QueueInv
<1>5. queue \in Seq(Request)
  BY <1>2 DEF RunnerInv
<1>6. CASE UNCHANGED runnerVars
  BY <1>2, <1>3, <1>4, <1>6 DEF runnerVars, QueueInv, Asked
<1>7. ASSUME NEW t \in Turns, NEW g \in Targets, OpsFix(t, g)
      PROVE  QueueInv'
  <2>1. PICK N, V, L : turns \in [Turns -> TurnSet(N, V, L)]
    BY TurnsTyped DEF IInv
  <2> DEFINE n == turns[t].asks + 1
             r == [turn |-> t, ask |-> n, target |-> g]
  <2>2. n \in 1 .. bounds.asks
    <3>1. turns[t].asks \in Nat /\ turns[t].asks < bounds.asks
      BY <1>7, <2>1 DEF OpsFix, TurnSet
    <3>2. bounds.asks \in Nat
      BY BoundsOK DEF LInv
    <3> QED
      BY <3>1, <3>2
  <2>3. UNCHANGED <<runner, recorded, audit>>
    BY <1>7 DEF OpsFix
  <2>4. CASE queue' = queue
    BY <1>2, <1>3, <1>4, <2>3, <2>4 DEF QueueInv, Asked
  <2>5. CASE Reachable
    <3>1. queue' = Append(queue, r)
      BY <1>7, <2>5 DEF OpsFix
    <3>2. Len(queue) <= Backlog
      BY <2>5 DEF Reachable
    <3>3. r.turn = t /\ r.ask = n
      OBVIOUS
    <3> HIDE DEF r, n
    <3>4. queue \in Seq(Request \cup {r})
      BY <1>5, SeqWidens
    <3>5. /\ queue' \in Seq(Request \cup {r}) /\ Len(queue') = Len(queue) + 1
          /\ \A i \in 1 .. Len(queue) : queue'[i] = queue[i]
          /\ queue'[Len(queue) + 1] = r
      BY <3>1, <3>4, AppendProperties
    <3>6. /\ Len(queue) \in Nat
          /\ DOMAIN queue = 1 .. Len(queue)
          /\ DOMAIN queue' = 1 .. Len(queue) + 1
      BY <1>5, <3>5, LenProperties
    <3>7. Len(queue') <= Backlog + 1
      <4>1. AgentAssumption
        BY AgentAssumption
      <4>2. Backlog \in Nat
        BY <4>1 DEF AgentAssumption
      <4> QED
        BY <3>2, <3>5, <3>6, <4>2
    <3>8. \A i \in DOMAIN queue' :
              queue'[i].turn \in Turns' /\ queue'[i].ask \in 1 .. bounds'.asks
      <4> TAKE i \in DOMAIN queue'
      <4>1. CASE i \in DOMAIN queue
        <5>1. Asked(queue[i]) /\ queue'[i] = queue[i]
          BY <1>2, <3>5, <3>6, <4>1 DEF QueueInv
        <5> QED
          BY <1>3, <5>1
      <4>2. CASE i = Len(queue) + 1
        BY <1>1, <2>2, <3>3, <3>5, <4>2
      <4> QED
        BY <3>6, <4>1, <4>2
    <3> QED
      BY <1>2, <1>3, <1>4, <2>3, <3>7, <3>8 DEF QueueInv, Asked
  <2>6. CASE ~Reachable
    BY <1>7, <2>4, <2>6 DEF OpsFix
  <2> QED
    BY <2>5, <2>6
<1>8. ASSUME UNCHANGED <<queue, recorded, audit>>, runner'.job \in {runner.job,
             None},
             runner'.at \notin {"idle", "down"} =>
                runner.at \notin {"idle", "down"} /\ runner'.job = runner.job,
             runner'.at \in {"restarting", "recording"} =>
                runner.at \in {"restarting", "recording"} /\ runner'.job = runner.job
      PROVE  QueueInv'
  BY <1>2, <1>3, <1>4, <1>8 DEF QueueInv, Asked
<1>9. CASE Accept
  <2> DEFINE r == Head(queue)
  <2>1. /\ queue # <<>> /\ queue' = Tail(queue) /\ UNCHANGED <<recorded, audit>>
        /\ runner'.job = r
        /\ runner'.at = IF r.target \in Allowed \ recorded
                        THEN "restarting" ELSE "answering"
    BY <1>9 DEF Accept
  <2>2. /\ Len(queue) \in Nat \ {0}
        /\ DOMAIN queue = 1 .. Len(queue)
        /\ r = queue[1]
    BY <1>5, <2>1, EmptySeq
  <2>3. Asked(r)
    BY <1>2, <2>2 DEF QueueInv
  <2> HIDE DEF r
  <2>4. /\ Tail(queue) \in Seq(Request) /\ Len(Tail(queue)) = Len(queue) - 1
        /\ \A i \in 1 .. Len(Tail(queue)) : Tail(queue)[i] = queue[i + 1]
    BY <1>5, <2>1, HeadTailProperties
  <2>5. DOMAIN queue' = 1 .. Len(queue) - 1
    BY <2>1, <2>4, LenProperties
  <2>6. \A i \in DOMAIN queue' :
            queue'[i].turn \in Turns' /\ queue'[i].ask \in 1 .. bounds'.asks
    <3> TAKE i \in DOMAIN queue'
    <3>1. i + 1 \in DOMAIN queue /\ queue'[i] = queue[i + 1]
      BY <2>1, <2>2, <2>4, <2>5
    <3>2. Asked(queue[i + 1])
      BY <1>2, <3>1 DEF QueueInv
    <3> QED
      BY <1>3, <3>1, <3>2
  <2>7. Len(queue') <= Backlog + 1
    <3>1. AgentAssumption
      BY AgentAssumption
    <3>2. Backlog \in Nat /\ Len(queue) <= Backlog + 1
      BY <1>2, <3>1 DEF AgentAssumption, QueueInv
    <3> QED
      BY <2>1, <2>2, <2>4, <3>2
  <2>8. runner'.at \in {"restarting", "recording"} => runner'.job.target \in Allowed
    BY <2>1
  <2>9. runner'.job.turn \in Turns' /\ runner'.job.ask \in 1 .. bounds'.asks
    BY <1>3, <2>1, <2>3
  <2> QED
    BY <1>2, <1>4, <2>1, <2>6, <2>7, <2>8, <2>9 DEF QueueInv, Asked
<1>10. CASE Restart
  <2>1. /\ UNCHANGED <<queue, recorded, audit>> /\ runner.at = "restarting"
        /\ runner'.job = runner.job
    BY <1>2, <1>10 DEF Restart, Reply, RunnerInv
  <2> QED
    BY <1>8, <2>1
<1>11. CASE RecordFails
  <2>1. /\ UNCHANGED <<queue, recorded, audit>> /\ runner'.job = runner.job
        /\ runner'.at = "answering"
        /\ runner.at \in {"recording", "auditing"}
    BY <1>2, <1>11 DEF RecordFails, Reply, RunnerInv
  <2> QED
    BY <1>8, <2>1
<1>12. CASE Record
  <2>1. /\ UNCHANGED <<queue, audit>> /\ runner'.job = runner.job
        /\ runner.at = "recording" /\ runner'.at = "auditing"
        /\ recorded' = recorded \cup {runner.job.target}
    BY <1>2, <1>12 DEF Record, RunnerInv
  <2> QED
    BY <1>2, <1>3, <1>4, <2>1 DEF QueueInv, Asked
<1>13. CASE Audit
  <2>1. /\ UNCHANGED <<queue, recorded>> /\ runner'.job = runner.job
        /\ runner.at = "auditing" /\ runner'.at = "answering"
        /\ audit' = audit \cup {<<runner.job.turn, runner.job.ask>>}
    BY <1>2, <1>13 DEF Audit, Reply, RunnerInv
  <2>3. runner.job.turn \in Turns' /\ runner.job.ask \in 1 .. bounds'.asks
    BY <1>2, <1>3, <2>1 DEF QueueInv
  <2> QED
    BY <1>2, <1>3, <1>4, <2>1, <2>3 DEF QueueInv, Asked
<1>14. CASE Answer \/ RunnerKilled
  <2>1. /\ UNCHANGED <<recorded, audit>> /\ runner' \in {Idle, Down}
        /\ queue' \in {queue, <<>>}
    BY <1>14 DEF Answer, RunnerKilled, RunnerDies
  <2>2. runner'.job = None /\ runner'.at \in {"idle", "down"}
    BY <2>1 DEF Idle, Down
  <2>3. CASE queue' = queue
    BY <1>8, <2>1, <2>2, <2>3
  <2>4. CASE queue' = <<>>
    <3>1. Len(<<>>) = 0 /\ DOMAIN <<>> = {}
      OBVIOUS
    <3>2. AgentAssumption
      BY AgentAssumption
    <3>3. 0 <= Backlog + 1
      BY <3>2 DEF AgentAssumption
    <3> QED
      BY <1>2, <1>4, <2>1, <2>2, <2>4, <3>1, <3>3 DEF QueueInv
  <2> QED
    BY <2>1, <2>3, <2>4
<1>15. CASE RunnerReturns
  <2>1. UNCHANGED <<queue, recorded, audit>> /\ runner' = Idle
    BY <1>15 DEF RunnerReturns
  <2> QED
    BY <1>8, <2>1 DEF Idle
<1>16. CASE IntervalPasses
  <2>1. UNCHANGED <<queue, audit, runner>> /\ recorded' = {}
    BY <1>16 DEF IntervalPasses
  <2> QED
    BY <1>2, <1>3, <1>4, <2>1 DEF QueueInv, Asked
<1> QED
  BY <1>6, <1>7, <1>9, <1>10, <1>11, <1>12, <1>13, <1>14, <1>15, <1>16,
     RunnerFrame
     DEF RunnerNext

\* The units are in states that systemd knows.
LEMMA UnitsStep ==
    ASSUME IInv, LInv, Next
    PROVE  UnitsInv'
<1>1. UnitsInv
  BY DEF LInv
<1>2. CASE AgentNext /\ UNCHANGED <<timer, health, supervisor, outcome, backups,
                                    stranded>>
  BY <1>1, <1>2 DEF UnitsInv
<1>3. CASE HealthFires \/ HealthEnds \/ Deploy
  BY <1>1, <1>3 DEF HealthFires, HealthEnds, Deploy, UnitsInv
<1>4. ASSUME NEW b \in Supervisors, Supervise(b)
      PROVE  UnitsInv'
  <2>1. CASE StopHealth(b)
    BY <1>1, <2>1 DEF StopHealth, UnitsInv
  <2>2. CASE Begin(b) \/ StopTimer(b) \/ StopWriter(b) \/ Confirm(b)
             \/ ArchiveLedger(b) \/ ArchiveDatabase(b) \/ CompareLedger(b)
             \/ CompareDatabase(b) \/ Fails(b) \/ Recover(b)
             \/ StartWriter(b) \/ StartTimer(b) \/ StartFails(b)
    BY <1>1, <2>2 DEF Begin, StopTimer, StopWriter, Confirm, ArchiveLedger,
       ArchiveDatabase, CompareLedger, CompareDatabase, Fails, Recover,
       StartWriter, StartTimer, StartFails, UnitsInv
  <2>3. CASE CutShort(b) \/ Recheck(b)
    BY <1>1, <2>3 DEF CutShort, Recheck, Ends, UnitsInv
  <2> QED
    BY <1>4, <2>1, <2>2, <2>3 DEF Supervise
<1> QED
  BY <1>2, <1>3, <1>4 DEF Next

\* Nothing was announced, counted or asked for.
LEMMA InitLedger == Init => LInv
<1> SUFFICES ASSUME Init PROVE LInv
  OBVIOUS
<1> USE DEF Init, AgentInit
<1>1. AgentAssumption
  BY AgentAssumption
<1>2. MaxNotices \in Nat \ {0} /\ bounds \in Worlds
  BY <1>1, MaxNoticesOK
<1>3. bounds.notices \in Nat
  BY <1>1, <1>2 DEF AgentAssumption, World
<1>4. Turns = {}
  BY DEF Turns
<1>5. TurnsGood
  BY <1>4 DEF TurnsGood
<1>6. NoticesInv
  <2>1. Cardinality(Announced) = 0
    <3>1. Announced = {}
      BY <1>4 DEF Announced
    <3> QED
      BY <3>1, FS_EmptySet
  <2>2. \A e \in Episode : sightings[e] = 0
    OBVIOUS
  <2>3. sightings \in [Episode -> Nat] /\ \A f \in Families : ~grafana[f].firing
    OBVIOUS
  <2>4. grafana \in [Families -> [since : 0 .. 0, firing : BOOLEAN]]
    OBVIOUS
  <2>5. \A e \in Episode : sightings[e] + Cardinality(Announced) <= notices
    BY <2>1, <2>2
  <2> QED
    BY <1>2, <1>3, <2>3, <2>4, <2>5 DEF NoticesInv
<1>7. FileInv
  <2>1. LedgerGood(file, clock, sightings)
    BY <1>1, EmptyGood
  <2>2. Shows(file, sightings)
    BY DEF Shows
  <2> QED
    BY <2>1, <2>2 DEF FileInv
<1>8. PendingInv
  <2>1. <<>> \in Seq(Turns) /\ Len(<<>>) = 0
    BY EmptySeq
  <2>2. IsInjective(<<>>)
    BY DEF IsInjective
  <2>3. MaxPending \in Nat \ {0}
    BY <1>1 DEF AgentAssumption
  <2> QED
    BY <2>1, <2>2, <2>3 DEF PendingInv
<1>9. QueueInv
  <2>1. DOMAIN <<>> = {} /\ Len(<<>>) = 0 /\ Backlog \in Nat
    BY <1>1 DEF AgentAssumption
  <2> QED
    BY <2>1 DEF QueueInv, Idle
<1>10. UnitsInv
  BY DEF UnitsInv
<1> QED
  BY <1>5, <1>6, <1>7, <1>8, <1>9, <1>10 DEF LInv

\* The ledger as long as nothing happens.
LEMMA LedgerStutters ==
    ASSUME LInv, UNCHANGED vars
    PROVE  LInv'
  BY DEF LInv, vars, agentVars, agent, ops, TurnsGood, Turns, NoticesInv,
     Announced, FileInv, Undisturbed, PendingInv, QueueInv, Asked, UnitsInv

\* Every step keeps every part of the invariant of the ledger.
LEMMA NextLedger == IInv /\ LInv /\ [Next]_vars => LInv'
<1>1. ASSUME IInv, LInv, Next
      PROVE  LInv'
  BY <1>1, TurnsGoodStep, NoticesStep, FileStep, PendingStep, QueueStep,
     UnitsStep DEF LInv
<1> QED
  BY <1>1, LedgerStutters

\* Both invariants hold throughout.
LEMMA LedgerInvariant == Spec => [](IInv /\ LInv)
<1>1. Init => IInv /\ LInv
  BY InitInv, InitLedger
<1>2. IInv /\ LInv /\ [Next]_vars => IInv' /\ LInv'
  BY NextInv, NextLedger
<1> QED
  BY <1>1, <1>2, PTL DEF Spec

-----------------------------------------------------------------------------
(* The theorems about the ledger. *)

\* Whichever turns wrote it, however their reads and writes interleave and
\* whatever was lost, the ledger is within its bounds and names every episode
\* once.
THEOREM LedgerAlwaysBounded == Spec => []LedgerBounded
<1>1. LInv => LedgerBounded
  BY DEF LInv, FileInv, LedgerGood, Wellformed, OneStart, Bounded, Short,
     LedgerBounded
<1> QED
  BY <1>1, LedgerInvariant, PTL

\* No notice is called a repeat unless every alert it lists was counted,
\* whatever the ledger lost in between.
THEOREM RepeatAlwaysKnown == Spec => []RepeatIsKnown
<1>1. ASSUME LInv, NEW t \in Turns, turns[t].verdict.kind = "repeat",
             NEW i \in Range(turns[t].notice)
      PROVE  sightings[i.family, i.since] > 0
  BY <1>1 DEF LInv, TurnsGood, TurnGood
<1>2. LInv => RepeatIsKnown
  BY <1>1 DEF RepeatIsKnown
<1> QED
  BY <1>2, LedgerInvariant, PTL

\* The ledger never counts more than was committed, and counts all of it when
\* no write was lost and nothing had to be forgotten.
THEOREM CountsAlwaysSightings == Spec => []CountsAreSightings
<1>1. ASSUME LInv, file # Corrupt
      PROVE  CountsAreSightings
  <2>1. /\ Wellformed(file, clock) /\ AtMost(file, sightings)
        /\ sightings \in [Episode -> Nat]
    BY <1>1 DEF LInv, FileInv, LedgerGood, NoticesInv
  <2>2. ASSUME NEW f \in DOMAIN file, NEW e \in Range(file[f])
        PROVE  e.count \in 1 .. sightings[f, e.since]
    <3>1. PICK i \in DOMAIN file[f] : e = file[f][i]
      BY <2>2 DEF Range
    <3>2. /\ file[f][i].count \in Nat \ {0}
          /\ <<f, file[f][i].since>> \in Episode
      BY <2>1, EpisodeOf
    <3>3. sightings[<<f, file[f][i].since>>] \in Nat
      BY <2>1, <3>2
    <3>4. file[f][i].count <= sightings[<<f, file[f][i].since>>]
      BY <2>1 DEF AtMost
    <3> DEFINE n == file[f][i].count
               top == sightings[<<f, file[f][i].since>>]
    <3>5. n \in Nat \ {0} /\ top \in Nat /\ n <= top
      BY <3>2, <3>3, <3>4
    <3>6. e.count = n /\ sightings[f, e.since] = top
      BY <3>1
    <3> HIDE DEF n, top
    <3>7. n \in 1 .. top
      BY <3>5
    <3> QED
      BY <3>6, <3>7
  <2>3. ASSUME Undisturbed, NEW e \in Episode, sightings[e] > 0
        PROVE  /\ Places(file, e[1], e[2]) # {}
               /\ Find(file, e[1], e[2]).count = sightings[e]
    <3>1. Shows(file, sightings)
      BY <1>1, <2>3 DEF LInv, FileInv
    <3>2. /\ e[1] \in DOMAIN file
          /\ \E i \in DOMAIN file[e[1]] :
                /\ file[e[1]][i].since = e[2]
                /\ file[e[1]][i].count = sightings[e]
      BY <2>3, <3>1 DEF Shows
    <3>3. PICK i \in DOMAIN file[e[1]] : /\ file[e[1]][i].since = e[2]
                                         /\ file[e[1]][i].count = sightings[e]
      BY <3>2
    <3>4. Episodes(file, e[1]) = file[e[1]]
      BY <3>2 DEF Episodes
    <3>5. i \in Places(file, e[1], e[2])
      BY <3>3, <3>4 DEF Places
    <3>6. Find(file, e[1], e[2]) = Episodes(file, e[1])[i]
      BY <2>1, <3>5, FindOK
    <3> QED
      BY <3>3, <3>4, <3>5, <3>6
  <2> QED
    BY <2>2, <2>3 DEF CountsAreSightings
<1>2. LInv => CountsAreSightings
  BY <1>1 DEF CountsAreSightings
<1> QED
  BY <1>2, LedgerInvariant, PTL

\* The ledgers that are written and read hold episodes that a notice may name.
LEMMA LedgerTyped ==
    ASSUME TurnsInv, NoticesInv, NEW l, NEW now, LedgerGood(l, now, sightings)
    PROVE  LedgerOK(l)
<1>1. /\ MaxNotices \in Nat \ {0} /\ notices \in Nat
      /\ bounds.notices \in Nat /\ bounds.notices <= MaxNotices
  BY BoundsOK
<1>2. notices <= MaxNotices /\ sightings \in [Episode -> Nat]
  BY <1>1 DEF NoticesInv
<1>3. Cardinality(Announced) \in Nat
  BY AnnouncedOK
<1>4. \A e \in Episode : sightings[e] <= MaxNotices
  BY <1>1, <1>2, <1>3 DEF NoticesInv
<1>5. CASE l # Corrupt
  <2>1. Wellformed(l, now) /\ AtMost(l, sightings)
    BY <1>5 DEF LedgerGood
  <2>2. ASSUME NEW f \in DOMAIN l, NEW e \in Range(l[f])
        PROVE  e \in EpisodeType
    <3>1. PICK i \in DOMAIN l[f] : e = l[f][i]
      BY <2>2 DEF Range
    <3>2. l[f][i] \in EpisodeRecord /\ <<f, l[f][i].since>> \in Episode
      BY <2>1, EpisodeOf
    <3>3. l[f][i].count <= sightings[<<f, l[f][i].since>>]
      BY <2>1 DEF AtMost
    <3>4. /\ e \in EpisodeRecord /\ sightings[<<f, e.since>>] \in Nat
          /\ sightings[<<f, e.since>>] <= MaxNotices
          /\ e.count <= sightings[<<f, e.since>>]
      BY <1>2, <1>4, <3>1, <3>2, <3>3
    <3> DEFINE n == e.count
               top == sightings[<<f, e.since>>]
    <3>5. n \in Nat \ {0} /\ top \in Nat /\ n <= top /\ top <= MaxNotices
      BY <3>4 DEF EpisodeRecord
    <3> HIDE DEF n, top
    <3>6. n \in 1 .. MaxNotices
      BY <1>1, <3>5
    <3> QED
      BY <3>4, <3>6 DEF n, EpisodeRecord, EpisodeType
  <2> QED
    BY <2>1, <2>2 DEF LedgerOK, Wellformed
<1> QED
  BY <1>5 DEF LedgerOK

\* Every piece of state is of its type, and what is queued, pending or in hand
\* belongs to a turn.
THEOREM TypesAlwaysOK == Spec => []TypeOK
<1>1. ASSUME IInv, LInv
      PROVE  TypeOK
  <2>1. /\ TurnsInv /\ RunnerInv /\ SupervisorInv /\ TurnsGood /\ NoticesInv
        /\ FileInv /\ PendingInv /\ QueueInv /\ UnitsInv
    BY <1>1 DEF IInv, LInv
  <2>2. ASSUME NEW t \in Turns
        PROVE  TurnOK(turns[t])
    <3>1. TurnGood(turns[t], bounds.asks, clock, sightings)
      BY <2>1 DEF TurnsGood
    <3>2. LedgerOK(turns[t].copy)
      BY <2>1, <3>1, LedgerTyped DEF TurnGood
    <3>3. PICK N, V, L : turns \in [Turns -> TurnSet(N, V, L)]
      BY <2>1, TurnsTyped
    <3>4. /\ turns[t].at \in {"thinking", "asking", "loaded", "done"}
          /\ turns[t].asks \in Nat
          /\ turns[t].told \in {"nothing", "unavailable", "restarted",
                                "refused", "failed"}
      BY <3>3 DEF TurnSet
    <3>5. turns[t].asks \in 0 .. bounds.asks
      <4>1. bounds.asks \in Nat
        BY <2>1, BoundsOK
      <4>2. turns[t].asks <= bounds.asks
        BY <3>1 DEF TurnGood
      <4> QED
        BY <3>4, <4>1, <4>2
    <3> QED
      BY <3>1, <3>2, <3>4, <3>5 DEF TurnGood, TurnOK
  <2>3. ASSUME NEW r \in Request, Asked(r)
        PROVE  r \in RequestType
    BY <2>3 DEF Request, Asked, RequestType
  <2>4. Range(queue) \subseteq RequestType
    <3>1. \A i \in DOMAIN queue : queue[i] \in Request /\ Asked(queue[i])
      BY <2>1 DEF RunnerInv, QueueInv
    <3> QED
      BY <2>3, <3>1 DEF Range
  <2>5. runner.job \in RequestType \cup {None}
    <3>1. runner.job \in Request \cup {None}
      BY <2>1 DEF RunnerInv
    <3>2. runner.job # None => Asked(runner.job)
      BY <2>1 DEF QueueInv
    <3> QED
      BY <2>3, <3>1, <3>2
  <2>6. Range(pending) \subseteq Turns
    BY <2>1 DEF PendingInv, Range
  <2>7. LedgerOK(file)
    BY <2>1, LedgerTyped DEF FileInv
  <2>8. /\ runner.at \in {"idle", "down", "restarting", "recording",
                          "auditing", "answering"}
        /\ {timer, writer} \subseteq {"active", "inactive", "absent"}
    BY <2>1 DEF RunnerInv, SupervisorInv
  <2> QED
    BY <2>1, <2>2, <2>4, <2>5, <2>6, <2>7, <2>8
       DEF PendingInv, QueueInv, UnitsInv, TypeOK
<1> QED
  BY <1>1, LedgerInvariant, PTL
=============================================================================
