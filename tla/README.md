# Verification of the fleet's programs

This directory holds TLA+ models of the programs of this repository that keep
state and run concurrently or across crashes, the TLC runs that check them on
small instances, and TLAPS proofs for instances of any size. Most of the
repository is Nix: values that Nix evaluates, with nothing to interleave. What is
left is a handful of programs that run unattended on the hosts, that are cut short by
reboots and unit time-outs, and that share files with each other. Five groups of
them are modelled: the **Kindle release agent**, the **selection of a servarr
revision**, the **PR review pipeline**, the **Kepler collision recovery**, and
**Argus** (the Hermes agent) with its plugins, its runner and its backup.

Paths below are relative to `src/`. Source lines of every definition are in
`PROJECT.json` under `map`; hazards, each at the line where it bites and with
the properties that watch it, under `hazards`.

## Inventory

| Component | Where | State it keeps | Operations | Interacts with | What makes it correct |
|---|---|---|---|---|---|
| Kindle release agent | `modules/hosts/discovery/_kindle-release-agent.py`, `kindle-release-agent.nix` | `state.json`, a Prometheus text file, a lock file | adopt a baseline, poll, seven forward phases, four rollback phases, recover, report | Git, Harbor, exact revision, `servarr-pull`, Docker, GitHub, Discord | one release at a time and in order; a durable verdict is true of the host; every attempt ends in a verdict and every verdict is reported |
| Servarr exact revision | `modules/server/_servarr-exact-revision.py` | `.deploy-commit`, `.env`, the checkout | prefetch, activate with snapshots, pin, verify | the release agent, `servarr-pull`, one repository lock | checkout, `.env` and pin name one revision, or the snapshots of the one before are back |
| `servarr-pull` | `modules/server/orchestration.nix` | the checkout, `.env` | at boot and on demand: reset to the pin or to `origin/main`, decrypt, start stacks | the same | what a boot starts is what was activated |
| PR review ledger | `scripts/pr-review/ledger.py` | SQLite rows, one per head | record, claim, finish, supersede, requeue, mark reusing | every program of the pipeline | no head leased beyond its attempts; a published row stays unless requeued |
| PR review pipeline | `scripts/pr-review/{collect,claim,publish,request}.py`, `hermes-pr-review.nix`, `just/hermes.just` | bundles (`review-in`), packets (`review-out`), archive (`review-done`), publication markers | collect, claim and review, publish, request | GitHub, the ledger, each other through directories | what is attested was posted, about the right diff; a lasting head gets published; an obsolete one takes no turns |
| PR review credentials | `scripts/pr-review/{tokens,verify-credentials,apply-gate}.py` and scripts | a token cache | mint, verify, apply a ruleset | GitHub | no protocol |
| Kepler recovery jobs | `modules/hosts/kepler/_collision_recovery_*_job.sh`, `_executor.sh` | request and status files, an `active` file | submit, execute, status, result | podman, systemd user units, the recipes of `just/hosts.just` | one retirement at a time; one that came to the end left nothing; nothing goes that was not approved under its id |
| Kepler planners and evidence | `modules/hosts/kepler/_collision_recovery_*.py` | none (manifests) | inventory, desired state, reconcile, quiesce, database and retirement evidence, retirement plan | each other through files the operator carries | they agree on one inventory; evidence of one host is not taken for another |
| Kepler AI retirement | `modules/hosts/kepler/_retire_ai_serving.py` | none | observe twice, remove one stage | podman, the same host as the jobs | containers before images before the model path |
| Hermes state backup | `scripts/hermes-state-backup.sh` | which units were active | quiesce, archive, compare, start again | systemd, ssh, restic | an archive is one moment of the home; what was active is active again, whatever fails |
| Hermes alert deduplication | `modules/hosts/discovery/hermes-plugins/alert-dedupe` | a JSON ledger, pending verdicts in memory | the two hooks of a turn | the agent | nothing unseen is called a repeat; the ledger keeps its bounds |
| ops-fix tool and runner | `hermes-plugins/ops-fix`, `modules/services/ops-fix/` | `state.json`, `audit.jsonl` | restart a container on request | a socket, podman, systemd | one restart in an interval; what a turn is told is in the audit |
| Other Hermes plugins | `modules/hosts/discovery/hermes-plugins` | none | rewrite a text | the agent | no protocol |
| Dead man's switch | `modules/services/dead-mans-switch.nix` | a counter | probe, notify | a Discord webhook | one notification per outage |
| Secret projection | `modules/server/_secretspec-runtime-projection.py` | one file | merge, rename | none | atomic replacement |
| Network and container health | `modules/hosts/discovery/*health*.nix`, `docker-net-heal.nix` | none | probe, reconnect | Docker | none kept |
| Workspace sessions, recipes, upgrade scripts | `modules/desktop`, `justfile`, `scripts` | none | operator tools | window manager, ssh | none kept |
| Declarative configuration | all other `.nix` | none | evaluated by Nix | none | none kept |

The hard behaviours are the same everywhere: runs killed between two writes,
retries of what was already done, files read in one step and acted on in a later one,
plans that are approved on one host and executed on what has become of it, and several
programs with no common lock.

## Kindle release agent

`KindleRelease.tla` is the agent, one action per step with an effect of its own:
each gate, each command, each durable write, each report.

- **World.** `main` (origin/main; commits are `1 .. N`, `Pinned[c]` is the release that
  commit `c` pins), `tree` (the checkout), `pin` (`.deploy-commit`), `live` (the
  container), `harbor` (mirrored releases). `Signed`, `Healthy` and `Clean` say which
  releases verify, which serve, and which commits touch nothing but the pin.
- **Durable.** `state` is `state.json`, `metric` the text file, `told[s]` the last verdict
  each sink took.
- **The run.** `pc` and `mode` are the place and the function (`run_forward`,
  `run_rollback`, `recover_failed_attempt`, ...), `current` the snapshot in memory.
- **What goes wrong.** `CallFails` (any gate or command, having taken part of its
  effect or not), `WriteFails` (either durable file, before or after its rename),
  `DeliveryFails` (the sink may have taken the report), `Kill` (time-out of the
  unit, out of memory, stop) at any step, `Reboot`, which runs `servarr-pull`. A
  reboot during a run is a `Kill` and then a `Reboot`. `MaxMishaps` bounds them.

Modelled as the agent meets it: the lock excludes a second run, pin-v2 is atomic
(it writes one file and renames it), and a command that a killed run had started is
over before the next run. Left out: timestamps, texts of failures, the HTTP of the
sinks, a corrupt `state.json` (both writes are atomic). Ill health that passes is
a failing call; `Healthy` is about the release itself.

`KindlePromotion.tla` is the promise without phases, files or crashes: a baseline, an
attempt at the *next* release, promoted only while it serves, given up only while the
baseline serves again. `PromotesInOrder` says that `KindleRelease` implements it,
with the baseline and the attempt read off `state.json` alone. `KindleHistory.tla`
adds two history variables for properties about earlier runs.

| Run | Asks | Instance |
|---|---|---|
| `kindle_safety` | do pin, record, metric and container agree whatever fails, and is every verdict reported | 4 commits of which one pins nothing new, one unsigned release, drill on and off, 4 mishaps; 307,633 states |
| `kindle_liveness` | does every attempt reach a verdict and every rollback lead back | a release per commit, one going back to an older release, one unhealthy, one unclean commit, 3 mishaps, no reboot; 146,497 states |
| `kindle_boot` | *violated*: does the next boot serve what is recorded | 3 mishaps |
| `kindle_quarantine` | *violated*: is a failed candidate left alone until main moves | 3 mishaps |

Why the bounds are enough: four commits are a baseline, an unrelated commit, a release
to promote and one after it, which is all that `observe_candidate` compares. Four
mishaps let a forward step fail, its rollback fail, the record of that fail, and the
next run be cut. The safety theorems hold for any `N`, any releases and any number of
mishaps.

Fairness: `WF(Start)` is the hourly persistent timer; `WF(Agent)` says that a run goes
on until it ends or is killed, which the 30 minute time-out guarantees. Mishaps are
under no fairness and bounded, so liveness reads "once mishaps stop". Reboots are
outside the liveness run, because a boot after a cut rollback leaves the agent
stuck, which is the finding of `kindle_boot`.

## Servarr revision

`ServarrRevision.tla` has the four commands of the exact revision helper (`prefetch`,
`activate`, `verify`, `pin-v2`) and `servarr-pull`, which every boot and restart runs,
on one checkout.

- **World.** `origin` and `ref` (origin/main and what the checkout last fetched of it;
  commits are `1 .. N`), `Secret[c]` (the `.env.sops` blob of a commit, or none).
- **Host.** `head`, `env` (the blob that `.env` was decrypted from), `pin`
  (`.deploy-commit`: none, the document of `activate` or the one of `pin-v2`), `lock`.
- **Documents.** `prefetched`, `approved` (the authorization), `evidence`.
- **The runs.** `act` with what it snapshotted, `ver`, and `sync`: each a place and what
  it has read. `prefetch` and `verify` do not take the lock, as in the code.
- **What goes wrong.** `StepFails` and `UndoFails` (a command or write of the activation
  or of its recovery), `PrepareFails`, `SnapshotFails`, `SyncFetchFails`, `SyncKeepsEnv`
  (sops fails, and the script goes on), `KillActivate`, `KillSync`.

`RevisionSelection.tla` is the promise: a selection moves HEAD, `.env` and the pin in
one step and vouches for it, or moves nothing; only a killed activation, or one whose
recovery failed, leaves a mixture. `SelectsAtomically` maps an activation under way to
the host it snapshotted, so that the write of the evidence is `Select`, and a recovery
that succeeds is a stutter.

What may be left behind is in the model as it is in the code: a kill between the
reset and the decryption leaves the new checkout over the old `.env`, and a second
activation of the same revision finds equal blobs and reports `activated`. `stale`
remembers that a run was cut or kept a former `.env`; `EnvFollowsHead` says that this is
the *only* cause. Left out: `.deploy-branch` (always main), digests that bind a document
to itself, renders that succeed.

| Run | Asks | Instance |
|---|---|---|
| `servarr_revision` | is a revision selected as a whole, is `verify` truthful without the lock, do pins of the two kinds keep apart | 3 commits with two secrets and none, 2 mishaps of each kind; 2,668,783 states |

Three commits are the rollback, the forward commit and one after it, and they meet
every case of blobs: equal, different, absent before or after. The proofs hold for any
history and any number of mishaps. No liveness: nothing retries a helper that an
operator calls.

## PR review pipeline

`ReviewLedger.tla` has one operator per SQL transaction of `ledger.py`.
`ReviewPipeline.tla` composes it with the four programs and the directories they share:

- **GitHub**: `open`, `tip` (the branch's head), `reviews` and `newest` per head,
  `check` (the gate's conclusion), `formed` (the head whose diff it was formed on).
- **Files**: `box` (`review-in`: a bundle with `.ready`, with `.reuse`, or spent),
  `packet` (`review-out`), `archive` and `kept` (`review-done`), `marker`.
- **Programs**: `col`, `work[w]`, `pub`, `ask`, each a place and what it has read.
  A program's step reads or writes one thing, so that anything may happen between two
  steps. The collector excludes itself by a lock, the publisher by systemd; workers and
  the request tool take no lock at all.
- **What goes wrong**: `CollectorStops`, `PublisherStops`, `RequestStops` (cut, or a
  GitHub call fails), `WorkerDies`, `WriteInvalid`, a lease that expires under a
  review. `MaxMishaps` bounds them. `Push`, `Close` (`MaxMoves`) and `Reopen` are the
  author's, `Ask` (`MaxRequests`) the operator's.

Abstractions: one pull request; `requested_at` is the order it induces (`later`); a
lease's expiry and the 45 minutes after a failure are one flag, `due`, that time sets;
the owner of a lease is left out because no statement reads it. A verdict carries the
head whose diff it is *about*. A reuse takes any published head of an identical diff
whose archive was kept, more than `last_published` would offer, and whether the
guidance at the base changed is a free choice. The re-reading of a revived row and the
read of `build_bundle` are one step. Left out: the summary comment, filters and drafts,
tokens, migration of old state, evidence filtering, JSON no program wrote.

| Run | Asks | Instance |
|---|---|---|
| `review_safety` | do rows, markers and checks attest the truth under every interleaving | 2 heads, 1 worker, 1 push or closing, reopening, 1 request, 1 mishap; 4.6 million states |
| `review_liveness` | is the lasting head published; do obsolete heads settle; has every packet a row | 2 workers, 1 attempt, identical diffs (so that reuse happens), 1 push or closing, 1 mishap; 125,472 states |
| `review_gate` | *violated*: do the newest review and the check agree | 3 reviews, nothing fails |
| `review_revive` | *violated*: is a reopened head published | a closing, a reopening, 1 mishap |
| `review_push_back` | *violated*: is the check about the head's own diff | a push and a push back, nothing fails |

Why the bounds are enough: every statement of the ledger relates one head to
another, so two heads reach every branch; one worker is enough for races with the
collector and the publisher, two for the lease, as the liveness run has. It has one attempt
where `review_safety` has two, so that a single dead worker exhausts a head's budget and only
the collector's retry, with a fresh one, brings the head back. One mishap cuts
every program at every step; a cut followed by a second one is within the theorems
below. `HeadPublished` holds with one mishap and neither reopening nor request; beyond
that it fails for the cause `review_revive` shows (a bundle without `.ready` whose
row says it may be reviewed), which is why those runs are apart. `ObsoleteSettles` is about
`queued` and `leased` only: an obsolete `reusing` row is harmless, as no worker
claims it.

Fairness: weak fairness of `Collect`, `Publish` and each `Review(w)` is their
timers and cron jobs, of `Tick` the passage of time, of `Request` that a command once
started goes on. Strong fairness of `StartBuild` excludes one race only: between the
collector's requeue of a revived row and its next read a worker may claim the row, find
no bundle and mark it stale. The window is milliseconds in each two-minute period;
the assumption is that a worker does not win it for ever.

## Kepler collision recovery

Stacks that were moved, replaced and given up collide on one host; the recovery
retires what is left of them. Three modules:

- `KeplerPlans.tla`, pure operators on an inventory: `Desired`, `Reconcile` with its
  classification of each container, `Quiesce`, the Redis backup plan, the acceptance
  of database evidence, `Assemble` for the retirement evidence, `Accepted`, `Manifest`
  and the executor's `Preflight`.
- `AiRetirement.tla`, the staged removal of the AI stack.
- `KeplerRecovery.tla`, the host with the operator, the PostgreSQL evidence job and the
  retirement jobs.

State and actions:

- **Host.** `containers` (name to id, state, project, image, mounts), `volumes`,
  `images`, `paths`, `databases`. An id is never used twice.
- **Files.** `inventory`, `pathRecords`, `database`, `evidence`, `manifest`, each written
  by a recipe from what the files before it hold, so that each may be older than the host
  and than the others. `ExecuteRetirement` takes a fresh inventory, which has to be the
  manifest's, and `approved` is what it is about to submit.
- **Jobs.** `backup` is the evidence job, with the id that was asked for and the `source`
  that was dumped, `jobs` the retirement requests with their
  status file, their unit and the action they have come to, `active` the file that names
  one of them. Executor steps are single podman or psql commands.
- **What goes wrong.** `Flip`, `Recreate`, `Borrow` (people and deployments start, stop and
  replace containers, or run one on a retired image; `MaxDrift`), `FailAction`, failing
  drops, restores and stops of postgres, a submission whose unit does not start,
  `KillBackup`, `KillUnit` (`MaxMishaps`); AI calls remove any part of what they were to
  remove. What fails in one step counts as one mishap.
- **History.** `verified`, the containers whose dumps were restored and found the same;
  `wanted`, how people and deployments left postgres; `leftRunning`, that a unit left
  postgres running which it had started, by a kill or a stop that failed.

Abstractions: one container, volume or path stands for several that are treated alike;
the F5 dispositions are one path and one image. Model identities are a free choice. A
second evidence submission while one is live is left out, as are the Redis evidence
job, which changes nothing on the host that another part reads, and the recipe that
forces fixed ids. `Execute`'s branch for a locked execution is never taken, which is what
`OneAtATime` says.

What the code does and the model with it, which a reader may not expect: a killed
retirement keeps the status `running`, and every later submission of another request
halts; a failed request that is submitted again begins with its first action, and fails
at a volume or image that is gone, so that it has to be planned anew (`Replannable` says
that this is possible until it has come to the database or the dispositions); a
container that is started between approval and execution is not in the manifest's
inventory as running, but `podman rm --force` removes it all the same
(`OnlyApprovedGoes` is about the inventory for that reason); the evidence job dumps the
container that has the *name* and stops the one that has the *id*;
`_collision_recovery_retirement.py` looks for images that survivors share under the
image's id, while the collected inventory keys them otherwise, so that only podman's
refusal protects a shared image.

Three more, where parts of the code disagree:

- **A completed retirement is reported as failed.** The job takes the executor's output only
  if every line is one of the executor's `DONE` lines (`_collision_recovery_retirement_job.sh:167`),
  but the executor leaves what `podman rm`, `podman volume rm` and `podman image rm` print on it
  (`_collision_recovery_executor.sh:138-142`), and every manifest removes an image. So
  `CheckOutput` never passes (`NoRetirementPasses`), the status is `failed executor-failed`
  like that of a job that stopped half way, and the request may be submitted again. The executor
  of `async-retirement-job.bats:25` prints `DONE` lines only, which is how the test comes to see
  `passed`. `FinishedIsComplete` is about the executor's having come to the end, for that reason.
- **A running Redis.** `_collision_recovery_redis_backup.py:104-141` backs a running Redis up with
  any well-formed approval that is bound to the inventory and lists it, as
  `test_redis_backup.py:91-98` has it; `_collision_recovery_quiesce.py:120-124` halts at the
  labels of that same Redis and renders no approval. `PlannersAgree` states the disagreement as
  it is: of an inventory that the Redis planner takes, with such an approval, quiesce halts.
- **Stops of postgres.** The evidence job ignores a stop that fails
  (`_collision_recovery_postgres_evidence.sh:45`), and so does the executor when the database is
  not ready or not dropped (lines 163, 168); after the drop a failing stop fails the executor
  (line 171). Postgres then runs on. `PostgresAsFound` allows that, the same after a kill, and
  nothing else.

| Run | Asks | Instance |
|---|---|---|
| `kepler_recovery` | do the planners agree on every inventory; does only what was approved go; is the database dropped only from a cluster whose dumps were restored; are jobs exclusive, finished ones complete, and is postgres given back | 10 hosts, 1 interference, 1 mishap, 2 inventories, 2 evidence jobs, 2 requests; 800,646 states |

The ten hosts are one to retire from, one that still serves AI, quiet ones (without
interference and mishaps) that differ in what runs, in a legacy Redis and in a running
F5 server. Two of everything the operator asks for is what a stale file needs: one that
is used and one that is newer. One interference and one mishap reach every step; the
theorems below hold for any number. No liveness: every step waits for an operator, and a
killed unit is not started again.

## Argus

- `AlertLedger.tla`, pure operators: what the ledger says of a notice (`Classify`) and
  what a commit writes (`Commit`: counting, resolving, eviction by age and number).
- `HermesAgent.tla`, turns that run at the same time in one process, with the
  two plugins, and the runner that restarts containers for them.
- `HermesHost.tla`, the agent under the backup of its home.

State and actions:

- **Turns.** A message begins a turn (`Notify`, `Chat`): the verdict is formed on the
  ledger of that moment and remembered in `pending`, of at most `MaxPending`. When the turn
  ends, `TransformLoad` reads the ledger and `TransformSave` writes what it makes of it,
  so that two turns may read the same ledger (`overwritten`).
- **Runner.** `OpsFix` connects, or finds the socket absent, full or not mounted. The runner
  takes one request at a time: `Accept` (allowlist and interval), `Restart`, `Record`
  (`state.json`), `Audit`, `Answer`. `ClientTimeout` gives up before a slow restart has
  ended; the late answer then kills the runner, queued clients are cut, and systemd
  starts it again in a new `/run/ops-fix` that the agent's container does not see
  until it is itself restarted (`mounted`).
- **Backup.** `supervisor[b]` is the remote process of a backup `b`. Nothing keeps two of them
  apart, so that any number may run at a time. Each reads which units are active, stops
  timer, health check and writer, confirms, archives file by file, compares file by file,
  and in the end starts what was active. `Fails` is any failure or signal before the
  recovery, `CutShort` one in the window before signals are ignored, or a kill.
- **What goes wrong.** `LedgerLost` (missing or unreadable), failed saves and records,
  `RunnerKilled` at each step, `Deploy` during a backup, `LongPause` (older than `MaxAge`),
  failing health checks. `Worlds` bounds them.

Abstractions: one agent stands for two; threads, the parsing and wording of notices and
`_EMITTED`, which decides nothing while a hook runs once in a turn, are left out;
`MaxAge` is counted in commits. Only the first alert of a grouped notice is counted, as in
the code. An operator who stops a unit during a backup, preflight and rehearse are left out.

What the code does and the model with it: a ledger that cannot be read is never repaired,
and one that is missing makes everything new, without the "cannot be confirmed" that the
dedupe behaviour document asks for; nothing compares a restart with the ledger's verdict,
although the fix behaviour document says that it is gated by it; a runner that dies
between `state.json` and the audit leaves a restart without a line; a backup
that is killed leaves the agent down, and the next backup takes that as what it found. So
does one that begins while another has the agent stopped: `scripts/hermes-state-backup.sh:286-297`
takes no lock, it stops the agent again after the other has started it, and does not start it.
The runbook names concurrency as a limit (`hermes-state-backup-one-pager.md:98`), and
`DownOnlyInBackup` has it as one of the causes (`stranded`). A `state.json` that cannot be read
counts as empty (`ops-fix-runner.py:50-54`) and is overwritten by the next record; the model's
`recorded` is never lost, so that `OncePerInterval` is about a file that stays readable.

| Run | Asks | Instance |
|---|---|---|
| `hermes_host` | is nothing unseen called seen, are counts true, is the interval kept, does an archive hold one moment, is the agent given back | six bounds: 3 notices of 2 alerts; 2 chats with 2 requests each; 1 backup beside a notice and a chat with 2 mishaps; 2 backups, one after the other or at a time, beside a notice, and beside a chat with a mishap; one of each together; 3,562,058 states |

With two alerts, one family kept, two episodes each and two pending verdicts every
limit is met and passed. The socket's backlog is 0, so that one waiting client fills it.
Two requests are the restart and the one it should refuse. Two backups are what an overlap
needs; they differ in their name only, and the run has no temporal property, so that symmetry is
sound. No liveness is stated: a turn's
end is the model's, and a backup that is cut short leaves the agent down for good, which
`DownOnlyInBackup` says outright.

## Findings

Each is the counterexample of a run; `PROJECT.json` quotes the lines.

1. `kindle_boot`: a run killed between the two commands of a rollback's activation leaves
   `.deploy-commit` on the previous commit. The next run goes forward and records
   `succeeded` for the candidate; the next boot serves the previous release, and every
   later run stops at `verify_active_commit`.
2. `kindle_quarantine`: the test's name says that a failed candidate is quarantined until
   origin advances; the run after the recovery attempts it again.
3. `review_gate`: success, failure, success on one head posts no third review, so the
   newest review requests changes while the check says success.
4. `review_revive`: a publisher cut before it retires the spent bundle of a closed pull
   request makes its head unreviewable when the pull request is reopened.
5. `review_push_back`: a push between the listing and `gh pr diff`, and a push back
   before the publication, put a verdict about another head's diff on the first.

## What is proved

`KindleReleaseProofs.tla`, from `KindleAssumption` (the types of the constants and `N > 0`):
`TypeCorrect`, `PinAlwaysVetted`, `CleanExitsProject`, `SucceededAlwaysLive`,
`RollbackAlwaysRestores`, `VerdictAlwaysDurable` and `Implements` (the refinement of
`KindlePromotion`). None of the properties is inductive: that a durable `succeeded` is
true depends on what was established two steps, or two runs, before. `IInv` therefore
adds

- `SoundInv`: what a snapshot's phase proves of the registry, Harbor and the history,
  none of which can be undone;
- `PinInv`: the pin before there is a baseline;
- `ControlInv`: which function runs where, on a snapshot in which phase;
- `SyncInv`: memory and `state.json` agree except between a change and its write;
- `LiveInv`: what this run has established about the checkout and the container.

Each action has a lemma, with a step per conjunct it can disturb. `Implements` uses
the same invariant and `AttemptInv`, that a snapshot is written only over one it
continues: the write of `observed` is `Begin`, of `succeeded` at the end of an attempt
`Promote`, of the baseline that recovery makes `GiveUp`, of an adopted one `Adopt`;
every other step leaves baseline and attempt as they are.

`VerdictAlwaysReported` is about `KindleHistory`: a verdict in `state.json` has reached both
sinks, or the file says `degraded`, so that the next run reports again, or a run was cut.
`ReportInv` relates a run to the snapshot it *loaded* (`LoadedInv`: a poll alone ends with
what it began with, and then has nothing to report), to what it has told
(`SinksInv`), and a run to the next (`AccountedInv`).

`ReviewProofs.tla`, from `LedgerAssumption` and `PipelineAssumption`:

- `ReviewTypeCorrect`: types, and with them claim's bound on attempts. `TypeInv`
  strengthens `ReviewTypeOK` with what each program has in hand where it relies on it.
- `PublishedAlwaysPosted`: `PostingInv` follows the publisher's order; the lemmas about
  the ledger show that no statement but `finish(.., "published")` makes a row
  published, whoever runs it.
- `PacketAlwaysHasRow`: no transaction removes a row (`RowsStay`), and `RowInv` says that
  whoever is about to write a packet, a worker with its lease or the collector with a copy,
  has a head that has one.
- `NeverBackMeansOwnDiff`: if no push brings an earlier head back (`NeverBack`), the check
  of a head is about its own diff. `DiffInv` says of every bundle, packet and program
  that it is labelled with the head it is about *or the branch has left that head*, in
  which case the publisher's look discards it. `NeverBack` is stated on the
  transitive closure of pushes; any acyclic set of pushes is within one. Together
  with `review_push_back` this says that the push back is the whole of the problem.

`ServarrProofs.tla`, from `ServarrAssumption` (the rollback commit comes before the forward
one, `Secret` is defined on the commits): `TypeCorrect`, `EnvAlwaysFollows`,
`VerifiedAlwaysTrue`, `PinKindAlwaysSticks`, `PullAlwaysServes` and `Implements` (the refinement
of `RevisionSelection`). `IInv` is the conjunction of

- `DocumentInv`: commits in documents were fetched; a prefetch document contains `Forward`;
- `HostInv` and `LockInv`: types, and who is past the lock holds it;
- `ActivationInv`, `SnapshotInv`: an activation under way has moved exactly what its
  place says, in the code's order; in the recovery, what its place says is back;
- `FreshInv`: unless `stale`, `.env` is the blob of HEAD whenever nobody is between the
  two, and the snapshots of an activation agree in the same way;
- `PullInv`: HEAD is the pin from the pull's reset to its end;
- `VerifyInv`: what `verify` has read so far. That it is truthful without the lock is the
  least obvious of these results: it reads HEAD, then the tree, then the pin, and once
  HEAD was the selection without the pin, `Closed(s)` holds until the two meet: the pin is
  not the selection, and nobody is about to restore it without HEAD.

`KeplerProofs.tla`, from `KeplerAssumption` (types; the first host's ids are 0 and its
sets finite): `AlwaysOneAtATime`, `FinishedAlwaysComplete`, `NoRetirementPasses`,
`DropAlwaysBacked`. `IInv` is

- `JobsInv`: a held request is the one the `active` file names, and what the actions a
  running executor has done are for is gone and stays gone (`Over`). That it stays
  gone needs that ids are fresh and that nothing here makes volumes or images;
- `FilesInv`, `BackupInv`: wherever a claim about a postgres id is filed, the id is `Good`:
  its dumps were restored and found the same, or postgres will never have it again. The second
  half is needed because the dump is taken by name, after postgres may have been replaced
  (`Dumped`: the source is the one asked for, or that one is gone);
- `HostInv`: ids are at most `drift`.

`ManifestListed` says that the actions of a manifest are exactly what its evidence names, no
more and no less: `SetToSeq` is onto, and `Lists` is kept by concatenation. The facts
about manifests follow from it: `ManifestSound` (the database action carries the source
that the evidence does, so that the claim is followed from the job to the executor),
`ManifestOwned`, `ManifestFull`.

`KeplerHostProofs.tla` adds `HostAssumption`, what the recovery finds: postgres exists,
every container has its image, volume names are unique, and the AI stack is there as
`_retire_ai_serving.py:12-24` fixes it, under names, ids and images that are none of the
other jobs'. From it follow `OnlyApprovedEverGoes`, `AiAlwaysInStages` and `TypesAlwaysOK`.
`OwnInv` strengthens them:

- `FilesOwn`, `JobsOwn`: every action of a manifest, in the operator's files or with an
  executor, is one that a retirement may do (`Owns`) to the inventory it carries, and that
  inventory has every volume there still is (`Whole`), each under its own name. The second
  half is why a volume removed by name is the one that was inventoried. `ManifestOwned`
  draws the first from what the evidence and the plan check, list by list;
- `AiInv`: what a call of the AI retirement observed is still so when it removes, which is
  what keeps `podman image rm --force` from taking a container along;
- `HostOwn`: postgres and the images of all containers are there.

`PostgresAlwaysAsFound` is proved on top of both. `PostgresInv` says
that at most one of the two kinds of unit has started postgres, the container of the id it
will stop, which was stopped before and still runs; and that otherwise postgres is as
wanted, or was left running that should not. A unit that finds postgres running, because the other one has started it, starts
nothing and stops nothing, and fails when the other stops it under its hands.

`KeplerPlannersProofs.tla` is about what the planners answer:

- `PlannersAlwaysAgree`, for whatever services are declared and whatever containers there
  are. `InventoryAgreed` takes any inventory with postgres and the one assumption
  `DeclaredAssumption`, that the services are of the projects `infra` and `docs-search`:
  `_collision_recovery_desired.py:248-252` renders no others, and
  `_collision_recovery_quiesce.py:86` refuses them. That assumption is why a converged
  inventory holds nothing retired. That a manifest removes every container which
  reconcile would retire needs `Full`, for which evidence may leave nothing out (`Complete`).
- `AlwaysReplannable`. A request was made from evidence that could be assembled, and the
  executor's allowlist took it. `PlansInv` keeps this with every manifest; volumes and images
  only ever go, so that what is left is still unambiguous (`Single`) and still allowed.
  Without a request before it there is no such evidence, and a host with two volumes of
  one logical name, say, cannot be planned for at all; the property says
  "stopped half way" for that reason.

`HermesProofs.tla`, from `AgentAssumption`: `RateIsKept`, `ToldAlwaysAudited`,
`PassAlwaysAMoment`, `DownAlwaysInBackup`. `IInv` is

- `RateInv`: each restart of the interval is recorded, is about to be, or is among
  `unrecorded` (`Accounted`); `RunnerInv` and `TurnsInv` say which request the runner has
  in hand and which it may answer; `ToldInv` that an answered one is in the audit;
- `SupervisorInv`, `PriorInv`: while the agent is down and nothing has stranded it, some
  supervisor holds it (`Holds`: it found it active and has stopped it). It may be another one
  than the one that stopped it last. `Apart` is that a supervisor's step leaves the others
  where they are, which makes the steps of one enough (`HoldsStep`, `StopsHold`);
- `CopyInv`: the database only grows and is compared last. When the ledger compares
  equal, either the archive is the home at that moment, or the database has grown
  already and will not compare equal again. That is why comparing one file after the
  other, while a deployment or another backup may have started the agent, is enough for one moment.

`AlertLedgerProofs.tla` has what the ledger's operators do to every ledger, for any limits:
`CommitOK` (a commit leaves the ledger well-formed and bounded, with counts of at most
one more, and only of the alert it is about), `CommitShows` (within the limits it forgets
nothing of what was counted), `ClassifyOK` (a repeat has been counted). Eviction takes the
newest of a finite set by number of those that are newer, and keeps as many as it should
because no two are equally new: `AscendingOK`, `KeepingOK`, `NewestOK` and
`PrunedOK`. They rest on `FiniteSetsDescend`, induction on finite sets in a form that takes
a *set* of good sets where the library's theorem takes an operator.

On it `HermesProofs.tla` proves `LedgerAlwaysBounded`, `RepeatAlwaysKnown`,
`CountsAlwaysSightings` and `TypesAlwaysOK`, of which none is inductive: a commit writes what
it makes of a ledger that the turn read earlier, when the file may have been another one.
`LInv` therefore says the same of *every* ledger in the system, the file, and the copy of
each turn (`LedgerGood`): it is well-formed and older than now, within the limits, and it
counts no more than was committed. The rest is

- `NoticesInv`: every notice is committed once at most, by the turn it began (`Announced`), so
  that the sightings of an episode are never more than the notices;
- `FileInv`: while nothing has disturbed it (`Undisturbed`: no two turns read the same ledger,
  nothing was lost, too old or too much) the file shows every sighting. That nothing is
  evicted then is `EpisodesFit` and `FamiliesFit`: what a ledger lists was sighted;
- `TurnsGood`, `PendingInv`, `QueueInv`, `UnitsInv`: a verdict is about an alert that was
  announced, `pending` holds each turn once, and whatever the runner has in hand was
  asked for by a turn.

Only model-checked: liveness, which is outside what the provers do (`AttemptReachesVerdict`,
`RolledBackRecovers`, `HeadPublished`, `ObsoleteSettles`). Every safety property that a
passing run checks is also a theorem. What a RECURSIVE operator computes could not be
proved either; the modules use none.

## Not modelled

- **Credentials and gate set-up, operator recipes, secret projection, upgrade scripts, other
  Hermes plugins, Nix configuration**: sequential, without state of their own, or only evaluated.
- **Dead man's switch**: one counter. A notification that is not delivered is not
  repeated (it is sent when the counter *equals* the threshold), which takes no
  interleaving to see; it is listed as a hazard.
- **Container and network health, desktop sessions**: probes and tools whose behaviour is
  that of Docker, of a window manager and of tmux.
- **Kepler**: the K0 planner, which works on hand-written fixtures that no recipe
  feeds; the Redis evidence job; the forced recipe; the stack recipes that follow.
- **PR review pipeline**: the summary comment, filters, drafts, migration of old state,
  evidence filtering, several pull requests over one archive. The bundle under a live
  lease and reuse over several pull requests are the hazards that would repay it first.
- **Kindle**: the lock file in the `RuntimeDirectory` that the agent shares with its drill,
  and releases that can never verify, which end every run the same way.
- **Hermes**: preflight and rehearse, which change no unit; what `extract` refuses.

## Running

    tlc -workers 2 -config KindleSafety.cfg MCKindleHistory
    tlc -workers 2 -config ServarrRevision.cfg MCServarr
    tlc -workers 2 -config ReviewSafety.cfg MCReview
    tlc -workers 2 -config KeplerRecovery.cfg MCKepler
    tlc -workers 2 -config HermesHost.cfg MCHermes
    tlapm KindleReleaseProofs.tla
    tlapm ServarrProofs.tla
    tlapm ReviewProofs.tla
    tlapm KeplerProofs.tla
    tlapm KeplerHostProofs.tla
    tlapm KeplerPlannersProofs.tla
    tlapm AlertLedgerProofs.tla
    tlapm HermesProofs.tla

Every run, its module and its configuration are listed in `PROJECT.json` under `runs`,
and under `mutants` the change to the modelled code that each property refutes.
