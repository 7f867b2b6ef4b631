---------------------------- MODULE KeplerRecovery -----------------------------
(* The Kepler collision recovery on one host: the operator collects evidence and *)
(* renders plans, a PostgreSQL evidence job and retirement jobs run as systemd   *)
(* user units, the AI retirement runs beside them, and deployments and people    *)
(* change the containers meanwhile.                                              *)
EXTENDS KeplerPlans, AiRetirement

CONSTANTS
    Worlds,       \* the hosts the recovery may begin on
    Touched,      \* the containers that deployments and people touch
    MaxDrift,     \* how often they do
    MaxMishaps,   \* bound on failing commands and killed units
    MaxInventories, MaxBackups, MaxJobs,   \* bounds on what the operator asks for
    None          \* an evidence file that was not written yet

ContainerType ==
    [id : Nat, state : {"running", "exited"}, project : STRING, service : STRING,
     image : DOMAIN Repository, mounts : SUBSET STRING, network : STRING]

ASSUME KeplerAssumption ==
    /\ {MaxDrift, MaxMishaps, MaxInventories, MaxBackups, MaxJobs} \subseteq Nat
    /\ \A w \in Worlds :
          /\ w.containers \in [DOMAIN w.containers -> ContainerType]
          /\ \A n \in DOMAIN w.containers : w.containers[n].id = 0
          /\ w.images \subseteq DOMAIN Repository
          /\ IsFiniteSet(DOMAIN w.containers) /\ IsFiniteSet(w.volumes)
          /\ IsFiniteSet(w.images) /\ IsFiniteSet(w.paths)

\* The recovery begins on a host that still has what the AI stack runs on, and that
\* stack shares no name and no image with what the other jobs are about.
ASSUME HostAssumption ==
    /\ \A w \in Worlds :
          /\ "postgres" \in DOMAIN w.containers
          /\ \A n \in DOMAIN w.containers : w.containers[n].image \in w.images
          /\ \A n \in DOMAIN w.containers \intersect DOMAIN ApprovedAi :
                w.containers[n].image = ApprovedAi[n].image
          /\ \A u, v \in w.volumes : u.name = v.name => u = v
          /\ ApprovedImages \subseteq w.images /\ AiPath \in w.paths
    /\ \A n \in DOMAIN ApprovedAi :
          /\ n \notin {"postgres", "stranger"} /\ ApprovedAi[n].id = 0
          /\ Repository[ApprovedAi[n].image] # F5Repository
          /\ \A f \in Families :
                Repository[ApprovedAi[n].image] \notin FamilyRepositories[f]

VARIABLES
    volumes, databases,                       \* the rest of the host
    inventory, pathRecords, database, evidence, manifest,   \* .gsd/evidence/kepler-k1
    approved,     \* the manifest a retirement-execute is about to submit
    backup,       \* the PostgreSQL evidence job
    jobs, active, \* retirement-jobs: the requests, and the file that names one
    drift, mishaps, inventories, backups,   \* what the bounds count
    wanted,       \* history: the state people and deployments left postgres in
    leftRunning,  \* history: since then a unit did not stop the postgres it had started
    verified      \* history: the postgres containers whose dump was restored and compared

host == <<containers, volumes, images, paths, databases>>
files == <<inventory, pathRecords, database, evidence, manifest, approved>>
asked == <<inventories, backups>>
budget == <<drift, mishaps, asked>>
history == <<wanted, leftRunning, verified>>
vars == <<host, ai, files, backup, jobs, active, budget, history>>

Init ==
    /\ \E w \in Worlds :
          /\ containers = w.containers /\ volumes = w.volumes
          /\ images = w.images /\ paths = w.paths
          /\ drift = IF w.quiet THEN MaxDrift ELSE 0
          /\ mishaps = IF w.quiet THEN MaxMishaps ELSE 0
          /\ wanted = w.containers["postgres"].state
    /\ databases = {"airflow", "retained"}
    /\ ai = NotCalled
    /\ inventory = None /\ pathRecords = None /\ database = None
    /\ evidence = None /\ manifest = None /\ approved = None
    /\ backup = [state |-> "missing", live |-> FALSE, request |-> None,
                 started |-> FALSE, source |-> None, read |-> {}]
    /\ jobs = <<>> /\ active = 0
    /\ inventories = 0 /\ backups = 0
    /\ verified = {} /\ leftRunning = FALSE

Now == Snapshot(containers, volumes, images)
Mishap == mishaps < MaxMishaps /\ mishaps' = mishaps + 1

(* The container an exact id names; ids are never used twice.                    *)
Exactly(name, id) == name \in DOMAIN containers /\ containers[name].id = id
Running(name, id) == Exactly(name, id) /\ containers[name].state = "running"
InState(name, state) == [containers EXCEPT ![name].state = state]
Stopped(name, id) == IF Exactly(name, id) THEN InState(name, "exited") ELSE containers

(****************************** people and deployments *************************)

\* A unit works on postgres; what is found of its state then is not what was wanted.
PostgresInUse == backup.live \/ \E j \in DOMAIN jobs : jobs[j].db # "idle"

Changed(n, state) ==
    /\ drift < MaxDrift /\ drift' = drift + 1
    /\ wanted' = CASE n # "postgres" -> wanted
                   [] n = "postgres" /\ PostgresInUse -> "unknown"
                   [] OTHER -> state
    /\ leftRunning' = (leftRunning /\ n # "postgres")
    /\ UNCHANGED <<volumes, images, paths, databases, ai, files, backup, jobs, active,
                   mishaps, asked, verified>>

\* Somebody starts or stops a container.
Flip(n) ==
    LET state == IF containers[n].state = "running" THEN "exited" ELSE "running"
    IN containers' = InState(n, state) /\ Changed(n, state)

\* A deployment replaces a container by one with a new id.
Recreate(n) ==
    /\ containers' = [containers EXCEPT ![n].id = drift + 1, ![n].state = "running"]
    /\ Changed(n, "running")

\* Somebody runs a container of their own on a retired image.
Borrow ==
    /\ "stranger" \notin DOMAIN containers
    /\ \E i \in FamilyImages(Now, "airflow") :
          containers' = [n \in DOMAIN containers \union {"stranger"} |->
                            IF n # "stranger" THEN containers[n]
                            ELSE [id |-> drift + 1, state |-> "running", project |-> "",
                                  service |-> "", image |-> i, mounts |-> {},
                                  network |-> "bridge"]]
    /\ Changed("stranger", "running")

(******************************* the operator **********************************)

\* kepler-recovery-inventory, and kepler-recovery-retirement-paths.
CollectInventory ==
    /\ inventory # Now /\ inventory' = Now
    /\ inventories < MaxInventories /\ inventories' = inventories + 1
    /\ UNCHANGED <<host, ai, pathRecords, database, evidence, manifest, approved, backup,
                   jobs, active, drift, mishaps, backups, history>>

CollectPaths ==
    /\ pathRecords # PathRecords(paths) /\ pathRecords' = PathRecords(paths)
    /\ UNCHANGED <<host, ai, inventory, database, evidence, manifest, approved, backup,
                   jobs, active, budget, history>>

\* kepler-recovery-postgres-evidence-run up to the submission: the request is
\* for the inventory's postgres; one that is pending, running or passed is not repeated.
SubmitBackup(mode) ==
    /\ inventory # None /\ "postgres" \in DOMAIN inventory.containers
    /\ ~backup.live
    /\ backups < MaxBackups /\ backups' = backups + 1
    /\ LET request == <<inventory, inventory.containers["postgres"].id, mode>>
       IN /\ backup.state = "failed" \/ backup.request # request
          /\ backup' = [state |-> "pending", live |-> TRUE, request |-> request,
                        started |-> FALSE, source |-> None, read |-> {}]
    /\ UNCHANGED <<host, ai, files, jobs, active, drift, mishaps, inventories, history>>

Backup(state) == [backup EXCEPT !.state = state, !.live = state = "running"]

\* The evidence unit begins: the exact container in the state the mode asks for, which
\* it starts when it is stopped, unless that fails.
BeginBackup ==
    /\ backup.live /\ backup.state = "pending"
    /\ LET id == backup.request[2] mode == backup.request[3]
           needed == IF mode = "run" THEN "running" ELSE "exited"
           bound == Exactly("postgres", id) /\ containers["postgres"].state = needed
       IN \/ /\ bound
             /\ containers' = InState("postgres", "running")
             /\ backup' = [Backup("running") EXCEPT !.started = mode = "run-stopped"]
             /\ UNCHANGED mishaps
          \/ /\ IF bound THEN Mishap ELSE UNCHANGED mishaps
             /\ UNCHANGED containers /\ backup' = Backup("failed")
    /\ UNCHANGED <<volumes, images, paths, databases, ai, files, jobs, active, drift,
                   asked, history>>

\* Mutant: cleanup leaves a source that the unit started.
NotCleanedUp == containers

\* cleanup stops the source by its id when the unit had started it.
CleanedUp == IF backup.started THEN Stopped("postgres", backup.request[2]) ELSE containers

\* A stop that fails there is ignored.
CleanUp(stops) ==
    /\ ~stops => backup.started
    /\ containers' = IF stops THEN CleanedUp ELSE containers
    /\ leftRunning' = (leftRunning \/ ~stops)

\* It reads the databases of the container that has the name now, and dumps them.
ReadBackup ==
    /\ backup.live /\ backup.state = "running" /\ backup.read = {}
    /\ IF /\ "postgres" \in DOMAIN containers
          /\ containers["postgres"].state = "running"
          /\ "airflow" \in databases
       THEN /\ backup' = [backup EXCEPT !.read = databases,
                                        !.source = containers["postgres"].id]
            /\ UNCHANGED <<containers, mishaps, leftRunning>>
       ELSE \E stops \in BOOLEAN :
               /\ CleanUp(stops) /\ backup' = Backup("failed")
               /\ IF stops THEN UNCHANGED mishaps ELSE Mishap
    /\ UNCHANGED <<volumes, images, paths, databases, ai, files, jobs, active, drift,
                   asked, wanted, verified>>

\* Mutant: a restore that failed, or a dump that differs, passes.
EndBackupAnyway ==
    /\ backup.live /\ backup.state = "running" /\ backup.read # {}
    /\ \E restored, stops \in BOOLEAN :
          /\ IF restored /\ stops THEN UNCHANGED mishaps ELSE Mishap
          /\ CleanUp(stops) /\ backup' = Backup("passed")
          /\ verified' = IF restored THEN verified \union {backup.source} ELSE verified
    /\ UNCHANGED <<volumes, images, paths, databases, ai, files, jobs, active, drift,
                   asked, wanted>>

\* The dumps are restored and compared.  What fails at one time counts as one mishap.
EndBackup ==
    /\ backup.live /\ backup.state = "running" /\ backup.read # {}
    /\ \E restored, stops \in BOOLEAN :
          /\ IF restored /\ stops THEN UNCHANGED mishaps ELSE Mishap
          /\ CleanUp(stops)
          /\ backup' = Backup(IF restored THEN "passed" ELSE "failed")
          /\ verified' = IF restored THEN verified \union {backup.source} ELSE verified
    /\ UNCHANGED <<volumes, images, paths, databases, ai, files, jobs, active, drift,
                   asked, wanted>>

\* The unit is killed: its status stays, and so does a container it had started.
KillBackup ==
    /\ backup.live /\ backup.state = "running" /\ Mishap
    /\ backup' = [backup EXCEPT !.live = FALSE]
    /\ leftRunning' = (leftRunning \/ backup.started)
    /\ UNCHANGED <<host, ai, files, jobs, active, drift, asked, wanted, verified>>

\* The result is fetched, and kepler-recovery-postgres-evidence-plan accepts it.
PlanDatabase ==
    /\ inventory # None /\ backup.state = "passed"
    /\ LET ev == [inventory |-> backup.request[1], source |-> backup.request[2],
                  databases |-> backup.read]
       IN /\ DatabaseVerified(inventory, ev)
          /\ database # DatabaseManifest(ev) /\ database' = DatabaseManifest(ev)
    /\ UNCHANGED <<host, ai, inventory, pathRecords, evidence, manifest, approved, backup,
                   jobs, active, budget, history>>

\* kepler-recovery-retirement-evidence.
AssembleEvidence ==
    /\ inventory # None /\ pathRecords # None /\ database # None
    /\ Assemblable(inventory, pathRecords, database)
    /\ evidence' = Assemble(inventory, pathRecords, database)
    /\ evidence' # evidence
    /\ UNCHANGED <<host, ai, inventory, pathRecords, database, manifest, approved, backup,
                   jobs, active, budget, history>>

\* kepler-recovery-retirement-plan.
PlanRetirement ==
    /\ evidence # None /\ Accepted(inventory, evidence)
    /\ manifest # Manifest(evidence) /\ manifest' = Manifest(evidence)
    /\ UNCHANGED <<host, ai, inventory, pathRecords, database, evidence, approved, backup,
                   jobs, active, budget, history>>

\* kepler-recovery-retirement-execute: a fresh inventory replaces the old one and
\* has to be the one the manifest was approved for.
ExecuteRetirement ==
    /\ manifest # None /\ approved = None
    /\ inventory' = Now
    /\ approved' = IF Now = manifest.inventory THEN manifest ELSE None
    /\ <<inventory, approved>> # <<inventory', approved'>>
    /\ IF inventory = Now THEN UNCHANGED inventories
       ELSE inventories < MaxInventories /\ inventories' = inventories + 1
    /\ UNCHANGED <<host, ai, pathRecords, database, evidence, manifest, backup, jobs,
                   active, drift, mishaps, backups, history>>

(*************************** retirement jobs ***********************************)

JobAlone == UNCHANGED <<ai, files, backup, active, drift, asked, wanted, verified>>
JobsUnchanged == JobAlone /\ UNCHANGED leftRunning
HostUnchanged == UNCHANGED <<containers, volumes, images, paths, databases>>

Held(j) == j \in DOMAIN jobs /\ jobs[j].state \in {"pending", "running"}

\* The request of a manifest: its own if it was submitted before, else a new one.
RequestOf(m) ==
    IF \E j \in DOMAIN jobs : jobs[j].manifest = m
    THEN CHOOSE j \in DOMAIN jobs : jobs[j].manifest = m
    ELSE Len(jobs) + 1

Submitted(m, state, unit) ==
    [n \in DOMAIN jobs \union {RequestOf(m)} |->
        IF n = RequestOf(m)
        THEN [manifest |-> m, state |-> state, unit |-> unit, at |-> 1, db |-> "idle"]
        ELSE jobs[n]]

\* Mutant: another request that is held is not looked for.
SubmitBeside ==
    /\ approved # None /\ approved' = None
    /\ LET j == RequestOf(approved)
       IN IF \/ ~Preflight(approved)
             \/ j \in DOMAIN jobs /\ jobs[j].state # "failed"
          THEN UNCHANGED <<jobs, active, mishaps>>
          ELSE /\ j <= MaxJobs /\ active' = j
               /\ jobs' = Submitted(approved, "pending", "queued") /\ UNCHANGED mishaps
    /\ UNCHANGED <<host, ai, inventory, pathRecords, database, evidence, manifest, backup,
                   drift, asked, history>>

\* submit: preflight, then under the lock the file that names the active request;
\* a request that is pending, running or passed only has its state printed.
Submit ==
    /\ approved # None /\ approved' = None
    /\ LET j == RequestOf(approved)
       IN IF \/ ~Preflight(approved)
             \/ active # j /\ Held(active)
             \/ j \in DOMAIN jobs /\ jobs[j].state # "failed"
          THEN UNCHANGED <<jobs, active, mishaps>>
          ELSE /\ j <= MaxJobs /\ active' = j
               /\ \/ jobs' = Submitted(approved, "pending", "queued") /\ UNCHANGED mishaps
                  \/ jobs' = Submitted(approved, "failed", "none") /\ Mishap
    /\ UNCHANGED <<host, ai, inventory, pathRecords, database, evidence, manifest, backup,
                   drift, asked, history>>

\* execute: the execution lock is not waited for.
Execute(j) ==
    /\ jobs[j].unit = "queued"
    /\ jobs' = IF \E k \in DOMAIN jobs : jobs[k].unit = "run"
               THEN [jobs EXCEPT ![j].state = "failed", ![j].unit = "none"]
               ELSE [jobs EXCEPT ![j].state = "running", ![j].unit = "run"]
    /\ JobsUnchanged /\ HostUnchanged /\ UNCHANGED mishaps

Failed(j) == [jobs EXCEPT ![j].state = "failed", ![j].unit = "none", ![j].db = "idle"]
Advanced(j) == [jobs EXCEPT ![j].at = @ + 1, ![j].db = "idle"]

\* The action the executor of j has come to.
At(j, kinds) ==
    /\ jobs[j].unit = "run" /\ jobs[j].at <= Len(jobs[j].manifest.actions)
    /\ jobs[j].manifest.actions[jobs[j].at].kind \in kinds

Action(j) == jobs[j].manifest.actions[jobs[j].at]

\* Mutant: the container is removed by its name.
RemoveContainerByName(j) ==
    /\ At(j, {"container"})
    /\ containers' = Without({Action(j).target})
    /\ jobs' = Advanced(j)
    /\ JobsUnchanged /\ UNCHANGED <<volumes, images, paths, databases, mishaps>>

\* podman rm --force: the exact id, in whatever state; none is no error.
RemoveContainer(j) ==
    /\ At(j, {"container"})
    /\ LET a == Action(j)
       IN containers' = IF Exactly(a.target, a.id) THEN Without({a.target}) ELSE containers
    /\ jobs' = Advanced(j)
    /\ JobsUnchanged /\ UNCHANGED <<volumes, images, paths, databases, mishaps>>

RemoveDirectory(j) ==
    /\ At(j, {"path", "artifact"})
    /\ paths' = paths \ {Action(j).target}
    /\ jobs' = Advanced(j)
    /\ JobsUnchanged /\ UNCHANGED <<containers, volumes, images, databases, mishaps>>

\* podman volume rm and podman image rm fail for what is absent or in use.
RemoveVolume(j) ==
    /\ At(j, {"volume"})
    /\ LET target == Action(j).target
       IN IF \/ \A v \in volumes : v.name # target
             \/ \E n \in DOMAIN containers : target \in containers[n].mounts
          THEN jobs' = Failed(j) /\ UNCHANGED volumes
          ELSE jobs' = Advanced(j) /\ volumes' = {v \in volumes : v.name # target}
    /\ JobsUnchanged /\ UNCHANGED <<containers, images, paths, databases, mishaps>>

\* Mutant: an image that is in use is left, and the executor goes on.
RemoveImageIfUnused(j) ==
    /\ At(j, {"image"})
    /\ images' = images \ {i \in {Action(j).target} :
                                \A n \in DOMAIN containers : containers[n].image # i}
    /\ jobs' = Advanced(j)
    /\ JobsUnchanged /\ UNCHANGED <<containers, volumes, paths, databases, mishaps>>

\* Mutant: an image is removed from under its containers.
RemoveImageInUse(j) ==
    /\ At(j, {"image"})
    /\ images' = images \ {Action(j).target}
    /\ jobs' = Advanced(j)
    /\ JobsUnchanged /\ UNCHANGED <<containers, volumes, paths, databases, mishaps>>

RemoveImage(j) ==
    /\ At(j, {"image"})
    /\ LET target == Action(j).target
       IN IF \/ target \notin images
             \/ \E n \in DOMAIN containers : containers[n].image = target
          THEN jobs' = Failed(j) /\ UNCHANGED images
          ELSE jobs' = Advanced(j) /\ images' = images \ {target}
    /\ JobsUnchanged /\ UNCHANGED <<containers, volumes, paths, databases, mishaps>>

\* The database goes from the exact guard container, started for it if need be.
OpenDatabase(j) ==
    /\ At(j, {"database"}) /\ jobs[j].db = "idle"
    /\ LET id == Action(j).id
       IN IF Exactly("postgres", id)
          THEN /\ jobs' = [jobs EXCEPT ![j].db = IF Running("postgres", id)
                                                 THEN "found" ELSE "started"]
               /\ containers' = InState("postgres", "running")
          ELSE jobs' = Failed(j) /\ UNCHANGED containers
    /\ JobsUnchanged /\ UNCHANGED <<volumes, images, paths, databases, mishaps>>

\* A drop that fails stops what the executor had started; that the stop fails is ignored.
DropDatabase(j) ==
    /\ At(j, {"database"}) /\ jobs[j].db \in {"found", "started"}
    /\ LET id == Action(j).id
       IN \/ /\ Running("postgres", id)
             /\ databases' = databases \ {Action(j).target}
             /\ jobs' = IF jobs[j].db = "started"
                        THEN [jobs EXCEPT ![j].db = "dropped"] ELSE Advanced(j)
             /\ UNCHANGED <<containers, mishaps, leftRunning>>
          \/ \E stops \in BOOLEAN :
                /\ ~stops => jobs[j].db = "started"
                /\ IF Running("postgres", id) \/ ~stops THEN Mishap ELSE UNCHANGED mishaps
                /\ containers' = IF jobs[j].db = "started" /\ stops
                                 THEN Stopped("postgres", id) ELSE containers
                /\ leftRunning' = (leftRunning \/ ~stops)
                /\ jobs' = Failed(j)
                /\ UNCHANGED databases
    /\ JobAlone /\ UNCHANGED <<volumes, images, paths>>

\* The stop of what the executor had started: if it fails, so does the executor.
CloseDatabase(j) ==
    /\ At(j, {"database"}) /\ jobs[j].db = "dropped"
    /\ LET id == Action(j).id
       IN \/ /\ Exactly("postgres", id)
             /\ containers' = Stopped("postgres", id) /\ jobs' = Advanced(j)
             /\ UNCHANGED <<mishaps, leftRunning>>
          \/ /\ IF Exactly("postgres", id) THEN Mishap ELSE UNCHANGED mishaps
             /\ UNCHANGED containers /\ jobs' = Failed(j)
             /\ leftRunning' = (leftRunning \/ Exactly("postgres", id))
    /\ JobAlone /\ UNCHANGED <<volumes, images, paths, databases>>

\* podman says on the executor's output what it removed.
Prints(action) == action.kind \in {"container", "volume", "image"}

\* Every action is done: the job passes if each line of the output is one of the
\* executor's own, and else fails like one that stopped half way.
CheckOutput(j) ==
    /\ jobs[j].unit = "run" /\ jobs[j].at > Len(jobs[j].manifest.actions)
    /\ jobs' = IF \E i \in DOMAIN jobs[j].manifest.actions :
                     Prints(jobs[j].manifest.actions[i])
               THEN Failed(j)
               ELSE [jobs EXCEPT ![j].state = "passed", ![j].unit = "none"]
    /\ JobsUnchanged /\ HostUnchanged /\ UNCHANGED mishaps

\* A removal or the start of postgres fails.
FailAction(j) ==
    /\ At(j, {"container", "path", "artifact", "volume", "image", "database"})
    /\ jobs[j].db = "idle" /\ Mishap
    /\ jobs' = Failed(j)
    /\ JobsUnchanged /\ HostUnchanged

\* The unit is killed, which leaves its status and what it had started as they were.
KillUnit(j) ==
    /\ jobs[j].unit = "run" /\ Mishap
    /\ jobs' = [jobs EXCEPT ![j].unit = "none", ![j].db = "idle"]
    /\ leftRunning' = (leftRunning \/ jobs[j].db \in {"started", "dropped"})
    /\ JobAlone /\ HostUnchanged

RunJob(j) ==
    \/ Execute(j) \/ RemoveContainer(j) \/ RemoveDirectory(j) \/ RemoveVolume(j)
    \/ RemoveImage(j) \/ OpenDatabase(j) \/ DropDatabase(j) \/ CloseDatabase(j)
    \/ CheckOutput(j)

RunBackup == BeginBackup \/ ReadBackup \/ EndBackup

Next ==
    \/ \E n \in Touched \intersect DOMAIN containers : Flip(n) \/ Recreate(n)
    \/ Borrow
    \/ CollectInventory \/ CollectPaths
    \/ \E mode \in {"run", "run-stopped"} : SubmitBackup(mode)
    \/ RunBackup \/ KillBackup
    \/ PlanDatabase \/ AssembleEvidence \/ PlanRetirement \/ ExecuteRetirement \/ Submit
    \/ \E j \in DOMAIN jobs : RunJob(j) \/ FailAction(j) \/ KillUnit(j)
    \/ AiNext /\ UNCHANGED <<volumes, databases, files, backup, jobs, active, budget, history>>

Spec == Init /\ [][Next]_vars

(******************************** properties ***********************************)

\* Type invariant.
TypeOK ==
    /\ \A n \in DOMAIN containers :
          /\ containers[n].state \in {"running", "exited"}
          /\ containers[n].image \in images
    /\ \A j \in DOMAIN jobs :
          /\ jobs[j].state \in {"pending", "running", "passed", "failed"}
          /\ jobs[j].at \in 1..Len(jobs[j].manifest.actions) + 1
    /\ active \in 0..Len(jobs)

\* A legacy container, or a retired one that runs: quiesce refuses it, and reconcile
\* does not look at it.
Unjudged(inv) ==
    \E n \in DOMAIN inv.containers :
        LET c == inv.containers[n]
        IN \/ c.project = "homelab"
           \/ c.state = "running" /\ RetiredFamilies(n, c) # {}

\* What the planners say of one inventory agrees, although each has its own checks
\* and lists.  An inventory that asks for a quiesce is not ready to migrate; one that
\* is ready has nothing to quiesce, unless it has what only quiesce refuses; one that
\* has converged holds nothing retired.  And a retirement manifest removes every
\* container that reconcile would retire.  In one thing they do not: a running Redis is
\* backed up with an approval to quiesce it, which is bound to the inventory but need
\* not be what quiesce rendered; and of an inventory with the legacy Redis that the
\* backup asks for, running or not, quiesce renders nothing: it halts at the labels.
Agree(desired, inv) ==
    /\ Quiesce(desired, inv) = "ready" => Reconcile(desired, inv, "migration") = "halt"
    /\ Reconcile(desired, inv, "migration") = "ready" =>
          Unjudged(inv) \/ Quiesce(desired, inv) = "nothing-to-quiesce"
    /\ Reconcile(desired, inv, "audit") = "converged" =>
          SelectedRetired(inv) = {} /\ Quiesce(desired, inv) = "ready"
    /\ RedisPlanned(inv, TRUE) => Quiesce(desired, inv) = "halt"

RetiresAll(desired, m) ==
    \A n \in DOMAIN m.inventory.containers :
        Classification(desired, n, m.inventory.containers[n], "migration") = "retire" =>
            \E i \in DOMAIN m.actions : m.actions[i].target = n

PlannersAgree ==
    \A identities \in BOOLEAN :
        /\ inventory # None => Agree(Desired(identities), inventory)
        /\ manifest # None => RetiresAll(Desired(identities), manifest)

\* Nothing goes from the host but what was approved: a container of the approved AI
\* stack, or one that a running retirement's inventory held, under that id and not
\* running; volumes of the retired families; and no image that a container uses.
OnlyApprovedGoes ==
    [][/\ \A n \in DOMAIN containers \ DOMAIN containers' :
             \/ n \in ApprovedPresent
             \/ \E j \in DOMAIN jobs :
                   LET inv == jobs[j].manifest.inventory
                   IN /\ jobs[j].unit = "run"
                      /\ n \in (RetiredNames \union Training) \intersect DOMAIN inv.containers
                      /\ inv.containers[n].id = containers[n].id
                      /\ inv.containers[n].state = "exited"
       /\ \A v \in volumes \ volumes' : \E f \in Families :
             v.project = VolumeProject[f] /\ v.logical \in FamilyVolumes[f]
       /\ \A n \in DOMAIN containers' : containers'[n].image \in images']_vars

\* A retirement whose executor came to the end left nothing of its manifest, whatever
\* failed, was killed and was submitted again before.  The status does not tell: it
\* reads failed like that of one which stopped half way.
FinishedIsComplete ==
    \A j \in DOMAIN jobs :
        jobs[j].at > Len(jobs[j].manifest.actions) =>
            \A i \in DOMAIN jobs[j].manifest.actions :
                LET a == jobs[j].manifest.actions[i]
                IN CASE a.kind = "container" -> ~Exactly(a.target, a.id)
                     [] a.kind = "volume" -> \A v \in volumes : v.name # a.target
                     [] a.kind = "image" -> a.target \notin images
                     [] a.kind = "database" -> a.target \notin databases
                     [] OTHER -> a.target \notin paths

\* The Airflow database is dropped only from a container whose retained databases
\* were dumped, and whose dumps were restored and found the same: the claim travels
\* from the evidence job, which may fail after the dump, through the database
\* manifest, the evidence and the retirement manifest to the executor, while
\* deployments replace postgres.
DropIsBacked ==
    [][databases' # databases => containers["postgres"].id \in verified]_vars

\* Neither the evidence job nor a retirement stops a postgres that people and
\* deployments left running, whatever fails and however the two, which share no lock,
\* overlap; and one that they left stopped is stopped again, unless a stop failed
\* after the unit had started it, or the unit was killed.  Nothing is said once they
\* changed it while a unit worked on it.
PostgresAsFound ==
    ~PostgresInUse /\ wanted # "unknown" =>
        \/ containers["postgres"].state = wanted
        \/ wanted = "exited" /\ leftRunning

\* There is one retirement at a time: the active file keeps a second request from
\* being accepted before its unit would find the execution locked.
OneAtATime ==
    \A j, k \in DOMAIN jobs : Held(j) /\ Held(k) => j = k

\* A retirement that stopped half way can be planned again from fresh evidence, and
\* the executor would take that plan, as long as it had not come to the database and
\* the dispositions: what is gone of the families and their resources does not matter.
Replannable ==
    LET db == [inventory |-> Now, source |-> containers["postgres"].id]
        records == PathRecords(paths)
    IN /\ DOMAIN jobs # {} /\ \A j \in DOMAIN jobs : jobs[j].unit = "none"
       /\ "airflow" \in databases /\ F5Path \in paths /\ F5Images(Now) # {}
       /\ Training \subseteq DOMAIN containers /\ F5 \notin DOMAIN containers
       /\ \A n \in (RetiredNames \union Training) \intersect DOMAIN containers :
             containers[n].state = "exited"
       => /\ Assemblable(Now, records, db)
          /\ Accepted(Now, Assemble(Now, records, db))
          /\ Preflight(Manifest(Assemble(Now, records, db)))
================================================================================
