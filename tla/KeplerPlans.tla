------------------------------ MODULE KeplerPlans ------------------------------
(* The planners of the Kepler collision recovery: what each of them accepts and *)
(* renders for an inventory of the host.  None of them changes anything; each    *)
(* binds its output to the inventory it read by that inventory's SHA-256, which  *)
(* is the inventory itself here.                                                 *)
(*                                                                               *)
(* A container is a record [id, state, project, service, image, mounts,          *)
(* network]; its name is unique on a host.  An image is its identity (podman's   *)
(* Id); it has one digest, and a name made of its repository.  A mount is the    *)
(* path or the volume it shows.  Of containers, paths and volumes that the code  *)
(* treats alike one stands for all: airflow-worker for the five of Airflow,      *)
(* ha-train-run for the three training containers, /bulk/git for the four of     *)
(* GitLab.                                                                       *)
EXTENDS Naturals, SequencesExt

CONSTANTS
    Repository,   \* image |-> the repository it was pulled from or built as
    Declared,     \* container_name |-> the service of the pinned servarr commit
    Legacy,       \* container_name |-> its reviewed legacy image and mounts
    InSnapshot    \* the paths inside the ZFS datasets

\* generate only renders the two stacks, each under its own project name, and quiesce
\* refuses a service of another project.
ASSUME DeclaredAssumption ==
    \A n \in DOMAIN Declared : Declared[n].project \in {"docs-search", "infra"}

Families == {"airflow", "gitlab", "restate"}

FamilyContainers == [airflow |-> {"airflow-worker"},
                     gitlab  |-> {"gitlab", "gitlab-runner"},
                     restate |-> {"restate"}]

FamilyPaths == [airflow |-> {"/fast/apps/airflow/dags"},
                gitlab  |-> {"/bulk/git"},
                restate |-> {}]

\* Logical names; the runtime name is compose's project_logical.
FamilyVolumes == [airflow |-> {"airflow_logs"}, gitlab |-> {}, restate |-> {"restate_data"}]

VolumeProject == [airflow |-> "airflow", gitlab |-> "gitlab", restate |-> "orchestration"]

FamilyRepositories == [airflow |-> {"apache/airflow"},
                       gitlab  |-> {"gitlab/gitlab-ce", "gitlab/gitlab-runner"},
                       restate |-> {"restatedev/restate"}]

RetiredNames == UNION {FamilyContainers[f] : f \in Families}
Training == {"ha-train-run"}
F5 == "f5-tts-server"
Dispositions == Training \union {F5}
F5Path == "/fast/ai-models/f5-tts"
F5Repository == "kepler/f5-tts-server"

(***************************** the inventory ***********************************)

\* collect_fixture: what the read-only collection saw, in one envelope.
Snapshot(containers, volumes, images) ==
    [containers |-> containers, volumes |-> volumes, images |-> images]

\* The two identities of its image under which a container is listed in
\* references.images: the name it was created from and the image's digest.
ImageKeys(image) == {<<"name", Repository[image]>>, <<"digest", image>>}

ImageUsers(inv, key) ==
    {n \in DOMAIN inv.containers : key \in ImageKeys(inv.containers[n].image)}

VolumeUsers(inv, volume) ==
    {n \in DOMAIN inv.containers : volume \in inv.containers[n].mounts}

VolumeNames(inv) == {v.name : v \in inv.volumes}

\* What the probe of the reviewed retirement paths records as existing.
PathRecords(paths) ==
    paths \intersect ({F5Path} \union UNION {FamilyPaths[f] : f \in Families})

(******************************* the desired state *****************************)

\* generate: the services of the pinned commit; identities says whether it was
\* given the envelope with the recorded identities of the model artifacts.
Desired(identities) == [services |-> Declared, identities |-> identities]

\* A service's image is pinned by its registry digest or by recorded provenance.
Pinned(service) == service.pin \in {"registry", "local"}

\* A service that mounts a model artifact needs the artifact's recorded identity.
ModelsIdentified(desired, n) == desired.services[n].models => desired.identities

(******************************** reconcile ************************************)

\* The family that owns an undeclared container by its exact labels.
RetiredFamilies(n, c) == {f \in Families : /\ c.project = f
                                           /\ n \in FamilyContainers[f]
                                           /\ c.service = n}

Diffs(desired, n, c) ==
    LET s == desired.services[n]
    IN {field \in {"labels", "mounts", "networks"} :
            \/ field = "labels" /\ <<c.project, c.service>> # <<s.project, s.service>>
            \/ field = "mounts" /\ c.mounts # s.mounts
            \/ field = "networks" /\ c.network # s.network}

ProvenanceGap(desired, n, c, runtime) ==
    \/ ~ModelsIdentified(desired, n)
    \/ ~Pinned(desired.services[n])
    \/ runtime /\ c.image # desired.services[n].image

\* The reviewed mapping of a legacy container's mounts to the declared ones.
LegacyMounts(desired, n, c) ==
    IF n \in DOMAIN Legacy
    THEN c.mounts = Legacy[n].mounts /\ Legacy[n].becomes = desired.services[n].mounts
    ELSE c.mounts = desired.services[n].mounts

LegacyImage(n, c) == n \in DOMAIN Legacy /\ c.image = Legacy[n].image

LegacyExact(desired, n, c) ==
    /\ desired.services[n].project = "infra"
    /\ c.service = desired.services[n].service
    /\ Diffs(desired, n, c) \subseteq {"labels", "mounts"}
    /\ LegacyMounts(desired, n, c)
    /\ LegacyImage(n, c)
    /\ ~ProvenanceGap(desired, n, c, FALSE)

\* A stopped declared container that the migration may replace.
Migrates(desired, n, c) ==
    /\ c.state = "exited"
    /\ c.project # "" /\ c.service # ""
    /\ IF c.project = "homelab"
       THEN LegacyExact(desired, n, c)
       ELSE Diffs(desired, n, c) = {}

\* A declared container as the audit after the recovery wants it.
Converged(desired, n, c) ==
    /\ c.state = "running"
    /\ Diffs(desired, n, c) = {}
    /\ ~ProvenanceGap(desired, n, c, c.project # "homelab")

Classification(desired, n, c, mode) ==
    IF n \notin DOMAIN desired.services
    THEN IF RetiredFamilies(n, c) # {} /\ mode = "migration" THEN "retire" ELSE "halt"
    ELSE IF mode = "migration"
    THEN IF Migrates(desired, n, c) THEN "migrate" ELSE "halt"
    ELSE IF Converged(desired, n, c) THEN "none" ELSE "halt"

\* A persistent mount is inside a dataset; only the declared Redis volume need not be.
Covered(inv, n, mount) ==
    \/ mount \in InSnapshot
    \/ n = "redis" /\ mount = "infra_redis_data" /\ mount \in VolumeNames(inv)

Gap(desired, inv, n) ==
    LET c == inv.containers[n]
    IN \/ ProvenanceGap(desired, n, c, c.project # "homelab")
       \/ \E mount \in desired.services[n].mounts : ~Covered(inv, n, mount)

Reconcile(desired, inv, mode) ==
    LET present == DOMAIN inv.containers
        declared == DOMAIN desired.services
    IN IF \/ \E n \in present :
                Classification(desired, n, inv.containers[n], mode) = "halt"
          \/ \E n \in present \intersect declared : Gap(desired, inv, n)
          \/ mode = "audit" /\ ~(declared \subseteq present)
       THEN "halt"
       ELSE IF mode = "audit" THEN "converged" ELSE "ready"

SelectedRetired(inv) ==
    UNION {RetiredFamilies(n, inv.containers[n]) : n \in DOMAIN inv.containers}

(***************************** quiesce and Redis *******************************)

\* Mutant: the labels of a declared container are not compared.
QuiesceHaltsUnlabelled(desired, inv) ==
    \E n \in DOMAIN inv.containers \ DOMAIN desired.services :
        LET c == inv.containers[n]
        IN RetiredFamilies(n, c) = {} \/ c.state = "running"

QuiesceHalts(desired, inv) ==
    \E n \in DOMAIN inv.containers :
        LET c == inv.containers[n]
        IN IF n \in DOMAIN desired.services
           THEN <<c.project, c.service>> #
                    <<desired.services[n].project, desired.services[n].service>>
           ELSE RetiredFamilies(n, c) = {} \/ c.state = "running"

\* The running containers of a stack, which the approved plan would stop.
QuiesceStack(desired, inv, stack) ==
    {n \in DOMAIN inv.containers \intersect DOMAIN desired.services :
        inv.containers[n].state = "running" /\ desired.services[n].project = stack}

Quiesce(desired, inv) ==
    CASE QuiesceHalts(desired, inv) -> "halt"
      [] OTHER -> IF \A stack \in {"docs-search", "infra"} :
                        QuiesceStack(desired, inv, stack) = {}
                  THEN "nothing-to-quiesce"
                  ELSE "ready"

OwnedVolume(inv, name, project) ==
    \E v \in inv.volumes : v.name = name /\ v.project = project

RedisSource(inv) ==
    /\ "redis" \in DOMAIN inv.containers
    /\ LET c == inv.containers["redis"]
       IN c.project = "homelab" /\ c.service = "redis" /\ c.mounts = {"homelab_redis_data"}

\* The Redis backup plan: the legacy source is stopped, or its stop is approved, which is
\* whatever envelope is well-formed, carries its own SHA-256 and the
\* inventory's, and lists this Redis in its infra stack: quiesce is not asked again.
RedisPlanned(inv, enveloped) ==
    /\ OwnedVolume(inv, "homelab_redis_data", "homelab")
    /\ OwnedVolume(inv, "infra_redis_data", "infra")
    /\ RedisSource(inv)
    /\ VolumeUsers(inv, "homelab_redis_data") = {"redis"}
    /\ \/ inv.containers["redis"].state = "running" /\ enveloped
       \/ inv.containers["redis"].state = "exited"

(**************************** database evidence ********************************)

\* Evidence [inventory, source, databases] is for this inventory and its postgres.
SourceBound(inv, ev) ==
    /\ ev.inventory = inv
    /\ "postgres" \in DOMAIN inv.containers
    /\ ev.source = inv.containers["postgres"].id

\* The restored databases are all of the cluster's but Airflow's, and that one is there.
Coverage(ev) == "airflow" \in ev.databases /\ ev.databases # {"airflow"}

DatabaseVerified(inv, ev) == SourceBound(inv, ev) /\ Coverage(ev)

DatabaseManifest(ev) ==
    [inventory |-> ev.inventory, source |-> ev.source,
     retained |-> ev.databases \ {"airflow"}]

(*************************** retirement evidence *******************************)

FamilyImages(inv, f) == {i \in inv.images : Repository[i] \in FamilyRepositories[f]}

FamilyRuntimeVolumes(inv, f, logical) ==
    {v \in inv.volumes : v.project = VolumeProject[f] /\ v.logical = logical}

FamilyResources(inv, paths, f) ==
    [containers |-> FamilyContainers[f] \intersect DOMAIN inv.containers,
     paths      |-> FamilyPaths[f] \intersect paths,
     volumes    |-> UNION {FamilyRuntimeVolumes(inv, f, l) : l \in FamilyVolumes[f]},
     databases  |-> IF f = "airflow" THEN {"airflow"} ELSE {},
     secrets    |-> {},
     images     |-> FamilyImages(inv, f)]

F5Images(inv) == {i \in inv.images : Repository[i] = F5Repository}

\* Mutant: every volume of the families has to be there.
AssemblableWhole(inv, paths, db) ==
    /\ db.inventory = inv
    /\ \A f \in Families : \A l \in FamilyVolumes[f] :
          Cardinality(FamilyRuntimeVolumes(inv, f, l)) = 1
    /\ Training \subseteq DOMAIN inv.containers
    /\ F5Path \in paths
    /\ Cardinality(F5Images(inv)) = 1

\* What must be there for the evidence to be assembled at all: every training
\* container, the model path and one F5 image.  The retired families need not be.
Assemblable(inv, paths, db) ==
    /\ db.inventory = inv
    /\ \A f \in Families : \A l \in FamilyVolumes[f] :
          Cardinality(FamilyRuntimeVolumes(inv, f, l)) <= 1
    /\ Training \subseteq DOMAIN inv.containers
    /\ F5Path \in paths
    /\ Cardinality(F5Images(inv)) = 1

Assemble(inv, paths, db) ==
    [inventory    |-> inv,
     families     |-> [f \in Families |-> FamilyResources(inv, paths, f)],
     dispositions |-> Dispositions \intersect DOMAIN inv.containers,
     f5image      |-> CHOOSE i \in F5Images(inv) : TRUE,
     source       |-> db.source]

(***************************** retirement plan *********************************)

\* A container is retired stopped, except the F5 server, which is retired running.
Retirable(n, c) == c.state = (IF n = F5 THEN "running" ELSE "exited")

\* No container outside the family is listed under the image's identity.
FamilyUnshared(evidence, f) ==
    \A i \in evidence.families[f].images :
        ImageUsers(evidence.inventory, <<"id", i>>) \subseteq evidence.families[f].containers

F5Unshared(evidence) ==
    ImageUsers(evidence.inventory, <<"id", evidence.f5image>>) =
        {F5} \intersect DOMAIN evidence.inventory.containers

Accepted(inv, evidence) ==
    /\ evidence.inventory = inv
    /\ \A f \in Families :
          /\ \A n \in evidence.families[f].containers : Retirable(n, inv.containers[n])
          /\ FamilyUnshared(evidence, f)
    /\ evidence.dispositions = Dispositions \intersect DOMAIN inv.containers
    /\ \A n \in evidence.dispositions : Retirable(n, inv.containers[n])
    /\ F5Unshared(evidence)

ContainerActions(inv, names) ==
    [i \in 1..Cardinality(names) |->
        LET n == SetToSeq(names)[i]
        IN [kind |-> "container", target |-> n, id |-> inv.containers[n].id]]

\* Only a container and the container that guards a database have an id.
ResourceActions(kind, targets, id) ==
    [i \in 1..Cardinality(targets) |->
        [kind |-> kind, target |-> SetToSeq(targets)[i], id |-> id]]

FamilyActions(evidence, f) ==
    LET r == evidence.families[f]
    IN ContainerActions(evidence.inventory, r.containers)
       \o ResourceActions("path", r.paths, 0)
       \o ResourceActions("volume", {v.name : v \in r.volumes}, 0)
       \o ResourceActions("database", r.databases, evidence.source)
       \o ResourceActions("secret", r.secrets, 0)
       \o ResourceActions("image", r.images, 0)

DispositionActions(evidence) ==
    ContainerActions(evidence.inventory, evidence.dispositions)
    \o ResourceActions("artifact", {F5Path}, 0)
    \o ResourceActions("image", {evidence.f5image}, 0)

Manifest(evidence) ==
    [inventory |-> evidence.inventory,
     actions   |-> FamilyActions(evidence, "airflow")
                   \o FamilyActions(evidence, "gitlab")
                   \o FamilyActions(evidence, "restate")
                   \o DispositionActions(evidence)]

(*************************** the executor's preflight **************************)

\* The executor's own allowlist, written apart from the planner's.
Allowed(action) ==
    CASE action.kind = "container" -> TRUE
      [] action.kind = "volume" ->
            action.target \in {"airflow_airflow_logs", "orchestration_restate_data"}
      [] action.kind = "path" -> action.target \in {"/bulk/git", "/fast/apps/airflow/dags"}
      [] action.kind = "artifact" -> action.target = "/fast/ai-models/f5-tts"
      [] action.kind = "image" -> TRUE
      [] action.kind = "database" -> action.target = "airflow"
      [] OTHER -> FALSE

Preflight(manifest) ==
    manifest.actions # <<>> /\ \A i \in DOMAIN manifest.actions : Allowed(manifest.actions[i])
================================================================================
