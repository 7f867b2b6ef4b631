--------------------------- MODULE KeplerHostProofs ---------------------------
(***************************************************************************)
(* What the recovery leaves of every host: what may go from it, what the   *)
(* AI stack and its images keep, and how postgres is found again.          *)
(***************************************************************************)
EXTENDS KeplerProofs

-----------------------------------------------------------------------------
(* The inductive invariant. *)

\* An inventory has every volume there still is, each under its own name.
Whole(inv) ==
    /\ volumes \subseteq inv.volumes
    /\ \A u, v \in inv.volumes : u.name = v.name => u = v

\* A volume of a retired family.
Retiring(v, f) == v.project = VolumeProject[f] /\ v.logical \in FamilyVolumes[f]

\* What a retirement may do to a host that was inventoried.
Owns(inv, a) ==
    /\ a.kind = "container" =>
          /\ a.target \in (RetiredNames \union Training) \intersect DOMAIN inv.containers
          /\ inv.containers[a.target].id = a.id
          /\ inv.containers[a.target].state = "exited"
    /\ a.kind = "volume" =>
          \E v \in inv.volumes, f \in Families : v.name = a.target /\ Retiring(v, f)
    /\ a.kind = "image" => a.target \notin ApprovedImages
    /\ a.kind \in {"path", "artifact"} => a.target # AiPath

Owned(m) ==
    /\ Whole(m.inventory)
    /\ \A i \in DOMAIN m.actions : Owns(m.inventory, m.actions[i])

\* What the evidence lists was taken from its inventory, family by family.
Drawn(e) ==
    /\ Whole(e.inventory)
    /\ \A f \in Families :
          LET r == e.families[f]
          IN /\ r.containers \subseteq FamilyContainers[f]
             /\ r.paths \subseteq FamilyPaths[f]
             /\ \A v \in r.volumes : v \in e.inventory.volumes /\ Retiring(v, f)
             /\ \A i \in r.images : Repository[i] \in FamilyRepositories[f]
    /\ Repository[e.f5image] = F5Repository

FilesOwn ==
    /\ inventory # None => Whole(inventory)
    /\ evidence # None => Drawn(evidence)
    /\ manifest # None => Owned(manifest)
    /\ approved # None => Owned(approved)

\* Postgres, the volumes and the images of the containers are there.
HostOwn ==
    /\ "postgres" \in DOMAIN containers
    /\ \A n \in DOMAIN containers : containers[n].image \in images
    /\ \A u, v \in volumes : u.name = v.name => u = v

\* What a call of the AI retirement has observed is still so when it removes.
AiInv ==
    /\ AiStages
    /\ \A n \in DOMAIN containers \intersect DOMAIN ApprovedAi :
          containers[n].image = ApprovedAi[n].image
    /\ ai.stage = "remove-images" =>
          /\ ai.images \subseteq ApprovedImages
          /\ DOMAIN containers \intersect DOMAIN ApprovedAi = {}
          /\ \A n \in DOMAIN containers : containers[n].image \notin ApprovedImages
    /\ ai.stage = "remove-path" => ApprovedImages \intersect images = {}

\* An executor is within its manifest, and works on the database only there.
Placed(r) ==
    /\ r.at <= Len(r.manifest.actions) + 1
    /\ r.db # "idle" =>
          /\ r.unit = "run" /\ r.at <= Len(r.manifest.actions)
          /\ r.manifest.actions[r.at].kind = "database"

\* The requests are numbered, and the active file names one of them.
JobsOwn ==
    /\ \E n \in Nat : DOMAIN jobs = 1 .. n /\ active \in 0 .. n
    /\ \A j \in DOMAIN jobs : Placed(jobs[j]) /\ Owned(jobs[j].manifest)

OwnInv == HostOwn /\ FilesOwn /\ AiInv /\ JobsOwn

-----------------------------------------------------------------------------
(* The retirement plan. *)

\* An image of a family or of the F5 server is none of the AI stack's.
LEMMA ImagesApart ==
    ASSUME NEW i, \/ Repository[i] = F5Repository
                  \/ \E f \in Families : Repository[i] \in FamilyRepositories[f]
    PROVE  i \notin ApprovedImages
  BY HostAssumption DEF ApprovedImages

\* A plan is only accepted without an F5 server, and with the rest stopped.
LEMMA AcceptedStopped ==
    ASSUME NEW inv, NEW e, Accepted(inv, e), Drawn(e)
    PROVE  /\ e.inventory = inv
           /\ \A f \in Families : \A n \in e.families[f].containers :
                 n \in RetiredNames /\ inv.containers[n].state = "exited"
           /\ \A n \in e.dispositions :
                 n \in Training /\ inv.containers[n].state = "exited"
  <1>1. e.inventory = inv
    BY DEF Accepted
  <1>2. ASSUME NEW f \in Families, NEW n \in e.families[f].containers
        PROVE  n \in RetiredNames /\ inv.containers[n].state = "exited"
    <2>1. n \in FamilyContainers[f] /\ Retirable(n, inv.containers[n])
      BY <1>2 DEF Drawn, Accepted
    <2>2. n # F5
      BY <2>1 DEF FamilyContainers, Families, F5
    <2>3. QED
      BY <2>1, <2>2 DEF RetiredNames, Retirable
  <1>3. F5 \notin DOMAIN inv.containers
    <2>1. ImageUsers(inv, <<"id", e.f5image>>) = {}
      BY DEF ImageUsers, ImageKeys
    <2>2. QED
      BY <1>1, <2>1 DEF Accepted, F5Unshared
  <1>4. ASSUME NEW n \in e.dispositions
        PROVE  n \in Training /\ inv.containers[n].state = "exited"
    <2>1. n \in Dispositions \intersect DOMAIN inv.containers
          /\ Retirable(n, inv.containers[n])
      BY <1>4 DEF Accepted
    <2>2. QED
      BY <1>3, <2>1 DEF Dispositions, Retirable
  <1>5. QED
    BY <1>1, <1>2, <1>4

\* Whatever the evidence is, a manifest made of it once it was accepted does
\* nothing but what a retirement may do.
LEMMA ManifestOwned ==
    ASSUME NEW inv, NEW e, Evident(e), Drawn(e), Accepted(inv, e)
    PROVE  Owned(Manifest(e))
  <1>1. e.inventory = inv
    BY AcceptedStopped
  <1>2. ASSUME NEW names, names \subseteq DOMAIN inv.containers,
               \A n \in names : /\ n \in RetiredNames \union Training
                                /\ inv.containers[n].state = "exited",
               NEW a \in ContainerDrafts(inv, names)
        PROVE  Owns(inv, a)
    BY <1>2 DEF ContainerDrafts, Owns
  <1>3. ASSUME NEW kind \in {"path", "volume", "database", "secret", "image",
                             "artifact"},
               NEW targets, NEW id,
               \A t \in targets :
                  /\ kind = "volume" => \E v \in inv.volumes, f \in Families :
                                           v.name = t /\ Retiring(v, f)
                  /\ kind = "image" => t \notin ApprovedImages
                  /\ kind \in {"path", "artifact"} => t # AiPath,
               NEW a \in Drafts(kind, targets, id)
        PROVE  Owns(inv, a)
    BY <1>3 DEF Drafts, Owns
  <1>4. ASSUME NEW f \in Families, NEW a \in FamilyDrafts(e, f)
        PROVE  Owns(inv, a)
    <2> DEFINE r == e.families[f]
               volumeNames == {v.name : v \in r.volumes}
    <2>1. CASE a \in ContainerDrafts(inv, r.containers)
      <3>1. r.containers \subseteq DOMAIN inv.containers
        BY <1>1 DEF Evident
      <3>2. QED
        BY <1>2, <2>1, <3>1, AcceptedStopped
    <2>2. CASE a \in Drafts("path", r.paths, 0)
      <3>1. \A t \in r.paths : t # AiPath
        BY DEF Drawn, FamilyPaths, Families, AiPath
      <3>2. QED
        BY <1>3, <2>2, <3>1
    <2>3. CASE a \in Drafts("volume", volumeNames, 0)
      <3>1. \A t \in volumeNames :
               \E v \in inv.volumes, g \in Families : v.name = t /\ Retiring(v, g)
        BY <1>1 DEF Drawn
      <3>2. QED
        BY <1>3, <2>3, <3>1
    <2>4. CASE a \in Drafts("image", r.images, 0)
      <3>1. \A t \in r.images : t \notin ApprovedImages
        BY ImagesApart DEF Drawn
      <3>2. QED
        BY <1>3, <2>4, <3>1
    <2>5. CASE a \in Drafts("database", r.databases, e.source)
               \union Drafts("secret", r.secrets, 0)
      BY <1>3, <2>5
    <2>6. QED
      BY <1>1, <1>4, <2>1, <2>2, <2>3, <2>4, <2>5 DEF FamilyDrafts
  <1>5. ASSUME NEW a \in DispositionDrafts(e)
        PROVE  Owns(inv, a)
    <2>1. CASE a \in ContainerDrafts(inv, e.dispositions)
      <3>1. e.dispositions \subseteq DOMAIN inv.containers
        BY <1>1 DEF Evident
      <3>2. QED
        BY <1>2, <2>1, <3>1, AcceptedStopped
    <2>2. CASE a \in Drafts("artifact", {F5Path}, 0)
      <3>1. F5Path # AiPath
        BY DEF F5Path, AiPath
      <3>2. QED
        BY <1>3, <2>2, <3>1
    <2>3. CASE a \in Drafts("image", {e.f5image}, 0)
      <3>1. e.f5image \notin ApprovedImages
        BY ImagesApart DEF Drawn
      <3>2. QED
        BY <1>3, <2>3, <3>1
    <2>4. QED
      BY <1>1, <1>5, <2>1, <2>2, <2>3 DEF DispositionDrafts
  <1>6. \A a \in ManifestDrafts(e) : Owns(inv, a)
    BY <1>4, <1>5 DEF ManifestDrafts, Families
  <1>7. Manifest(e).actions \in Seq(ManifestDrafts(e))
    BY ManifestListed DEF Lists, Evident
  <1>8. Manifest(e).inventory = inv /\ Whole(inv)
    BY <1>1 DEF Manifest, Drawn
  <1>9. QED
    BY <1>6, <1>7, <1>8 DEF Owned

\* The evidence is drawn from the inventory it is assembled for.
LEMMA AssembledDrawn ==
    ASSUME NEW inv, NEW records, NEW db, Whole(inv),
           Assemblable(inv, records, db)
    PROVE  Drawn(Assemble(inv, records, db))
  <1> DEFINE e == Assemble(inv, records, db)
  <1>1. ASSUME NEW f \in Families
        PROVE  LET r == FamilyResources(inv, records, f)
               IN /\ r.containers \subseteq FamilyContainers[f]
                  /\ r.paths \subseteq FamilyPaths[f]
                  /\ \A v \in r.volumes : v \in inv.volumes /\ Retiring(v, f)
                  /\ \A i \in r.images : Repository[i] \in FamilyRepositories[f]
    BY DEF FamilyResources, FamilyRuntimeVolumes, FamilyImages, Retiring
  <1>2. Repository[CHOOSE i \in F5Images(inv) : TRUE] = F5Repository
    <2>1. F5Images(inv) # {}
      BY FS_EmptySet DEF Assemblable
    <2>2. QED
      BY <2>1 DEF F5Images
  <1>3. /\ e.inventory = inv
        /\ e.families = [f \in Families |-> FamilyResources(inv, records, f)]
        /\ e.f5image = CHOOSE i \in F5Images(inv) : TRUE
    BY DEF Assemble
  <1> HIDE DEF e
  <1>4. QED
    BY <1>1, <1>2, <1>3 DEF Drawn, e

-----------------------------------------------------------------------------
(* What a step takes from the host. *)

\* The steps that take something away, by what they take.
LEMMA WhatGoes ==
    ASSUME Next
    PROVE  /\ \/ DOMAIN containers \subseteq DOMAIN containers'
              \/ \E j \in DOMAIN jobs : RemoveContainer(j)
              \/ RemoveContainers \/ RemoveImages
           /\ volumes' = volumes \/ \E j \in DOMAIN jobs : RemoveVolume(j)
           /\ images' = images \/ (\E j \in DOMAIN jobs : RemoveImage(j))
              \/ RemoveImages
           /\ paths' = paths \/ (\E j \in DOMAIN jobs : RemoveDirectory(j))
              \/ RemovePath
           /\ ai' = ai \/ AiNext
  <1> DEFINE Same == UNCHANGED <<volumes, images, paths, ai>>
             Kept == DOMAIN containers \subseteq DOMAIN containers'
  <1>1. CASE (\E n \in Touched \intersect DOMAIN containers :
                Flip(n) \/ Recreate(n)) \/ Borrow
    <2>1. Same
      BY <1>1 DEF Flip, Recreate, Borrow, Changed
    <2>2. Kept
      BY <1>1 DEF Flip, Recreate, Borrow, InState
    <2>3. QED
      BY <2>1, <2>2
  <1>2. CASE CollectInventory \/ CollectPaths \/ PlanDatabase
             \/ AssembleEvidence \/ PlanRetirement \/ ExecuteRetirement
             \/ Submit
             \/ \E mode \in {"run", "run-stopped"} : SubmitBackup(mode)
    <2>1. UNCHANGED <<containers, volumes, images, paths, ai>>
      BY <1>2 DEF CollectInventory, CollectPaths, PlanDatabase,
         AssembleEvidence, PlanRetirement, ExecuteRetirement, Submit,
         SubmitBackup, host
    <2>2. QED
      BY <2>1
  <1>3. CASE RunBackup \/ KillBackup
    <2>1. Same
      BY <1>3 DEF RunBackup, KillBackup, BeginBackup, ReadBackup, EndBackup,
         host
    <2>2. Kept
      BY <1>3 DEF RunBackup, KillBackup, BeginBackup, ReadBackup, EndBackup,
         host, CleanUp, CleanedUp, Stopped, InState
    <2>3. QED
      BY <2>1, <2>2
  <1>4. CASE \E j \in DOMAIN jobs : JobStep(j)
    <2>1. PICK j \in DOMAIN jobs : JobStep(j)
      BY <1>4
    <2>2. CASE RemoveContainer(j)
      BY <2>2 DEF RemoveContainer, JobsUnchanged, JobAlone
    <2>3. CASE RemoveDirectory(j)
      BY <2>3 DEF RemoveDirectory, JobsUnchanged, JobAlone
    <2>4. CASE RemoveVolume(j)
      BY <2>4 DEF RemoveVolume, JobsUnchanged, JobAlone
    <2>5. CASE RemoveImage(j)
      BY <2>5 DEF RemoveImage, JobsUnchanged, JobAlone
    <2>6. CASE OpenDatabase(j) \/ DropDatabase(j) \/ CloseDatabase(j)
      <3>1. Same
        BY <2>6 DEF OpenDatabase, DropDatabase, CloseDatabase, JobsUnchanged,
           JobAlone
      <3>2. Kept
        BY <2>6 DEF OpenDatabase, DropDatabase, CloseDatabase, Stopped, InState
      <3>3. QED
        BY <3>1, <3>2
    <2>7. CASE Execute(j) \/ CheckOutput(j) \/ FailAction(j) \/ KillUnit(j)
      BY <2>7 DEF Execute, CheckOutput, FailAction, KillUnit, JobsUnchanged,
         JobAlone, HostUnchanged
    <2>8. QED
      BY <2>1, <2>2, <2>3, <2>4, <2>5, <2>6, <2>7 DEF JobStep, RunJob
  <1>5. CASE AiNext /\ UNCHANGED <<volumes, databases, files, backup, jobs,
                                   active, budget, history>>
    <2>1. volumes' = volumes /\ AiNext
      BY <1>5
    <2>2. /\ Kept \/ RemoveContainers \/ RemoveImages
          /\ images' = images \/ RemoveImages
          /\ paths' = paths \/ RemovePath
      BY <2>1 DEF AiNext, Observe, RemoveContainers, RemoveImages, RemovePath
    <2>3. QED
      BY <2>1, <2>2
  <1>6. QED
    BY <1>1, <1>2, <1>3, <1>4, <1>5 DEF Next, JobStep

\* No container changes its image, and the only new one is the stranger's.
Borrowed(n) ==
    n = "stranger" /\ containers'[n].image \in FamilyImages(Now, "airflow")

LEMMA ImagesOfContainers ==
    ASSUME HostInv, Next
    PROVE  \A n \in DOMAIN containers' :
              \/ /\ n \in DOMAIN containers
                 /\ containers'[n].image = containers[n].image
              \/ Borrowed(n)
  <1> DEFINE Goal == \A n \in DOMAIN containers' :
                        \/ /\ n \in DOMAIN containers
                           /\ containers'[n].image = containers[n].image
                        \/ Borrowed(n)
  <1>1. ASSUME \/ containers' = containers
               \/ \E n \in DOMAIN containers, s \in {"running", "exited"} :
                     containers' = InState(n, s)
               \/ \E names : containers' = Without(names)
        PROVE  Goal
    <2>1. CASE \E n \in DOMAIN containers, s \in {"running", "exited"} :
                  containers' = InState(n, s)
      <3>1. PICK n \in DOMAIN containers, s \in {"running", "exited"} :
               containers' = [containers EXCEPT ![n] = [@ EXCEPT !.state = s]]
        BY <2>1 DEF InState
      <3>2. [containers[n] EXCEPT !.state = s].image = containers[n].image
        BY DEF HostInv, AnyContainer
      <3>3. QED
        BY <3>1, <3>2 DEF HostInv
    <2>2. QED
      BY <1>1, <2>1 DEF Without
  <1>2. ASSUME NEW name, NEW id, containers' = Stopped(name, id)
        PROVE  Goal
    <2>1. \/ containers' = containers
          \/ name \in DOMAIN containers /\ containers' = InState(name, "exited")
      BY <1>2 DEF Stopped, Exactly
    <2>2. QED
      BY <1>1, <2>1
  <1>3. CASE \E n \in Touched \intersect DOMAIN containers : Flip(n)
    <2>1. \E n \in DOMAIN containers, s \in {"running", "exited"} :
             containers' = InState(n, s)
      BY <1>3 DEF Flip
    <2>2. QED
      BY <1>1, <2>1
  <1>4. CASE \E n \in Touched \intersect DOMAIN containers : Recreate(n)
    <2>1. PICK n \in DOMAIN containers :
             containers' = [containers EXCEPT ![n] =
                [@ EXCEPT !.id = drift + 1, !.state = "running"]]
      BY <1>4 DEF Recreate
    <2>2. [containers[n] EXCEPT !.id = drift + 1, !.state = "running"].image
             = containers[n].image
      BY DEF HostInv, AnyContainer
    <2>3. QED
      BY <2>1, <2>2 DEF HostInv
  <1>5. CASE Borrow
    <2>1. PICK i \in FamilyImages(Now, "airflow") :
             containers' = [n \in DOMAIN containers \union {"stranger"} |->
                IF n # "stranger" THEN containers[n]
                ELSE [id |-> drift + 1, state |-> "running", project |-> "",
                      service |-> "", image |-> i, mounts |-> {},
                      network |-> "bridge"]]
      BY <1>5 DEF Borrow
    <2> DEFINE c == [id |-> drift + 1, state |-> "running", project |-> "",
                     service |-> "", image |-> i, mounts |-> {},
                     network |-> "bridge"]
    <2>2. c.image = i
      OBVIOUS
    <2>3. containers' = [n \in DOMAIN containers \union {"stranger"} |->
                           IF n # "stranger" THEN containers[n] ELSE c]
      BY <2>1
    <2> HIDE DEF c
    <2>4. QED
      BY <2>1, <2>2, <2>3 DEF Borrowed
  <1>6. CASE CollectInventory \/ CollectPaths \/ PlanDatabase
             \/ AssembleEvidence \/ PlanRetirement \/ ExecuteRetirement
             \/ Submit
             \/ \E mode \in {"run", "run-stopped"} : SubmitBackup(mode)
    <2>1. containers' = containers
      BY <1>6 DEF CollectInventory, CollectPaths, PlanDatabase,
         AssembleEvidence, PlanRetirement, ExecuteRetirement, Submit,
         SubmitBackup, host
    <2>2. QED
      BY <1>1, <2>1
  <1>7. CASE RunBackup \/ KillBackup
    <2>1. \/ containers' = containers \/ containers' = CleanedUp
          \/ BeginBackup
      BY <1>7 DEF RunBackup, KillBackup, ReadBackup, EndBackup, CleanUp, host
    <2>2. CASE containers' = CleanedUp
      BY <1>1, <1>2, <2>2 DEF CleanedUp
    <2>3. CASE BeginBackup
      <3>1. \/ containers' = containers
            \/ "postgres" \in DOMAIN containers
               /\ containers' = InState("postgres", "running")
        BY <2>3 DEF BeginBackup, Exactly
      <3>2. QED
        BY <1>1, <3>1
    <2>4. QED
      BY <1>1, <2>1, <2>2, <2>3
  <1>8. CASE \E j \in DOMAIN jobs : JobStep(j)
    <2>1. PICK j \in DOMAIN jobs : JobStep(j)
      BY <1>8
    <2>2. CASE RemoveContainer(j)
      BY <1>1, <2>2 DEF RemoveContainer
    <2>3. CASE OpenDatabase(j)
      <3>1. \/ containers' = containers
            \/ "postgres" \in DOMAIN containers
               /\ containers' = InState("postgres", "running")
        BY <2>3 DEF OpenDatabase, Exactly
      <3>2. QED
        BY <1>1, <3>1
    <2>4. CASE DropDatabase(j)
      BY <1>1, <1>2, <2>4 DEF DropDatabase
    <2>5. CASE CloseDatabase(j)
      BY <1>1, <1>2, <2>5 DEF CloseDatabase
    <2>6. CASE containers' = containers
      BY <1>1, <2>6
    <2>7. QED
      BY <2>1, <2>2, <2>3, <2>4, <2>5, <2>6 DEF JobStep, RunJob, Execute,
         RemoveDirectory, RemoveVolume, RemoveImage, CheckOutput, FailAction, KillUnit,
         HostUnchanged
  <1>9. CASE AiNext
    BY <1>1, <1>9 DEF AiNext, Observe, RemoveContainers, RemoveImages,
       RemovePath
  <1>10. QED
    BY <1>3, <1>4, <1>5, <1>6, <1>7, <1>8, <1>9 DEF Next, JobStep

-----------------------------------------------------------------------------
(* Every step keeps the invariant. *)

\* What an executor has come to is within what it may do.
LEMMA Working ==
    ASSUME IInv, OwnInv, NEW j \in DOMAIN jobs, NEW kinds, At(j, kinds)
    PROVE  /\ Owns(jobs[j].manifest.inventory, Action(j))
           /\ Whole(jobs[j].manifest.inventory)
           /\ Action(j).kind \in kinds /\ jobs[j].unit = "run"
  <1>1. Sound(jobs[j].manifest) /\ jobs[j].at \in Nat \ {0}
    BY DEF IInv, JobsInv, JobsTyped, JobSet, JobInv
  <1>2. jobs[j].at \in DOMAIN jobs[j].manifest.actions
    BY <1>1 DEF At, Sound
  <1>3. QED
    BY <1>2 DEF At, Action, OwnInv, JobsOwn, Owned

\* An AI removal of images takes no container along.
LEMMA ImagesAlone ==
    ASSUME HostInv, AiInv, RemoveImages
    PROVE  /\ containers' = containers
           /\ images \ images' \subseteq ApprovedImages
  <1>1. PICK gone \in SUBSET ai.images :
           /\ images' = images \ gone
           /\ containers' = Without({n \in DOMAIN containers :
                                        containers[n].image \in gone})
    BY DEF RemoveImages
  <1>2. gone \subseteq ApprovedImages
        /\ {n \in DOMAIN containers : containers[n].image \in gone} = {}
    BY <1>1 DEF AiInv, RemoveImages
  <1>3. containers' = Without({})
    BY <1>1, <1>2
  <1>4. QED
    BY <1>1, <1>2, <1>3 DEF Without, HostInv

\* The containers keep what they run on, and postgres stays.
LEMMA HostOwnStep ==
    ASSUME IInv, OwnInv, Next, HostGrows
    PROVE  HostOwn'
  <1> HostInv
    BY DEF IInv
  <1>1. "postgres" \in DOMAIN containers'
    <2>1. CASE \E j \in DOMAIN jobs : RemoveContainer(j)
      <3>1. PICK j \in DOMAIN jobs : RemoveContainer(j)
        BY <2>1
      <3>2. Action(j).target \in RetiredNames \union Training
        BY <3>1, Working DEF RemoveContainer, Owns
      <3>3. Action(j).target # "postgres"
        BY <3>2 DEF RetiredNames, Training, Families, FamilyContainers
      <3>4. QED
        BY <3>1, <3>3 DEF RemoveContainer, Without, OwnInv, HostOwn
    <2>2. CASE RemoveContainers
      <3>1. "postgres" \notin ApprovedPresent
        BY HostAssumption DEF ApprovedPresent
      <3>2. QED
        BY <2>2, <3>1 DEF RemoveContainers, Without, OwnInv, HostOwn
    <2>3. CASE RemoveImages
      BY <2>3, ImagesAlone DEF OwnInv, HostOwn
    <2>4. QED
      BY <2>1, <2>2, <2>3, WhatGoes DEF OwnInv, HostOwn
  <1>2. ASSUME NEW n \in DOMAIN containers'
        PROVE  containers'[n].image \in images'
    <2>1. containers'[n].image \in images
      BY ImagesOfContainers
         DEF OwnInv, HostOwn, Borrowed, FamilyImages, Now, Snapshot
    <2>2. CASE images' = images
      BY <2>1, <2>2
    <2>3. CASE \E j \in DOMAIN jobs : RemoveImage(j)
      <3>1. PICK j \in DOMAIN jobs : RemoveImage(j)
        BY <2>3
      <3>2. /\ containers' = containers
            /\ \/ images' = images
               \/ /\ images' = images \ {Action(j).target}
                  /\ \A m \in DOMAIN containers :
                        containers[m].image # Action(j).target
        BY <3>1 DEF RemoveImage
      <3>3. QED
        BY <2>1, <3>2
    <2>4. CASE RemoveImages
      <3>1. containers' = containers /\ images \ images' \subseteq ApprovedImages
        BY <2>4, ImagesAlone DEF OwnInv
      <3>2. containers[n].image \notin ApprovedImages
        BY <2>4, <3>1 DEF OwnInv, AiInv, RemoveImages
      <3>3. QED
        BY <2>1, <3>1, <3>2
    <2>5. QED
      BY <2>2, <2>3, <2>4, WhatGoes
  <1>3. QED
    BY <1>1, <1>2 DEF OwnInv, HostOwn, HostGrows

\* Inventories, evidence and manifests go on naming every volume there is.
LEMMA FilesOwnStep ==
    ASSUME IInv, OwnInv, Next, HostGrows
    PROVE  FilesOwn'
  <1>1. ASSUME NEW inv, Whole(inv)
        PROVE  Whole(inv)'
    BY <1>1 DEF Whole, HostGrows
  <1>2. ASSUME inventory' # None
        PROVE  Whole(inventory)'
    <2>1. Whole(Now)
      BY DEF Whole, Now, Snapshot, OwnInv, HostOwn
    <2>2. PICK inv : inv = inventory'
      OBVIOUS
    <2>3. Whole(inv)'
      BY <1>1, <1>2, <2>1, <2>2, WhoWrites DEF OwnInv, FilesOwn
    <2>4. QED
      BY <2>2, <2>3 DEF Whole
  <1>3. ASSUME evidence' # None
        PROVE  Drawn(evidence)'
    <2>1. PICK e : e = evidence'
      OBVIOUS
    <2>2. Drawn(e)
      <3>1. CASE evidence' = evidence
        BY <1>3, <2>1, <3>1 DEF OwnInv, FilesOwn
      <3>2. CASE AssembleEvidence
        <4>1. /\ e = Assemble(inventory, pathRecords, database)
              /\ Assemblable(inventory, pathRecords, database)
              /\ inventory # None
          BY <2>1, <3>2 DEF AssembleEvidence
        <4>2. QED
          BY <4>1, AssembledDrawn DEF OwnInv, FilesOwn
      <3>3. QED
        BY <3>1, <3>2, WhoWrites
    <2>3. Drawn(e)'
      BY <1>1, <2>2 DEF Drawn, Retiring, Whole
    <2>4. QED
      BY <2>1, <2>3 DEF Drawn, Retiring, Whole
  <1>4. ASSUME NEW m, Owned(m)
        PROVE  Owned(m)'
    BY <1>1, <1>4 DEF Owned, Owns, Retiring, Whole
  <1>5. ASSUME manifest' # None
        PROVE  Owned(manifest)'
    <2>1. PICK m : m = manifest'
      OBVIOUS
    <2>2. Owned(m)
      <3>1. CASE manifest' = manifest
        BY <1>5, <2>1, <3>1 DEF OwnInv, FilesOwn
      <3>2. CASE PlanRetirement
        <4>1. /\ m = Manifest(evidence) /\ evidence # None
              /\ Accepted(inventory, evidence)
          BY <2>1, <3>2 DEF PlanRetirement
        <4>2. Evident(evidence) /\ Drawn(evidence)
          BY <4>1 DEF IInv, FilesInv, OwnInv, FilesOwn
        <4>3. QED
          BY <4>1, <4>2, ManifestOwned
      <3>3. QED
        BY <3>1, <3>2, WhoWrites
    <2>3. Owned(m)'
      BY <1>4, <2>2
    <2>4. QED
      BY <2>1, <2>3 DEF Owned, Owns, Retiring, Whole
  <1>6. ASSUME approved' # None
        PROVE  Owned(approved)'
    <2>1. PICK m : m = approved'
      OBVIOUS
    <2>2. Owned(m)
      BY <1>6, <2>1, WhoWrites DEF OwnInv, FilesOwn
    <2>3. Owned(m)'
      BY <1>4, <2>2
    <2>4. QED
      BY <2>1, <2>3 DEF Owned, Owns, Retiring, Whole
  <1>7. QED
    BY <1>2, <1>3, <1>5, <1>6 DEF FilesOwn

\* An approved container that is there was there before, on the same image.
LEMMA ApprovedStays ==
    ASSUME IInv, Next, HostGrows
    PROVE  /\ ApprovedPresent' \subseteq ApprovedPresent
           /\ \A n \in DOMAIN containers' \intersect DOMAIN ApprovedAi :
                 /\ n \in DOMAIN containers
                 /\ containers'[n].image = containers[n].image
  <1>1. ASSUME NEW n \in DOMAIN containers' \intersect DOMAIN ApprovedAi
        PROVE  /\ n \in DOMAIN containers
               /\ containers'[n].image = containers[n].image
    BY ImagesOfContainers, HostAssumption DEF IInv, Borrowed
  <1>2. ASSUME NEW n \in ApprovedPresent'
        PROVE  n \in ApprovedPresent
    <2>1. n \in DOMAIN ApprovedAi /\ Exactly(n, 0)'
      BY HostAssumption DEF ApprovedPresent, Exactly
    <2>2. Exactly(n, 0)
      BY <2>1 DEF IInv, HostInv, HostGrows
    <2>3. QED
      BY <2>1, <2>2, HostAssumption DEF ApprovedPresent, Exactly
  <1>3. QED
    BY <1>1, <1>2

\* Images outlive the containers of the AI stack, and the path outlives them.
LEMMA AiStagesStep ==
    ASSUME IInv, OwnInv, Next, HostGrows
    PROVE  AiStages'
  <1>1. ASSUME ApprovedPresent' # {}
        PROVE  ApprovedImages \subseteq images'
    <2>1. ApprovedPresent # {}
      BY <1>1, ApprovedStays
    <2>2. ApprovedImages \subseteq images
      BY <2>1 DEF OwnInv, AiInv, AiStages
    <2>3. CASE \E j \in DOMAIN jobs : RemoveImage(j)
      <3>1. PICK j \in DOMAIN jobs : RemoveImage(j)
        BY <2>3
      <3>2. /\ At(j, {"image"})
            /\ images' = images \/ images' = images \ {Action(j).target}
        BY <3>1 DEF RemoveImage
      <3>3. Action(j).target \notin ApprovedImages
        BY <3>2, Working DEF Owns
      <3>4. QED
        BY <2>2, <3>2, <3>3
    <2>4. CASE RemoveImages
      BY <2>1, <2>4 DEF OwnInv, AiInv, RemoveImages, ApprovedPresent
    <2>5. QED
      BY <2>2, <2>3, <2>4, WhatGoes
  <1>2. ASSUME ApprovedImages \intersect images' # {}
        PROVE  AiPath \in paths'
    <2>1. ApprovedImages \intersect images # {}
      BY <1>2 DEF HostGrows
    <2>2. AiPath \in paths
      BY <2>1 DEF OwnInv, AiInv, AiStages
    <2>3. CASE \E j \in DOMAIN jobs : RemoveDirectory(j)
      <3>1. PICK j \in DOMAIN jobs : RemoveDirectory(j)
        BY <2>3
      <3>2. At(j, {"path", "artifact"}) /\ paths' = paths \ {Action(j).target}
        BY <3>1 DEF RemoveDirectory
      <3>3. Action(j).target # AiPath
        BY <3>2, Working DEF Owns
      <3>4. QED
        BY <2>2, <3>2, <3>3
    <2>4. CASE RemovePath
      BY <2>1, <2>4 DEF OwnInv, AiInv, RemovePath
    <2>5. QED
      BY <2>2, <2>3, <2>4, WhatGoes
  <1>3. QED
    BY <1>1, <1>2 DEF AiStages

\* What a call observed stays so until it removes.
LEMMA AiStep ==
    ASSUME IInv, OwnInv, Next, HostGrows
    PROVE  AiInv'
  <1>1. AiStages'
    BY AiStagesStep
  <1>2. ASSUME NEW n \in DOMAIN containers' \intersect DOMAIN ApprovedAi
        PROVE  containers'[n].image = ApprovedAi[n].image
    BY ApprovedStays DEF OwnInv, AiInv
  <1>3. CASE ai' = ai
    <2>1. ASSUME ai.stage = "remove-images", NEW n \in DOMAIN containers'
          PROVE  n \notin DOMAIN ApprovedAi
                 /\ containers'[n].image \notin ApprovedImages
      <3>1. n \notin DOMAIN ApprovedAi
        BY <2>1, ApprovedStays DEF OwnInv, AiInv
      <3>2. CASE Borrowed(n)
        <4>1. Repository[containers'[n].image] \in FamilyRepositories["airflow"]
          BY <3>2 DEF Borrowed, FamilyImages
        <4>2. "airflow" \in Families
          BY DEF Families
        <4>3. QED
          BY <3>1, <4>1, <4>2, ImagesApart
      <3>3. CASE n \in DOMAIN containers
                 /\ containers'[n].image = containers[n].image
        BY <2>1, <3>1, <3>3 DEF OwnInv, AiInv
      <3>4. QED
        BY <3>2, <3>3, ImagesOfContainers DEF IInv
    <2>2. QED
      BY <1>1, <1>2, <1>3, <2>1 DEF OwnInv, AiInv, HostGrows
  <1>4. CASE Observe
    <2>1. /\ ai' = [stage |-> Stage, images |-> Present] /\ Plannable
          /\ UNCHANGED <<containers, images, paths>>
      BY <1>4 DEF Observe
    <2>2. ai'.stage = Stage /\ ai'.images = Present
      BY <2>1
    <2>3. Present \subseteq ApprovedImages
      BY DEF Present
    <2>4. Stage = "remove-images" => Selected = {}
      BY DEF Stage
    <2>5. Stage = "remove-path" => Present = {}
      BY DEF Stage
    <2>6. Selected = {} =>
             /\ DOMAIN containers \intersect DOMAIN ApprovedAi = {}
             /\ \A n \in DOMAIN containers : containers[n].image \notin ApprovedImages
      BY <2>1 DEF Plannable, SurvivorsSafe, Survivors, Selected
    <2>7. QED
      BY <1>1, <1>2, <2>1, <2>2, <2>3, <2>4, <2>5, <2>6 DEF AiInv, Present
  <1>5. CASE RemoveContainers \/ RemoveImages \/ RemovePath
    <2>1. ai'.stage = "not-called"
      BY <1>5 DEF RemoveContainers, RemoveImages, RemovePath, NotCalled
    <2>2. QED
      BY <1>1, <1>2, <2>1 DEF AiInv
  <1>6. QED
    BY <1>3, <1>4, <1>5, WhatGoes DEF AiNext

\* Where an executor goes, and what becomes of its work on the database.
Moves(j, r) ==
    \/ r.db = "idle" /\ r.at = jobs[j].at
    \/ /\ r.db = "idle" /\ r.at = jobs[j].at + 1
       /\ jobs[j].at <= Len(jobs[j].manifest.actions)
    \/ /\ r.db = jobs[j].db /\ r.at = jobs[j].at
       /\ jobs[j].db = "idle"
    \/ /\ r.unit = "run" /\ r.at = jobs[j].at /\ At(j, {"database"})

LEMMA JobMoves ==
    ASSUME IInv, JobsOwn, NEW j \in DOMAIN jobs, JobStep(j)
    PROVE  /\ DOMAIN jobs' = DOMAIN jobs
           /\ \A k \in DOMAIN jobs : k # j => jobs'[k] = jobs[k]
           /\ jobs'[j].manifest = jobs[j].manifest
           /\ Moves(j, jobs'[j])
  <1>1. PICK M : jobs \in [DOMAIN jobs -> JobSet(M)]
    BY DEF IInv, JobsInv, JobsTyped
  <1>2. jobs[j] \in JobSet(M) /\ JobInv(j) /\ Placed(jobs[j])
    BY <1>1 DEF IInv, JobsInv, JobsOwn
  <1> DEFINE Goal == /\ DOMAIN jobs' = DOMAIN jobs
                     /\ \A k \in DOMAIN jobs : k # j => jobs'[k] = jobs[k]
                     /\ jobs'[j].manifest = jobs[j].manifest
                     /\ Moves(j, jobs'[j])
  <1>3. ASSUME NEW r \in JobSet(M), jobs' = [jobs EXCEPT ![j] = r],
               r.manifest = jobs[j].manifest, Moves(j, r)
        PROVE  Goal
    BY <1>1, <1>3
  <1>4. CASE jobs' = Failed(j)
    <2> DEFINE r == [jobs[j] EXCEPT !.state = "failed", !.unit = "none",
                                    !.db = "idle"]
    <2>1. /\ r \in JobSet(M) /\ r.manifest = jobs[j].manifest
          /\ r.db = "idle" /\ r.at = jobs[j].at
      BY <1>2 DEF JobSet
    <2>2. jobs' = [jobs EXCEPT ![j] = r]
      BY <1>1, <1>4 DEF Failed, JobSet
    <2> HIDE DEF r
    <2>3. QED
      BY <1>3, <2>1, <2>2 DEF Moves
  <1>5. ASSUME NEW kinds, jobs' = Advanced(j), At(j, kinds)
        PROVE  Goal
    <2>1. PICK r \in JobSet(M) :
             /\ jobs' = [jobs EXCEPT ![j] = r]
             /\ r.manifest = jobs[j].manifest
             /\ r.at = jobs[j].at + 1 /\ r.db = "idle"
      BY <1>1, <1>5, AdvancedIs
    <2>2. Moves(j, r)
      BY <1>5, <2>1 DEF Moves, At
    <2>3. QED
      BY <1>3, <2>1, <2>2
  <1>6. ASSUME NEW d \in {"found", "started", "dropped"},
               jobs' = [jobs EXCEPT ![j].db = d], At(j, {"database"})
        PROVE  Goal
    <2> DEFINE r == [jobs[j] EXCEPT !.db = d]
    <2>1. /\ r \in JobSet(M) /\ r.manifest = jobs[j].manifest
          /\ r.unit = jobs[j].unit /\ r.at = jobs[j].at
      BY <1>2 DEF JobSet
    <2>2. jobs' = [jobs EXCEPT ![j] = r]
      BY <1>1, <1>6 DEF JobSet
    <2> HIDE DEF r
    <2>3. Moves(j, r)
      BY <1>6, <2>1 DEF Moves, At
    <2>4. QED
      BY <1>3, <2>1, <2>2, <2>3
  <1>7. CASE Execute(j)
    <2>1. jobs[j].db = "idle"
      BY <1>2, <1>7 DEF Execute, JobInv
    <2>2. PICK s \in {"failed", "running"}, u \in {"none", "run"} :
             jobs' = [jobs EXCEPT ![j].state = s, ![j].unit = u]
      BY <1>7 DEF Execute
    <2> DEFINE r == [jobs[j] EXCEPT !.state = s, !.unit = u]
    <2>3. /\ r \in JobSet(M) /\ r.manifest = jobs[j].manifest
          /\ r.db = jobs[j].db /\ r.at = jobs[j].at
      BY <1>2 DEF JobSet
    <2>4. jobs' = [jobs EXCEPT ![j] = r]
      BY <1>1, <2>2 DEF JobSet
    <2> HIDE DEF r
    <2>5. QED
      BY <1>3, <2>1, <2>3, <2>4 DEF Moves
  <1>8. CASE CheckOutput(j)
    <2>1. jobs[j].db = "idle"
      <3>1. jobs[j].at \in Nat /\ Sound(jobs[j].manifest)
        BY <1>2 DEF JobSet, JobInv
      <3>2. QED
        BY <1>2, <1>8, <3>1 DEF CheckOutput, Placed, Sound
    <2> DEFINE r == [jobs[j] EXCEPT !.state = "passed", !.unit = "none"]
    <2>2. /\ r \in JobSet(M) /\ r.manifest = jobs[j].manifest
          /\ r.db = jobs[j].db /\ r.at = jobs[j].at
      BY <1>2 DEF JobSet
    <2>3. jobs' = [jobs EXCEPT ![j] = r] \/ jobs' = Failed(j)
      BY <1>1, <1>8 DEF JobSet, CheckOutput
    <2> HIDE DEF r
    <2>4. QED
      BY <1>3, <1>4, <2>1, <2>2, <2>3 DEF Moves
  <1>9. CASE KillUnit(j)
    <2> DEFINE r == [jobs[j] EXCEPT !.unit = "none", !.db = "idle"]
    <2>1. /\ r \in JobSet(M) /\ r.manifest = jobs[j].manifest
          /\ r.db = "idle" /\ r.at = jobs[j].at
      BY <1>2 DEF JobSet
    <2>2. jobs' = [jobs EXCEPT ![j] = r]
      BY <1>1, <1>9 DEF JobSet, KillUnit
    <2> HIDE DEF r
    <2>3. QED
      BY <1>3, <2>1, <2>2 DEF Moves
  <1>10. CASE RemoveContainer(j) \/ RemoveDirectory(j) \/ RemoveVolume(j)
              \/ RemoveImage(j) \/ FailAction(j)
    <2>1. jobs' = Failed(j) \/ (jobs' = Advanced(j) /\ \E k : At(j, k))
      BY <1>10 DEF RemoveContainer, RemoveDirectory, RemoveVolume, RemoveImage,
         FailAction
    <2>2. QED
      BY <1>4, <1>5, <2>1
  <1>11. CASE OpenDatabase(j) \/ DropDatabase(j) \/ CloseDatabase(j)
    <2>1. At(j, {"database"})
      BY <1>11 DEF OpenDatabase, DropDatabase, CloseDatabase
    <2>2. \/ jobs' = Failed(j) \/ jobs' = Advanced(j)
          \/ \E d \in {"found", "started", "dropped"} :
                jobs' = [jobs EXCEPT ![j].db = d]
      BY <1>11 DEF OpenDatabase, DropDatabase, CloseDatabase
    <2>3. QED
      BY <1>4, <1>5, <1>6, <2>1, <2>2
  <1>12. QED
    BY <1>7, <1>8, <1>9, <1>10, <1>11 DEF JobStep, RunJob
\* A manifest stays owned.
LEMMA OwnedStays ==
    ASSUME HostGrows, NEW m, Owned(m)
    PROVE  Owned(m)'
  BY DEF Owned, Owns, Retiring, Whole, HostGrows

\* The requests stay numbered when one is submitted.
LEMMA SubmitOwn ==
    ASSUME IInv, OwnInv, Submit, HostGrows
    PROVE  JobsOwn'
  <1>1. PICK n \in Nat : DOMAIN jobs = 1 .. n /\ active \in 0 .. n
    BY DEF OwnInv, JobsOwn
  <1>2. \A k \in DOMAIN jobs : Placed(jobs[k]) /\ Owned(jobs[k].manifest)
    BY DEF OwnInv, JobsOwn
  <1>3. CASE UNCHANGED <<jobs, active>>
    <2>1. ASSUME NEW k \in DOMAIN jobs
          PROVE  Placed(jobs[k])' /\ Owned(jobs[k].manifest)'
      <3>1. PICK m : m = jobs[k].manifest
        OBVIOUS
      <3>2. Owned(m)'
        BY <1>2, <3>1, OwnedStays
      <3>3. QED
        BY <1>2, <1>3, <3>1, <3>2 DEF Placed, Owned, Owns, Retiring, Whole
    <2>2. QED
      BY <1>1, <1>3, <2>1 DEF JobsOwn
  <1>4. CASE ~UNCHANGED <<jobs, active>>
    <2> DEFINE j == RequestOf(approved)
    <2>1. PICK s \in {"pending", "failed"}, u \in {"queued", "none"} :
             /\ jobs' = Submitted(approved, s, u) /\ active' = j
             /\ approved # None
      BY <1>4 DEF Submit
    <2>2. PICK m : m = approved
      OBVIOUS
    <2>3. Owned(m) /\ Sound(m)
      BY <2>1, <2>2 DEF OwnInv, FilesOwn, IInv, FilesInv
    <2>4. Owned(m)'
      BY <2>3, OwnedStays
    <2>5. j \in DOMAIN jobs \/ j = n + 1
      <3>1. Len(jobs) = n
        BY <1>1
      <3>2. QED
        BY <3>1 DEF RequestOf
    <2> DEFINE r == [manifest |-> m, state |-> s, unit |-> u, at |-> 1,
                     db |-> "idle"]
    <2>6. jobs' = [k \in DOMAIN jobs \union {j} |->
                     IF k = j THEN r ELSE jobs[k]]
      BY <2>1, <2>2 DEF Submitted
    <2>7. r.manifest = m /\ r.at = 1 /\ r.db = "idle"
      OBVIOUS
    <2> HIDE DEF r, j
    <2>8. \E l \in Nat : DOMAIN jobs' = 1 .. l /\ active' \in 0 .. l
      <3>1. DOMAIN jobs' = DOMAIN jobs \union {j}
        BY <2>6
      <3>2. CASE j \in DOMAIN jobs
        BY <1>1, <2>1, <3>1, <3>2
      <3>3. CASE j = n + 1
        <4>1. DOMAIN jobs' = 1 .. (n + 1)
          BY <1>1, <3>1, <3>3
        <4>2. n + 1 \in Nat /\ active' \in 0 .. (n + 1)
          BY <1>1, <2>1, <3>3
        <4>3. QED
          BY <4>1, <4>2
      <3>4. QED
        BY <2>5, <3>2, <3>3
    <2>9. ASSUME NEW k \in DOMAIN jobs'
          PROVE  Placed(jobs[k])' /\ Owned(jobs[k].manifest)'
      <3>1. CASE k = j
        <4>1. jobs'[k] = r
          BY <2>6, <3>1
        <4>2. Placed(jobs[k])'
          BY <2>3, <2>7, <4>1 DEF Placed, Sound
        <4>3. Owned(jobs[k].manifest)'
          BY <2>4, <2>7, <4>1 DEF Owned, Owns, Retiring, Whole
        <4>4. QED
          BY <4>2, <4>3
      <3>2. CASE k # j
        <4>1. k \in DOMAIN jobs /\ jobs'[k] = jobs[k]
          BY <2>6, <3>2
        <4>2. PICK h : h = jobs[k].manifest
          OBVIOUS
        <4>3. Owned(h)'
          BY <1>2, <4>1, <4>2, OwnedStays
        <4>4. QED
          BY <1>2, <4>1, <4>2, <4>3 DEF Placed, Owned, Owns, Retiring, Whole
      <3>3. QED
        BY <3>1, <3>2
    <2>10. QED
      BY <2>8, <2>9 DEF JobsOwn
  <1>5. QED
    BY <1>3, <1>4

\* Executors stay within their manifests.
LEMMA JobsOwnStep ==
    ASSUME IInv, OwnInv, Next, HostGrows
    PROVE  JobsOwn'
  <1>1. PICK n \in Nat : DOMAIN jobs = 1 .. n /\ active \in 0 .. n
    BY DEF OwnInv, JobsOwn
  <1>2. \A k \in DOMAIN jobs : Placed(jobs[k]) /\ Owned(jobs[k].manifest)
    BY DEF OwnInv, JobsOwn
  <1>3. ASSUME NEW k \in DOMAIN jobs, jobs'[k] = jobs[k]
        PROVE  Placed(jobs[k])' /\ Owned(jobs[k].manifest)'
    <2>1. PICK m : m = jobs[k].manifest
      OBVIOUS
    <2>2. Owned(m)'
      BY <1>2, <2>1, OwnedStays
    <2>3. QED
      BY <1>2, <1>3, <2>1, <2>2 DEF Placed, Owned, Owns, Retiring, Whole
  <1>4. CASE UNCHANGED <<jobs, active>>
    BY <1>1, <1>3, <1>4 DEF JobsOwn
  <1>5. CASE \E j \in DOMAIN jobs : JobStep(j)
    <2>1. PICK j \in DOMAIN jobs : JobStep(j)
      BY <1>5
    <2>2. active' = active
      BY <2>1, JobDoes DEF IInv, JobsInv, JobsTyped
    <2>3. /\ DOMAIN jobs' = DOMAIN jobs
          /\ \A k \in DOMAIN jobs : k # j => jobs'[k] = jobs[k]
          /\ jobs'[j].manifest = jobs[j].manifest
          /\ Moves(j, jobs'[j])
      BY <2>1, JobMoves DEF OwnInv
    <2>4. PICK m : m = jobs[j].manifest
      OBVIOUS
    <2>5. Sound(m) /\ jobs[j].at \in Nat
      BY <2>4 DEF IInv, JobsInv, JobsTyped, JobSet, JobInv
    <2>6. Placed(jobs[j])'
      BY <1>2, <2>3, <2>4, <2>5 DEF Moves, Placed, At, Sound
    <2>7. Owned(jobs[j].manifest)'
      <3>1. Owned(m)'
        BY <1>2, <2>4, OwnedStays
      <3>2. QED
        BY <2>3, <2>4, <3>1 DEF Owned, Owns, Retiring, Whole
    <2>8. QED
      BY <1>1, <1>3, <2>2, <2>3, <2>6, <2>7 DEF JobsOwn
  <1>6. QED
    BY <1>4, <1>5, SubmitOwn, WhoWrites

-----------------------------------------------------------------------------
(* The theorems. *)

\* The hosts that the recovery may begin on are such hosts.
LEMMA InitOwn == Init => OwnInv
  <1> SUFFICES ASSUME Init PROVE OwnInv
    OBVIOUS
  <1>1. PICK w \in Worlds :
           /\ containers = w.containers /\ volumes = w.volumes
           /\ images = w.images /\ paths = w.paths
    BY DEF Init
  <1>2. HostOwn
    BY <1>1, HostAssumption DEF HostOwn
  <1>3. FilesOwn
    BY DEF Init, FilesOwn
  <1>4. AiInv
    <2>1. ai.stage = "not-called"
      BY DEF Init, NotCalled
    <2>2. QED
      BY <1>1, <2>1, HostAssumption DEF AiInv, AiStages
  <1>5. JobsOwn
    <2>1. DOMAIN jobs = 1 .. 0 /\ DOMAIN jobs = {} /\ active \in 0 .. 0
      BY DEF Init
    <2>2. QED
      BY <2>1 DEF JobsOwn
  <1>6. QED
    BY <1>2, <1>3, <1>4, <1>5 DEF OwnInv

\* Every step keeps every part of the invariant.
LEMMA NextOwn == IInv /\ OwnInv /\ [Next]_vars => OwnInv'
  <1>1. ASSUME OwnInv, UNCHANGED vars
        PROVE  OwnInv'
    <2>1. /\ UNCHANGED <<containers, volumes, images, paths, ai, jobs, active>>
          /\ UNCHANGED <<inventory, evidence, manifest, approved>>
      BY <1>1 DEF vars, host, files
    <2>2. HostOwn'
      BY <1>1, <2>1 DEF OwnInv, HostOwn
    <2>3. FilesOwn'
      BY <1>1, <2>1 DEF OwnInv, FilesOwn, Drawn, Owned, Owns, Retiring, Whole
    <2>4. AiInv'
      BY <1>1, <2>1 DEF OwnInv, AiInv, AiStages, ApprovedPresent
    <2>5. JobsOwn'
      BY <1>1, <2>1 DEF OwnInv, JobsOwn, Placed, Owned, Owns, Retiring, Whole
    <2>6. QED
      BY <2>2, <2>3, <2>4, <2>5 DEF OwnInv
  <1>2. ASSUME IInv, OwnInv, Next
        PROVE  OwnInv'
    <2>1. HostGrows
      BY <1>2, HostStep DEF IInv
    <2>2. QED
      BY <1>2, <2>1, HostOwnStep, FilesOwnStep, AiStep, JobsOwnStep DEF OwnInv
  <1>3. QED
    BY <1>1, <1>2

\* The invariant holds throughout.
LEMMA HostInvariant == Spec => [](IInv /\ OwnInv)
  <1>1. Init => IInv /\ OwnInv
    BY InitInv, InitOwn
  <1>2. IInv /\ OwnInv /\ [Next]_vars => (IInv /\ OwnInv)'
    BY NextInv, NextOwn
  <1>3. QED
    BY <1>1, <1>2, PTL DEF Spec

\* Containers run or have exited on images that are there, and the executors and
\* the active file stay within what there is, on every host.
THEOREM TypesAlwaysOK == Spec => []TypeOK
  <1>1. IInv /\ OwnInv => TypeOK
    <2> SUFFICES ASSUME IInv, OwnInv PROVE TypeOK
      OBVIOUS
    <2>1. \A n \in DOMAIN containers :
             /\ containers[n].state \in {"running", "exited"}
             /\ containers[n].image \in images
      BY DEF IInv, HostInv, AnyContainer, OwnInv, HostOwn
    <2>2. ASSUME NEW j \in DOMAIN jobs
          PROVE  /\ jobs[j].state \in {"pending", "running", "passed", "failed"}
                 /\ jobs[j].at \in 1..Len(jobs[j].manifest.actions) + 1
      <3>1. /\ jobs[j].state \in {"pending", "running", "passed", "failed"}
            /\ jobs[j].at \in Nat \ {0}
        BY DEF IInv, JobsInv, JobsTyped, JobSet
      <3>2. Len(jobs[j].manifest.actions) \in Nat
        BY DEF IInv, JobsInv, JobInv, Sound
      <3>3. QED
        BY <3>1, <3>2 DEF OwnInv, JobsOwn, Placed
    <2>3. active \in 0..Len(jobs)
      <3>1. PICK n \in Nat : DOMAIN jobs = 1 .. n /\ active \in 0 .. n
        BY DEF OwnInv, JobsOwn
      <3>2. Len(jobs) = n
        BY <3>1
      <3>3. QED
        BY <3>1, <3>2
    <2>4. QED
      BY <2>1, <2>2, <2>3 DEF TypeOK
  <1>2. QED
    BY <1>1, HostInvariant, PTL

\* The images of the AI stack outlive its containers and its path outlives them,
\* although the retirement jobs remove images and directories beside it.
THEOREM AiAlwaysInStages == Spec => []AiStages
  <1>1. OwnInv => AiStages
    BY DEF OwnInv, AiInv
  <1>2. QED
    BY <1>1, HostInvariant, PTL

\* Nothing goes from any host but what was approved, whatever fails and whoever
\* deploys meanwhile.
THEOREM OnlyApprovedEverGoes == Spec => OnlyApprovedGoes
  <1> DEFINE Approved ==
         /\ \A n \in DOMAIN containers \ DOMAIN containers' :
               \/ n \in ApprovedPresent
               \/ \E j \in DOMAIN jobs :
                     LET inv == jobs[j].manifest.inventory
                     IN /\ jobs[j].unit = "run"
                        /\ n \in (RetiredNames \union Training)
                                    \intersect DOMAIN inv.containers
                        /\ inv.containers[n].id = containers[n].id
                        /\ inv.containers[n].state = "exited"
         /\ \A v \in volumes \ volumes' : \E f \in Families :
               v.project = VolumeProject[f] /\ v.logical \in FamilyVolumes[f]
         /\ \A n \in DOMAIN containers' : containers'[n].image \in images'
  <1>1. ASSUME IInv, OwnInv, Next
        PROVE  Approved
    <2>1. HostGrows /\ HostInv
      BY <1>1, HostStep DEF IInv
    <2>2. ASSUME NEW n \in DOMAIN containers \ DOMAIN containers'
          PROVE  \/ n \in ApprovedPresent
                 \/ \E j \in DOMAIN jobs :
                       LET inv == jobs[j].manifest.inventory
                       IN /\ jobs[j].unit = "run"
                          /\ n \in (RetiredNames \union Training)
                                      \intersect DOMAIN inv.containers
                          /\ inv.containers[n].id = containers[n].id
                          /\ inv.containers[n].state = "exited"
      <3>1. CASE \E j \in DOMAIN jobs : RemoveContainer(j)
        <4>1. PICK j \in DOMAIN jobs : RemoveContainer(j)
          BY <3>1
        <4>2. /\ Owns(jobs[j].manifest.inventory, Action(j))
              /\ Action(j).kind = "container" /\ jobs[j].unit = "run"
          BY <1>1, <4>1, Working DEF RemoveContainer
        <4>3. n = Action(j).target /\ Exactly(n, Action(j).id)
          BY <4>1 DEF RemoveContainer, Without
        <4>4. QED
          BY <4>2, <4>3 DEF Owns, Exactly
      <3>2. CASE RemoveContainers
        BY <3>2 DEF RemoveContainers, Without
      <3>3. CASE RemoveImages
        BY <1>1, <2>1, <3>3, ImagesAlone DEF OwnInv
      <3>4. QED
        BY <1>1, <2>1, <3>1, <3>2, <3>3, WhatGoes
    <2>3. ASSUME NEW v \in volumes \ volumes'
          PROVE  \E f \in Families :
                    v.project = VolumeProject[f] /\ v.logical \in FamilyVolumes[f]
      <3>1. PICK j \in DOMAIN jobs : RemoveVolume(j)
        BY <1>1, <2>1, WhatGoes
      <3>2. /\ Owns(jobs[j].manifest.inventory, Action(j))
            /\ Whole(jobs[j].manifest.inventory)
            /\ Action(j).kind = "volume"
        BY <1>1, <3>1, Working DEF RemoveVolume
      <3>3. v.name = Action(j).target
        BY <3>1 DEF RemoveVolume
      <3>4. PICK u \in jobs[j].manifest.inventory.volumes, f \in Families :
               u.name = Action(j).target /\ Retiring(u, f)
        BY <3>2 DEF Owns
      <3>5. u = v
        BY <3>2, <3>3, <3>4 DEF Whole
      <3>6. QED
        BY <3>4, <3>5 DEF Retiring
    <2>4. \A n \in DOMAIN containers' : containers'[n].image \in images'
      BY <1>1, <2>1, HostOwnStep DEF HostOwn
    <2>5. QED
      BY <2>2, <2>3, <2>4
  <1>2. IInv /\ OwnInv /\ [Next]_vars => [Approved]_vars
    BY <1>1
  <1>3. QED
    BY <1>2, HostInvariant, PTL DEF Spec, OnlyApprovedGoes

-----------------------------------------------------------------------------
(* How the evidence job and the retirements, which share no lock, leave    *)
(* postgres: the inductive invariant.                                      *)

\* A unit that has started postgres and has still to stop it.
BackupOpen == backup.live /\ backup.started
JobOpen(j) == jobs[j].db \in {"started", "dropped"}
Opened == BackupOpen \/ \E j \in DOMAIN jobs : JobOpen(j)

\* As long as nobody else touched postgres while a unit worked on it: one unit at
\* most has started it, for the container that was stopped, and it runs; and when
\* none has, it is in the state that was wanted, or one did not stop it.
PostgresInv ==
    wanted # "unknown" =>
       /\ BackupOpen => /\ Exactly("postgres", backup.request[2])
                        /\ \A j \in DOMAIN jobs : ~JobOpen(j)
       /\ \A j \in DOMAIN jobs :
             JobOpen(j) => Exactly("postgres", Action(j).id)
       /\ Opened => containers["postgres"].state = "running" /\ wanted = "exited"
       /\ ~Opened => \/ containers["postgres"].state = wanted
                     \/ wanted = "exited" /\ leftRunning

\* The evidence unit has started nothing before it begins.
BackupKind ==
    /\ backup.live => /\ backup.state \in {"pending", "running"}
                      /\ backup.request[3] \in {"run", "run-stopped"}
    /\ backup.state = "pending" => ~backup.started

FoundInv == PostgresInv /\ BackupKind

-----------------------------------------------------------------------------
(* Steps that do not work on postgres. *)

\* Only the units work with postgres, and only they write the history, besides
\* people and deployments.
LEMMA Bystanders ==
    ASSUME IInv, OwnInv, Next, HostGrows,
           ~RunBackup, ~KillBackup, ~Borrow,
           \A n \in DOMAIN containers : ~Flip(n) /\ ~Recreate(n),
           \A j \in DOMAIN jobs : ~(OpenDatabase(j) \/ DropDatabase(j)
                                    \/ CloseDatabase(j) \/ KillUnit(j))
    PROVE  /\ containers'["postgres"] = containers["postgres"]
           /\ wanted' = wanted /\ leftRunning' = leftRunning
  <1>1. "postgres" \in DOMAIN containers /\ "postgres" \in DOMAIN containers'
    BY HostOwnStep DEF OwnInv, HostOwn
  <1>2. ASSUME NEW names, containers' = Without(names)
        PROVE  containers'["postgres"] = containers["postgres"]
    BY <1>1, <1>2 DEF Without
  <1>3. CASE CollectInventory \/ CollectPaths \/ PlanDatabase
             \/ AssembleEvidence \/ PlanRetirement \/ ExecuteRetirement
             \/ Submit
             \/ \E mode \in {"run", "run-stopped"} : SubmitBackup(mode)
    BY <1>3 DEF CollectInventory, CollectPaths, PlanDatabase,
       AssembleEvidence, PlanRetirement, ExecuteRetirement, Submit,
       SubmitBackup, host, history
  <1>4. CASE \E j \in DOMAIN jobs : JobStep(j)
    <2>1. PICK j \in DOMAIN jobs : JobStep(j)
      BY <1>4
    <2>2. CASE RemoveContainer(j)
      <3>1. containers' = containers
            \/ containers' = Without({Action(j).target})
        BY <2>2 DEF RemoveContainer
      <3>2. wanted' = wanted /\ leftRunning' = leftRunning
        BY <2>2 DEF RemoveContainer, JobsUnchanged, JobAlone
      <3>3. QED
        BY <1>2, <3>1, <3>2
    <2>3. QED
      BY <2>1, <2>2 DEF JobStep, RunJob, Execute, RemoveDirectory, RemoveVolume,
         RemoveImage, CheckOutput, FailAction, JobsUnchanged, JobAlone, HostUnchanged
  <1>5. CASE AiNext /\ UNCHANGED <<volumes, databases, files, backup, jobs,
                                   active, budget, history>>
    <2>1. wanted' = wanted /\ leftRunning' = leftRunning /\ AiNext
      BY <1>5 DEF history
    <2>2. containers' = containers \/ \E names : containers' = Without(names)
      BY <2>1 DEF AiNext, Observe, RemoveContainers, RemoveImages, RemovePath
    <2>3. QED
      BY <1>2, <2>1, <2>2
  <1>6. QED
    BY <1>3, <1>4, <1>5 DEF Next, JobStep

\* A step of a job that does not work on the database.
Quiet(j) ==
    \/ Execute(j) \/ RemoveContainer(j) \/ RemoveDirectory(j) \/ RemoveVolume(j)
    \/ RemoveImage(j) \/ CheckOutput(j) \/ FailAction(j)

LEMMA QuietJob ==
    ASSUME IInv, JobsOwn, NEW j \in DOMAIN jobs, Quiet(j)
    PROVE  jobs[j].db = "idle" /\ jobs'[j].db = "idle"
  <1>1. /\ jobs[j].at \in Nat /\ Sound(jobs[j].manifest)
        /\ JobInv(j) /\ Placed(jobs[j])
    BY DEF IInv, JobsInv, JobsTyped, JobSet, JobsOwn, JobInv
  <1>2. jobs[j].db = "idle"
    <2>1. CASE Execute(j)
      BY <1>1, <2>1 DEF Execute, JobInv
    <2>2. CASE CheckOutput(j)
      BY <1>1, <2>2 DEF CheckOutput, Placed, Sound
    <2>3. CASE RemoveContainer(j) \/ RemoveDirectory(j) \/ RemoveVolume(j)
               \/ RemoveImage(j)
      BY <1>1, <2>3 DEF RemoveContainer, RemoveDirectory, RemoveVolume, RemoveImage,
         At, Placed
    <2>4. CASE FailAction(j)
      BY <2>4 DEF FailAction
    <2>5. QED
      BY <2>1, <2>2, <2>3, <2>4 DEF Quiet
  <1>3. PICK M : jobs \in [DOMAIN jobs -> JobSet(M)]
    BY DEF IInv, JobsInv, JobsTyped
  <1>4. CASE jobs' = Failed(j)
    BY <1>2, <1>3, <1>4 DEF Failed, JobSet
  <1>5. CASE jobs' = Advanced(j)
    BY <1>2, <1>3, <1>5, AdvancedIs
  <1>6. CASE \E s, u : jobs' = [jobs EXCEPT ![j].state = s, ![j].unit = u]
    BY <1>2, <1>3, <1>6 DEF JobSet
  <1>7. CASE Execute(j) \/ CheckOutput(j)
    <2>1. \/ jobs' = Failed(j)
          \/ \E s, u : jobs' = [jobs EXCEPT ![j].state = s, ![j].unit = u]
      BY <1>7 DEF Execute, CheckOutput
    <2>2. QED
      BY <1>2, <1>4, <1>6, <2>1
  <1>8. CASE ~(Execute(j) \/ CheckOutput(j))
    <2>1. jobs' = Failed(j) \/ jobs' = Advanced(j)
      BY <1>8 DEF Quiet, RemoveContainer, RemoveDirectory, RemoveVolume, RemoveImage,
         FailAction
    <2>2. QED
      BY <1>2, <1>4, <1>5, <2>1
  <1>9. QED
    BY <1>7, <1>8

\* A step that leaves postgres and what is open of it keeps the invariant.
LEMMA NothingOpened ==
    ASSUME PostgresInv, "postgres" \in DOMAIN containers',
           "postgres" \in DOMAIN containers,
           containers'["postgres"] = containers["postgres"],
           wanted' = wanted, leftRunning => leftRunning', BackupOpen' <=> BackupOpen,
           BackupOpen => backup'.request = backup.request,
           \A k \in DOMAIN jobs' :
              JobOpen(k)' => k \in DOMAIN jobs /\ JobOpen(k),
           \A k \in DOMAIN jobs : JobOpen(k) =>
              /\ k \in DOMAIN jobs' /\ JobOpen(k)'
              /\ jobs'[k].manifest = jobs[k].manifest
              /\ jobs'[k].at = jobs[k].at
    PROVE  PostgresInv'
  <1>1. Opened' <=> Opened
    BY DEF Opened
  <1>2. ASSUME NEW id
        PROVE  Exactly("postgres", id)' <=> Exactly("postgres", id)
    BY DEF Exactly
  <1>3. \A k \in DOMAIN jobs : JobOpen(k) => Action(k)' = Action(k)
    BY DEF Action
  <1>4. ASSUME wanted # "unknown"
        PROVE  /\ BackupOpen' => /\ Exactly("postgres", backup.request[2])'
                                 /\ \A j \in DOMAIN jobs' : ~JobOpen(j)'
               /\ \A j \in DOMAIN jobs' :
                     JobOpen(j)' => Exactly("postgres", Action(j).id)'
    <2>1. ASSUME BackupOpen'
          PROVE  /\ Exactly("postgres", backup.request[2])'
                 /\ \A j \in DOMAIN jobs' : ~JobOpen(j)'
      <3>1. BackupOpen /\ backup'.request = backup.request
        BY <2>1
      <3>2. Exactly("postgres", backup.request[2])
            /\ \A j \in DOMAIN jobs : ~JobOpen(j)
        BY <1>4, <3>1 DEF PostgresInv
      <3>3. QED
        BY <3>1, <3>2 DEF Exactly
    <2>2. ASSUME NEW j \in DOMAIN jobs', JobOpen(j)'
          PROVE  Exactly("postgres", Action(j).id)'
      <3>1. j \in DOMAIN jobs /\ JobOpen(j) /\ Action(j)' = Action(j)
        BY <1>3, <2>2
      <3>2. Exactly("postgres", Action(j).id)
        BY <1>4, <3>1 DEF PostgresInv
      <3>3. QED
        BY <3>1, <3>2 DEF Exactly
    <2>3. QED
      BY <2>1, <2>2
  <1>5. QED
    BY <1>1, <1>4 DEF PostgresInv

\* A request that is submitted is not one whose unit works.
LEMMA SubmitOpens ==
    ASSUME IInv, OwnInv, Submit
    PROVE  /\ \A k \in DOMAIN jobs' :
                 JobOpen(k)' => k \in DOMAIN jobs /\ JobOpen(k)
           /\ \A k \in DOMAIN jobs : JobOpen(k) =>
                 k \in DOMAIN jobs' /\ jobs'[k] = jobs[k]
  <1>1. CASE jobs' = jobs
    BY <1>1 DEF JobOpen
  <1>2. CASE jobs' # jobs
    <2> DEFINE j == RequestOf(approved)
    <2>1. PICK s \in {"pending", "failed"}, u \in {"queued", "none"} :
             /\ jobs' = Submitted(approved, s, u)
             /\ ~(j \in DOMAIN jobs /\ jobs[j].state # "failed")
      BY <1>2 DEF Submit
    <2> DEFINE r == [manifest |-> approved, state |-> s, unit |-> u, at |-> 1,
                     db |-> "idle"]
    <2>2. jobs' = [k \in DOMAIN jobs \union {j} |->
                     IF k = j THEN r ELSE jobs[k]]
      BY <2>1 DEF Submitted
    <2>3. r.db = "idle"
      OBVIOUS
    <2> HIDE DEF r, j
    <2>4. j \in DOMAIN jobs => ~JobOpen(j)
      BY <2>1 DEF JobOpen, IInv, JobsInv, JobInv, OwnInv, JobsOwn, Placed
    <2>5. QED
      BY <2>2, <2>3, <2>4 DEF JobOpen
  <1>3. QED
    BY <1>1, <1>2

-----------------------------------------------------------------------------
(* Every step keeps it. *)

\* Deployments and people are what is wanted, unless a unit works on postgres.
LEMMA DriftKeeps ==
    ASSUME IInv, OwnInv, PostgresInv, HostOwn',
           (\E n \in DOMAIN containers : Flip(n) \/ Recreate(n)) \/ Borrow
    PROVE  PostgresInv'
  <1>1. UNCHANGED <<backup, jobs>>
    BY DEF Flip, Recreate, Borrow, Changed
  <1>2. "postgres" \in DOMAIN containers /\ "postgres" \in DOMAIN containers'
    BY DEF OwnInv, HostOwn
  <1>3. CASE /\ wanted' = wanted /\ (leftRunning => leftRunning')
             /\ containers'["postgres"] = containers["postgres"]
    BY <1>1, <1>2, <1>3, NothingOpened DEF BackupOpen, JobOpen
  <1>4. ASSUME ~PostgresInUse, containers'["postgres"].state = wanted'
        PROVE  PostgresInv'
    <2>1. ~BackupOpen' /\ \A j \in DOMAIN jobs' : ~JobOpen(j)'
      BY <1>1, <1>4 DEF PostgresInUse, BackupOpen, JobOpen
    <2>2. QED
      BY <1>4, <2>1 DEF PostgresInv, Opened
  <1>5. ASSUME PostgresInUse, wanted' = "unknown"
        PROVE  PostgresInv'
    BY <1>5 DEF PostgresInv
  <1>6. ASSUME NEW s, Changed("postgres", s), containers'["postgres"].state = s
        PROVE  PostgresInv'
    BY <1>4, <1>5, <1>6 DEF Changed
  <1>7. ASSUME NEW n, NEW s, n # "postgres", Changed(n, s),
               containers'["postgres"] = containers["postgres"]
        PROVE  PostgresInv'
    BY <1>3, <1>7 DEF Changed
  <1>8. CASE Borrow
    <2>1. containers'["postgres"] = containers["postgres"]
          /\ Changed("stranger", "running")
      BY <1>2, <1>8 DEF Borrow
    <2>2. QED
      BY <1>7, <2>1
  <1>9. CASE \E n \in DOMAIN containers : Flip(n) \/ Recreate(n)
    <2>1. PICK n \in DOMAIN containers : Flip(n) \/ Recreate(n)
      BY <1>9
    <2>2. \E c, s : /\ containers' = [containers EXCEPT ![n] = c]
                    /\ c.state = s /\ Changed(n, s)
      <3>1. CASE Flip(n)
        <4> DEFINE s == IF containers[n].state = "running"
                        THEN "exited" ELSE "running"
                   c == [containers[n] EXCEPT !.state = s]
        <4>1. containers' = [containers EXCEPT ![n] = c] /\ Changed(n, s)
          BY <3>1 DEF Flip, InState
        <4>2. c.state = s
          BY <2>1 DEF IInv, HostInv, AnyContainer
        <4> HIDE DEF c, s
        <4>3. QED
          BY <4>1, <4>2
      <3>2. CASE Recreate(n)
        <4> DEFINE c == [containers[n] EXCEPT !.id = drift + 1,
                                              !.state = "running"]
        <4>1. containers' = [containers EXCEPT ![n] = c]
              /\ Changed(n, "running")
          BY <3>2 DEF Recreate
        <4>2. c.state = "running"
          BY <2>1 DEF IInv, HostInv, AnyContainer
        <4> HIDE DEF c
        <4>3. QED
          BY <4>1, <4>2
      <3>3. QED
        BY <2>1, <3>1, <3>2
    <2>3. PICK c, s : /\ containers' = [containers EXCEPT ![n] = c]
                      /\ c.state = s /\ Changed(n, s)
      BY <2>2
    <2>4. CASE n = "postgres"
      BY <1>2, <1>6, <2>3, <2>4
    <2>5. CASE n # "postgres"
      BY <1>2, <1>7, <2>3, <2>5
    <2>6. QED
      BY <2>4, <2>5
  <1>10. QED
    BY <1>8, <1>9

\* What becomes of postgres when its state is set.
LEMMA StateOf ==
    ASSUME HostInv, "postgres" \in DOMAIN containers, NEW s,
           containers' = InState("postgres", s)
    PROVE  /\ "postgres" \in DOMAIN containers'
           /\ containers'["postgres"].state = s
           /\ containers'["postgres"].id = containers["postgres"].id
  <1> DEFINE c == [containers["postgres"] EXCEPT !.state = s]
  <1>1. containers' = [containers EXCEPT !["postgres"] = c]
    BY DEF InState
  <1>2. c.state = s /\ c.id = containers["postgres"].id
    BY DEF HostInv, AnyContainer
  <1> HIDE DEF c
  <1>3. QED
    BY <1>1, <1>2

\* A unit that stops the container it had started leaves what it had found.
LEMMA StoppedAgain ==
    ASSUME IInv, OwnInv, PostgresInv, NEW id,
           wanted # "unknown" => Opened /\ Exactly("postgres", id),
           containers' = Stopped("postgres", id), wanted' = wanted,
           ~BackupOpen', \A k \in DOMAIN jobs' : ~JobOpen(k)'
    PROVE  PostgresInv'
  <1>1. ASSUME wanted # "unknown"
        PROVE  containers'["postgres"].state = wanted
    <2>1. wanted = "exited" /\ containers' = InState("postgres", "exited")
      BY <1>1 DEF PostgresInv, Stopped
    <2>2. QED
      BY <2>1, StateOf DEF IInv, OwnInv, HostOwn
  <1>2. QED
    BY <1>1 DEF PostgresInv, Opened

\* A unit that does not stop what it had started leaves postgres running.
LEMMA LeftOpen ==
    ASSUME PostgresInv, wanted # "unknown" => Opened,
           containers' = containers, wanted' = wanted, leftRunning',
           ~BackupOpen', \A k \in DOMAIN jobs' : ~JobOpen(k)'
    PROVE  PostgresInv'
  BY DEF PostgresInv, Opened

\* The evidence unit begins, reads and ends.
LEMMA BackupKeeps ==
    ASSUME IInv, OwnInv, FoundInv, RunBackup
    PROVE  FoundInv'
  <1>1. PICK R, D : backup \in BackupSet(R, D)
    BY DEF IInv, BackupInv
  <1>2. /\ jobs' = jobs /\ wanted' = wanted /\ backup.live
        /\ "postgres" \in DOMAIN containers
    BY DEF RunBackup, BeginBackup, ReadBackup, EndBackup, history, OwnInv, HostOwn
  <1>3. \A k \in DOMAIN jobs : /\ JobOpen(k)' <=> JobOpen(k)
                               /\ Action(k)' = Action(k)
    BY <1>2 DEF JobOpen, Action
  <1>4. ASSUME ~backup'.live, NEW stops \in BOOLEAN, CleanUp(stops)
        PROVE  PostgresInv'
    <2>1. ~BackupOpen'
      BY <1>4 DEF BackupOpen
    <2>2. CASE ~BackupOpen
      <3>1. stops /\ containers' = containers /\ (leftRunning => leftRunning')
        BY <1>2, <1>4, <2>2 DEF BackupOpen, CleanUp, CleanedUp
      <3>2. QED
        BY <1>2, <1>3, <2>1, <2>2, <3>1, NothingOpened DEF FoundInv
    <2>3. CASE BackupOpen /\ wanted # "unknown"
      <3>1. /\ Opened /\ Exactly("postgres", backup.request[2])
            /\ \A k \in DOMAIN jobs : ~JobOpen(k)
        BY <2>3 DEF FoundInv, PostgresInv, Opened
      <3>2. CASE stops
        <4>1. containers' = Stopped("postgres", backup.request[2])
          BY <1>4, <2>3, <3>2 DEF CleanUp, CleanedUp, BackupOpen
        <4>2. QED
          BY <1>2, <1>3, <2>1, <3>1, <4>1, StoppedAgain DEF FoundInv
      <3>3. CASE ~stops
        <4>1. containers' = containers /\ leftRunning'
          BY <1>4, <3>3 DEF CleanUp
        <4>2. QED
          BY <1>2, <1>3, <2>1, <3>1, <4>1, LeftOpen DEF FoundInv
      <3>4. QED
        BY <3>2, <3>3
    <2>4. CASE wanted = "unknown"
      BY <1>2, <2>4 DEF PostgresInv
    <2>5. QED
      BY <2>2, <2>3, <2>4
  <1>5. ASSUME NEW state \in {"running", "passed", "failed"},
               backup' = Backup(state)
        PROVE  /\ backup'.state = state /\ backup'.live = (state = "running")
               /\ backup'.started = backup.started
               /\ backup'.request = backup.request
    BY <1>1, <1>5 DEF Backup, BackupSet
  <1>6. CASE BeginBackup
    <2>1. backup.state = "pending" /\ ~backup.started /\ ~BackupOpen
          /\ backup.request[3] \in {"run", "run-stopped"}
      BY <1>6 DEF BeginBackup, FoundInv, BackupKind, BackupOpen
    <2>2. CASE containers' = containers /\ backup' = Backup("failed")
      <3>1. ~backup'.live /\ backup'.state = "failed"
        BY <1>5, <2>2
      <3>2. ~BackupOpen' /\ leftRunning' = leftRunning
        BY <1>6, <3>1 DEF BeginBackup, BackupOpen, history
      <3>3. PostgresInv'
        BY <1>2, <1>3, <2>1, <2>2, <3>2, NothingOpened DEF FoundInv
      <3>4. QED
        BY <3>1, <3>3 DEF FoundInv, BackupKind
    <2>3. ASSUME Exactly("postgres", backup.request[2]), leftRunning' = leftRunning,
                 containers' = InState("postgres", "running"),
                 backup' = [Backup("running") EXCEPT
                               !.started = backup.request[3] = "run-stopped"],
                 containers["postgres"].state =
                    IF backup.request[3] = "run" THEN "running" ELSE "exited"
          PROVE  FoundInv'
      <3>1. /\ backup'.state = "running" /\ backup'.live
            /\ backup'.started = (backup.request[3] = "run-stopped")
            /\ backup'.request = backup.request
        BY <1>1, <2>3 DEF Backup, BackupSet
      <3>2. /\ "postgres" \in DOMAIN containers'
            /\ containers'["postgres"].state = "running"
            /\ containers'["postgres"].id = containers["postgres"].id
        BY <1>2, <2>3, StateOf DEF IInv
      <3>3. \A id : Exactly("postgres", id)' <=> Exactly("postgres", id)
        BY <1>2, <3>2 DEF Exactly
      <3>4. ASSUME wanted # "unknown"
            PROVE  /\ BackupOpen' =>
                         /\ Exactly("postgres", backup.request[2])'
                         /\ \A j \in DOMAIN jobs' : ~JobOpen(j)'
                   /\ \A j \in DOMAIN jobs' :
                         JobOpen(j)' => Exactly("postgres", Action(j).id)'
                   /\ Opened' => wanted' = "exited"
                   /\ ~Opened' => \/ wanted' = "running"
                                  \/ wanted' = "exited" /\ leftRunning'
        <4>1. \A j \in DOMAIN jobs' :
                 JobOpen(j)' => Exactly("postgres", Action(j).id)'
          BY <1>2, <1>3, <3>2, <3>4 DEF FoundInv, PostgresInv, Exactly
        <4>2. Exactly("postgres", backup.request[2])'
          BY <2>3, <3>1, <3>2 DEF Exactly
        <4>3. CASE backup.request[3] = "run"
          <5>1. ~BackupOpen' /\ containers["postgres"].state = "running"
            BY <2>3, <3>1, <4>3 DEF BackupOpen
          <5>2. Opened' <=> Opened
            BY <1>2, <1>3, <2>1, <5>1 DEF Opened
          <5>3. QED
            BY <1>2, <2>3, <3>4, <4>1, <5>1, <5>2 DEF FoundInv, PostgresInv
        <4>4. CASE backup.request[3] = "run-stopped"
          <5>1. BackupOpen' /\ containers["postgres"].state = "exited"
            BY <2>3, <3>1, <4>4 DEF BackupOpen
          <5>2. ~Opened /\ wanted = "exited"
            BY <3>4, <5>1 DEF FoundInv, PostgresInv
          <5>3. Opened' /\ \A j \in DOMAIN jobs' : ~JobOpen(j)'
            BY <1>2, <1>3, <5>1, <5>2 DEF Opened
          <5>4. QED
            BY <1>2, <4>1, <4>2, <5>2, <5>3
        <4>5. QED
          BY <2>1, <4>3, <4>4
      <3>5. PostgresInv'
        BY <1>2, <3>2, <3>4 DEF PostgresInv
      <3>6. QED
        BY <2>1, <3>1, <3>5 DEF FoundInv, BackupKind
    <2>4. QED
      BY <1>6, <2>2, <2>3 DEF BeginBackup, history
  <1>7. CASE ReadBackup
    <2>1. backup.state = "running"
      BY <1>7 DEF ReadBackup
    <2>2. ASSUME NEW source,
                 backup' = [backup EXCEPT !.read = databases, !.source = source],
                 containers' = containers, leftRunning' = leftRunning
          PROVE  FoundInv'
      <3>1. /\ backup'.live = backup.live /\ backup'.state = backup.state
            /\ backup'.started = backup.started
            /\ backup'.request = backup.request
        BY <1>1, <2>2 DEF BackupSet
      <3>2. PostgresInv'
        BY <1>2, <1>3, <2>2, <3>1, NothingOpened DEF FoundInv, BackupOpen
      <3>3. QED
        BY <3>1, <3>2 DEF FoundInv, BackupKind
    <2>3. ASSUME NEW stops \in BOOLEAN, CleanUp(stops), backup' = Backup("failed")
          PROVE  FoundInv'
      <3>1. ~backup'.live /\ backup'.state = "failed"
        BY <1>5, <2>3
      <3>2. PostgresInv'
        BY <1>4, <2>3, <3>1
      <3>3. QED
        BY <3>1, <3>2 DEF FoundInv, BackupKind
    <2>4. QED
      BY <1>7, <2>2, <2>3 DEF ReadBackup
  <1>8. CASE EndBackup
    <2>1. PICK stops \in BOOLEAN, state \in {"passed", "failed"} :
             CleanUp(stops) /\ backup' = Backup(state)
      BY <1>8 DEF EndBackup
    <2>2. ~backup'.live /\ backup'.state \in {"passed", "failed"}
      BY <1>5, <2>1
    <2>3. PostgresInv'
      BY <1>4, <2>1, <2>2
    <2>4. QED
      BY <2>2, <2>3 DEF FoundInv, BackupKind
  <1>9. QED
    BY <1>6, <1>7, <1>8 DEF RunBackup

\* No job beside one that works has postgres open.
LEMMA OneOpen ==
    ASSUME IInv, OwnInv, NEW j \in DOMAIN jobs, jobs[j].unit = "run"
    PROVE  \A k \in DOMAIN jobs : k # j => ~JobOpen(k)
  <1>1. ASSUME NEW k \in DOMAIN jobs, JobOpen(k)
        PROVE  k = j
    <2>1. jobs[k].unit = "run"
      BY <1>1 DEF JobOpen, OwnInv, JobsOwn, Placed
    <2>2. Held(k) /\ Held(j)
      BY <2>1 DEF IInv, JobsInv, JobInv, Held
    <2>3. QED
      BY <2>2 DEF IInv, JobsInv, JobInv
  <1>2. QED
    BY <1>1

\* A job opens postgres, drops the database and closes it.
LEMMA DatabaseKeeps ==
    ASSUME IInv, OwnInv, PostgresInv, NEW j \in DOMAIN jobs,
           OpenDatabase(j) \/ DropDatabase(j) \/ CloseDatabase(j)
    PROVE  PostgresInv'
  <1>1. PICK M : jobs \in [DOMAIN jobs -> JobSet(M)]
    BY DEF IInv, JobsInv, JobsTyped
  <1>2. /\ backup' = backup /\ wanted' = wanted
        /\ "postgres" \in DOMAIN containers
    BY DEF OpenDatabase, DropDatabase, CloseDatabase, JobsUnchanged, JobAlone,
       OwnInv, HostOwn
  <1>3. BackupOpen' <=> BackupOpen
    BY <1>2 DEF BackupOpen
  <1>4. /\ DOMAIN jobs' = DOMAIN jobs
        /\ \A k \in DOMAIN jobs : k # j => jobs'[k] = jobs[k]
        /\ jobs'[j].manifest = jobs[j].manifest
    BY JobMoves DEF OwnInv, JobStep, RunJob
  <1>5. \A k \in DOMAIN jobs : k # j => ~JobOpen(k)
    <2>1. jobs[j].unit = "run"
      BY DEF OpenDatabase, DropDatabase, CloseDatabase, At
    <2>2. QED
      BY <2>1, OneOpen
  <1>6. jobs' = Failed(j) \/ jobs' = Advanced(j) => ~JobOpen(j)'
    <2>1. jobs' = Failed(j) => jobs'[j].db = "idle"
      BY <1>1 DEF Failed, JobSet
    <2>2. jobs' = Advanced(j) => jobs'[j].db = "idle"
      BY <1>1, AdvancedIs
    <2>3. QED
      BY <2>1, <2>2 DEF JobOpen
  <1>7. ASSUME NEW d \in {"found", "started", "dropped"},
               jobs' = [jobs EXCEPT ![j].db = d]
        PROVE  jobs'[j].db = d /\ jobs'[j].at = jobs[j].at
    BY <1>1, <1>7 DEF JobSet
  <1>8. ASSUME jobs[j].db \notin {"started", "dropped"}, ~JobOpen(j)',
               containers' = containers, leftRunning => leftRunning'
        PROVE  PostgresInv'
    BY <1>2, <1>3, <1>4, <1>5, <1>8, NothingOpened DEF JobOpen
  <1>9. ASSUME JobOpen(j), jobs' = Failed(j) \/ jobs' = Advanced(j),
               \/ containers' = Stopped("postgres", Action(j).id)
               \/ containers' = containers /\
                     (Exactly("postgres", Action(j).id) => leftRunning')
        PROVE  PostgresInv'
    <2>1. CASE wanted = "unknown"
      BY <1>2, <2>1 DEF PostgresInv
    <2>2. CASE wanted # "unknown"
      <3>1. Opened /\ Exactly("postgres", Action(j).id) /\ ~BackupOpen
        BY <1>9, <2>2 DEF PostgresInv, Opened
      <3>2. \A k \in DOMAIN jobs' : ~JobOpen(k)'
        BY <1>4, <1>5, <1>6, <1>9 DEF JobOpen
      <3>3. QED
        BY <1>2, <1>3, <1>9, <3>1, <3>2, StoppedAgain, LeftOpen
    <2>3. QED
      BY <2>1, <2>2
  <1>10. CASE OpenDatabase(j)
    <2>1. jobs[j].db = "idle" /\ ~JobOpen(j) /\ leftRunning' = leftRunning
      BY <1>10 DEF OpenDatabase, JobsUnchanged, JobOpen
    <2>2. CASE jobs' = Failed(j) /\ containers' = containers
      BY <1>6, <1>8, <2>1, <2>2 DEF JobOpen
    <2>3. ASSUME Exactly("postgres", Action(j).id),
                 jobs' = [jobs EXCEPT ![j].db =
                            IF Running("postgres", Action(j).id)
                            THEN "found" ELSE "started"],
                 containers' = InState("postgres", "running")
          PROVE  PostgresInv'
      <3>1. /\ "postgres" \in DOMAIN containers'
            /\ containers'["postgres"].state = "running"
            /\ containers'["postgres"].id = containers["postgres"].id
        BY <1>2, <2>3, StateOf DEF IInv
      <3>2. CASE Running("postgres", Action(j).id)
        <4>1. jobs'[j].db = "found" /\ containers["postgres"].state = "running"
          BY <1>7, <2>3, <3>2 DEF Running
        <4>2. containers' = containers
          <5>1. [containers["postgres"] EXCEPT !.state = "running"]
                   = containers["postgres"]
            BY <1>2, <4>1 DEF IInv, HostInv, AnyContainer
          <5>2. QED
            BY <1>2, <2>3, <5>1 DEF InState, IInv, HostInv
        <4>3. QED
          BY <1>8, <2>1, <4>1, <4>2 DEF JobOpen
      <3>3. CASE ~Running("postgres", Action(j).id)
        <4>1. jobs'[j].db = "started" /\ jobs'[j].at = jobs[j].at
          BY <1>7, <2>3, <3>3
        <4>2. containers["postgres"].state = "exited"
          BY <1>2, <2>3, <3>3 DEF Running, IInv, HostInv, AnyContainer
        <4>3. CASE wanted # "unknown"
          <5>1. ~Opened /\ wanted = "exited"
            BY <4>2, <4>3 DEF PostgresInv
          <5>2. ~BackupOpen' /\ Opened'
            BY <1>3, <1>4, <4>1, <5>1 DEF Opened, JobOpen
          <5>3. Exactly("postgres", Action(j).id)'
            BY <1>4, <2>3, <3>1, <4>1 DEF Exactly, Action
          <5>4. \A k \in DOMAIN jobs' :
                   JobOpen(k)' => Exactly("postgres", Action(k).id)'
            BY <1>4, <1>5, <5>3 DEF JobOpen
          <5>5. QED
            BY <1>2, <3>1, <5>1, <5>2, <5>4 DEF PostgresInv
        <4>4. CASE wanted = "unknown"
          BY <1>2, <4>4 DEF PostgresInv
        <4>5. QED
          BY <4>3, <4>4
      <3>4. QED
        BY <3>2, <3>3
    <2>4. QED
      BY <1>10, <2>2, <2>3 DEF OpenDatabase
  <1>11. CASE DropDatabase(j)
    <2>1. ASSUME NEW stops \in BOOLEAN, ~stops => jobs[j].db = "started",
                 jobs' = Failed(j), leftRunning' = (leftRunning \/ ~stops),
                 containers' = IF jobs[j].db = "started" /\ stops
                               THEN Stopped("postgres", Action(j).id)
                               ELSE containers
          PROVE  PostgresInv'
      <3>1. jobs[j].db \in {"found", "started"}
        BY <1>11 DEF DropDatabase
      <3>2. CASE jobs[j].db = "started"
        BY <1>9, <2>1, <3>2 DEF JobOpen
      <3>3. CASE jobs[j].db = "found"
        BY <1>6, <1>8, <2>1, <3>3
      <3>4. QED
        BY <3>1, <3>2, <3>3
    <2>2. CASE containers' = containers /\ leftRunning' = leftRunning
               /\ jobs[j].db = "found" /\ jobs' = Advanced(j)
      BY <1>6, <1>8, <2>2
    <2>3. CASE containers' = containers /\ leftRunning' = leftRunning
               /\ jobs[j].db = "started"
               /\ jobs' = [jobs EXCEPT ![j].db = "dropped"]
      <3>1. jobs'[j].db = "dropped" /\ jobs'[j].at = jobs[j].at
        BY <1>7, <2>3
      <3>2. QED
        BY <1>2, <1>3, <1>4, <1>5, <2>3, <3>1, NothingOpened DEF JobOpen
    <2>4. QED
      BY <1>11, <2>1, <2>2, <2>3 DEF DropDatabase
  <1>12. CASE CloseDatabase(j)
    <2>1. JobOpen(j)
      BY <1>12 DEF CloseDatabase, JobOpen
    <2>2. CASE wanted # "unknown"
      <3>1. Exactly("postgres", Action(j).id)
        BY <2>1, <2>2 DEF PostgresInv
      <3>2. QED
        BY <1>9, <1>12, <2>1, <3>1 DEF CloseDatabase
    <2>3. CASE wanted = "unknown"
      BY <1>2, <2>3 DEF PostgresInv
    <2>4. QED
      BY <2>2, <2>3
  <1>13. QED
    BY <1>10, <1>11, <1>12

\* Every step keeps the invariant.
LEMMA FoundStep ==
    ASSUME IInv, OwnInv, FoundInv, Next
    PROVE  FoundInv'
  <1>1. HostGrows
    BY HostStep DEF IInv
  <1>2. "postgres" \in DOMAIN containers /\ "postgres" \in DOMAIN containers'
        /\ HostOwn'
    BY <1>1, HostOwnStep DEF OwnInv, HostOwn
  <1>3. PICK R, D : backup \in BackupSet(R, D)
    BY DEF IInv, BackupInv
  <1>4. CASE RunBackup
    BY <1>4, BackupKeeps
  <1>5. CASE KillBackup
    <2>1. /\ backup' = [backup EXCEPT !.live = FALSE] /\ backup.state = "running"
          /\ UNCHANGED <<containers, jobs, wanted>>
          /\ leftRunning' = (leftRunning \/ backup.started)
      BY <1>5 DEF KillBackup, host
    <2>2. ~backup'.live /\ backup'.state = "running" /\ ~BackupOpen'
      BY <1>3, <2>1 DEF BackupSet, BackupOpen
    <2>3. PostgresInv'
      <3>1. CASE BackupOpen
        <4>1. wanted # "unknown" => Opened /\ \A k \in DOMAIN jobs : ~JobOpen(k)
          BY <3>1 DEF FoundInv, PostgresInv, Opened
        <4>2. leftRunning'
          BY <2>1, <3>1 DEF BackupOpen
        <4>3. CASE wanted # "unknown"
          BY <2>1, <2>2, <4>1, <4>2, <4>3, LeftOpen DEF FoundInv, JobOpen
        <4>4. CASE wanted = "unknown"
          BY <2>1, <4>4 DEF PostgresInv
        <4>5. QED
          BY <4>3, <4>4
      <3>2. CASE ~BackupOpen
        BY <1>2, <2>1, <2>2, <3>2, NothingOpened DEF FoundInv, JobOpen
      <3>3. QED
        BY <3>1, <3>2
    <2>4. QED
      BY <2>2, <2>3 DEF FoundInv, BackupKind
  <1>6. CASE \E mode \in {"run", "run-stopped"} : SubmitBackup(mode)
    <2>1. PICK mode \in {"run", "run-stopped"} : SubmitBackup(mode)
      BY <1>6
    <2>2. /\ backup'.state = "pending" /\ ~backup'.started /\ ~backup.live
          /\ backup'.request[3] = mode
          /\ UNCHANGED <<containers, jobs, wanted, leftRunning>>
      BY <2>1 DEF SubmitBackup, host, history
    <2>3. PostgresInv'
      BY <1>2, <2>2, NothingOpened DEF FoundInv, BackupOpen, JobOpen
    <2>4. QED
      BY <2>2, <2>3 DEF FoundInv, BackupKind
  <1>7. ASSUME ~RunBackup, ~KillBackup,
               ~\E mode \in {"run", "run-stopped"} : SubmitBackup(mode)
        PROVE  FoundInv'
    <2>1. backup' = backup
      BY <1>7, WhoWrites
    <2>2. BackupKind'
      BY <2>1 DEF FoundInv, BackupKind
    <2>3. BackupOpen' <=> BackupOpen
      BY <2>1 DEF BackupOpen
    <2>4. CASE (\E n \in DOMAIN containers : Flip(n) \/ Recreate(n)) \/ Borrow
      BY <1>2, <2>2, <2>4, DriftKeeps DEF FoundInv
    <2>5. CASE \E j \in DOMAIN jobs :
                  OpenDatabase(j) \/ DropDatabase(j) \/ CloseDatabase(j)
      BY <2>2, <2>5, DatabaseKeeps DEF FoundInv
    <2>6. CASE \E j \in DOMAIN jobs : KillUnit(j)
      <3>1. PICK j \in DOMAIN jobs : KillUnit(j)
        BY <2>6
      <3>2. /\ containers' = containers /\ wanted' = wanted
            /\ leftRunning' = (leftRunning \/ JobOpen(j))
        BY <3>1 DEF KillUnit, JobAlone, HostUnchanged, JobOpen
      <3>3. /\ DOMAIN jobs' = DOMAIN jobs
            /\ \A k \in DOMAIN jobs : k # j => jobs'[k] = jobs[k]
        BY <3>1, JobMoves DEF JobStep, OwnInv
      <3>4. ~JobOpen(j)'
        BY <3>1 DEF KillUnit, JobOpen, IInv, JobsInv, JobsTyped, JobSet
      <3>5. CASE ~JobOpen(j)
        <4>1. PostgresInv'
          BY <1>2, <2>1, <2>3, <3>2, <3>3, <3>4, <3>5, NothingOpened
             DEF FoundInv, JobOpen
        <4>2. QED
          BY <2>2, <4>1 DEF FoundInv
      <3>6. CASE JobOpen(j) /\ wanted = "unknown"
        BY <2>2, <3>2, <3>6 DEF FoundInv, PostgresInv
      <3>7. CASE JobOpen(j) /\ wanted # "unknown"
        <4>1. Opened /\ ~BackupOpen
          BY <3>7 DEF FoundInv, PostgresInv, Opened
        <4>2. \A k \in DOMAIN jobs' : ~JobOpen(k)'
          BY <3>1, <3>3, <3>4, <3>7, OneOpen DEF KillUnit, JobOpen
        <4>3. PostgresInv'
          BY <2>3, <3>2, <3>7, <4>1, <4>2, LeftOpen DEF FoundInv
        <4>4. QED
          BY <2>2, <4>3 DEF FoundInv
      <3>8. QED
        BY <3>5, <3>6, <3>7
    <2>7. ASSUME ~Borrow, \A n \in DOMAIN containers : ~Flip(n) /\ ~Recreate(n),
                 \A j \in DOMAIN jobs : ~(OpenDatabase(j) \/ DropDatabase(j)
                                          \/ CloseDatabase(j) \/ KillUnit(j))
          PROVE  FoundInv'
      <3>1. /\ containers'["postgres"] = containers["postgres"]
            /\ wanted' = wanted /\ leftRunning' = leftRunning
        BY <1>1, <1>7, <2>7, Bystanders
      <3>2. CASE jobs' = jobs
        BY <1>2, <2>1, <2>2, <2>3, <3>1, <3>2, NothingOpened
           DEF FoundInv, JobOpen
      <3>3. CASE Submit
        BY <1>2, <2>1, <2>2, <2>3, <3>1, <3>3, SubmitOpens, NothingOpened
           DEF FoundInv, JobOpen
      <3>4. CASE \E j \in DOMAIN jobs : JobStep(j)
        <4>1. PICK j \in DOMAIN jobs : JobStep(j)
          BY <3>4
        <4>2. Quiet(j)
          BY <2>7, <4>1 DEF JobStep, RunJob, Quiet
        <4>3. ~JobOpen(j) /\ ~JobOpen(j)'
          BY <4>2, QuietJob DEF OwnInv, JobOpen
        <4>4. /\ DOMAIN jobs' = DOMAIN jobs
              /\ \A k \in DOMAIN jobs : k # j => jobs'[k] = jobs[k]
          BY <4>1, JobMoves DEF OwnInv
        <4>5. PostgresInv'
          BY <1>2, <2>1, <2>3, <3>1, <4>3, <4>4, NothingOpened
             DEF FoundInv, JobOpen
        <4>6. QED
          BY <2>2, <4>5 DEF FoundInv
      <3>5. QED
        BY <3>2, <3>3, <3>4, WhoWrites
    <2>8. QED
      BY <2>4, <2>5, <2>6, <2>7
  <1>8. QED
    BY <1>4, <1>5, <1>6, <1>7

-----------------------------------------------------------------------------
(* The theorem. *)

\* However the evidence job and the retirements overlap, and whatever fails, no unit
\* stops a postgres that people and deployments wanted to run, and one that they wanted
\* stopped only runs after a unit was killed that had started it, or failed to stop it.
THEOREM PostgresAlwaysAsFound == Spec => []PostgresAsFound
  <1>1. Init => FoundInv
    <2> SUFFICES ASSUME Init PROVE FoundInv
      OBVIOUS
    <2>1. containers["postgres"].state = wanted
      BY DEF Init
    <2>2. DOMAIN jobs = {} /\ ~backup.live /\ backup.state = "missing"
      BY DEF Init
    <2>3. QED
      BY <2>1, <2>2 DEF FoundInv, PostgresInv, BackupKind, BackupOpen, Opened
  <1>2. ASSUME IInv, OwnInv, FoundInv, UNCHANGED vars
        PROVE  FoundInv'
    <2>1. UNCHANGED <<containers, backup, jobs, wanted, leftRunning>>
      BY <1>2 DEF vars, host, history
    <2>2. QED
      BY <1>2, <2>1 DEF FoundInv, PostgresInv, BackupKind, BackupOpen, JobOpen,
         Opened, Exactly, Action
  <1>3. IInv /\ OwnInv /\ FoundInv /\ [Next]_vars => FoundInv'
    BY <1>2, FoundStep
  <1>4. FoundInv => PostgresAsFound
    BY DEF FoundInv, PostgresInv, PostgresAsFound, PostgresInUse, Opened,
       BackupOpen, JobOpen
  <1>5. QED
    BY <1>1, <1>3, <1>4, HostInvariant, PTL DEF Spec
=============================================================================
