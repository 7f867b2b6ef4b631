----------------------------- MODULE KeplerProofs -----------------------------
(***************************************************************************)
(* What holds of the recovery of every host, for any number of             *)
(* inventories, jobs, failures and deployments.                            *)
(***************************************************************************)
EXTENDS KeplerRecovery, FiniteSetTheorems, SequenceTheorems, TLAPS

-----------------------------------------------------------------------------
(* The inductive invariant. *)

\* Strings; that a literal is one is unknown to the provers.
Words == STRING \union {"", "bridge"}

AnyContainer ==
    [id : Nat, state : {"running", "exited"}, project : Words, service : Words,
     image : DOMAIN Repository, mounts : SUBSET Words, network : Words]

\* No container has an id that a deployment has still to give.
HostInv ==
    /\ containers \in [DOMAIN containers -> AnyContainer]
    /\ drift \in Nat
    /\ \A n \in DOMAIN containers : containers[n].id <= drift
    /\ images \subseteq DOMAIN Repository
    /\ IsFiniteSet(DOMAIN containers) /\ IsFiniteSet(volumes)
    /\ IsFiniteSet(images) /\ IsFiniteSet(paths)

\* A container whose dump was restored, or that is no longer postgres and never will be.
Good(id) ==
    \/ id \in verified
    \/ id \in Nat /\ id <= drift /\ ~Exactly("postgres", id)

\* What an inventory saw.
Seen(inv) ==
    /\ \A n \in DOMAIN inv.containers :
          inv.containers[n].id \in Nat /\ inv.containers[n].id <= drift
    /\ IsFiniteSet(DOMAIN inv.containers)
    /\ IsFiniteSet(inv.volumes) /\ IsFiniteSet(inv.images)

Resources(r) ==
    /\ IsFiniteSet(r.containers) /\ IsFiniteSet(r.paths)
    /\ IsFiniteSet(r.volumes) /\ IsFiniteSet(r.databases)
    /\ IsFiniteSet(r.secrets) /\ IsFiniteSet(r.images)

\* The evidence names finitely many resources.
Finite(e) ==
    (\A f \in Families : Resources(e.families[f])) /\ IsFiniteSet(e.dispositions)

\* Evidence is of an inventory, and its database was dumped.
Evident(e) ==
    /\ Seen(e.inventory) /\ Good(e.source)
    /\ Finite(e)
    /\ \A f \in Families :
          e.families[f].containers \subseteq DOMAIN e.inventory.containers
    /\ e.dispositions \subseteq DOMAIN e.inventory.containers

\* A manifest removes containers by ids that were seen, the database from a container
\* whose dump was restored, and an image at least.
Sound(m) ==
    /\ Len(m.actions) \in Nat /\ DOMAIN m.actions = 1 .. Len(m.actions)
    /\ \E i \in DOMAIN m.actions : m.actions[i].kind = "image"
    /\ \A i \in DOMAIN m.actions :
          /\ m.actions[i].kind = "container" =>
                m.actions[i].id \in Nat /\ m.actions[i].id <= drift
          /\ m.actions[i].kind = "database" => Good(m.actions[i].id)

FilesInv ==
    /\ inventory # None => Seen(inventory)
    /\ pathRecords # None => IsFiniteSet(pathRecords)
    /\ database # None => Good(database.source)
    /\ evidence # None => Evident(evidence)
    /\ manifest # None => Sound(manifest)
    /\ approved # None => Sound(approved)

BackupSet(R, D) ==
    [state : {"missing", "pending", "running", "passed", "failed"},
     live : BOOLEAN, request : R, started : BOOLEAN, source : R, read : D]

\* The container that was dumped is the one asked for, or that is gone.
Dumped(source, id) == source = id \/ ~Exactly("postgres", id)

BackupInv ==
    /\ \E R, D : backup \in BackupSet(R, D)
    /\ backup.state \in {"pending", "running", "passed"} =>
          backup.request[2] \in Nat /\ backup.request[2] <= drift
    /\ backup.state = "pending" => backup.read = {}
    /\ backup.state = "passed" => backup.read # {}
    /\ backup.state = "running" /\ backup.read # {} =>
          Dumped(backup.source, backup.request[2])
    /\ backup.state = "passed" => Good(backup.request[2])

\* What an action leaves behind.
Over(a) ==
    CASE a.kind = "container" -> ~Exactly(a.target, a.id)
      [] a.kind = "volume" -> \A v \in volumes : v.name # a.target
      [] a.kind = "image" -> a.target \notin images
      [] a.kind = "database" -> a.target \notin databases
      [] OTHER -> a.target \notin paths

JobSet(M) ==
    [manifest : M, state : {"pending", "running", "passed", "failed"},
     unit : {"none", "queued", "run"}, at : Nat \ {0},
     db : {"idle", "found", "started", "dropped"}]

JobsTyped == \E M : jobs \in [DOMAIN jobs -> JobSet(M)]

\* A unit has done what precedes the action it has come to, and so has one that came
\* to the end and failed or was killed there.
JobInv(j) ==
    /\ Sound(jobs[j].manifest)
    /\ Held(j) => j = active
    /\ jobs[j].unit = "queued" =>
          jobs[j].state = "pending" /\ jobs[j].at = 1 /\ jobs[j].db = "idle"
    /\ jobs[j].unit = "run" => jobs[j].state = "running"
    /\ jobs[j].state # "passed"
    /\ jobs[j].unit = "run" \/ jobs[j].at > Len(jobs[j].manifest.actions) =>
          \A i \in DOMAIN jobs[j].manifest.actions :
             i < jobs[j].at => Over(jobs[j].manifest.actions[i])
    /\ jobs[j].unit = "run" /\ jobs[j].db = "dropped" =>
          Action(j).target \notin databases

JobsInv == JobsTyped /\ \A j \in DOMAIN jobs : JobInv(j)

IInv == HostInv /\ FilesInv /\ BackupInv /\ JobsInv

-----------------------------------------------------------------------------
(* The retirement plan. *)

\* A sequence of the elements of A, each of them at least once.
Lists(s, A) == s \in Seq(A) /\ \A a \in A : \E i \in DOMAIN s : s[i] = a

\* The actions on what the evidence names, in no order.
ContainerDrafts(inv, names) ==
    {[kind |-> "container", target |-> n, id |-> inv.containers[n].id] : n \in names}

Drafts(kind, targets, id) ==
    {[kind |-> kind, target |-> t, id |-> id] : t \in targets}

FamilyDrafts(e, f) ==
    LET r == e.families[f]
    IN ContainerDrafts(e.inventory, r.containers)
       \union Drafts("path", r.paths, 0)
       \union Drafts("volume", {v.name : v \in r.volumes}, 0)
       \union Drafts("database", r.databases, e.source)
       \union Drafts("secret", r.secrets, 0)
       \union Drafts("image", r.images, 0)

DispositionDrafts(e) ==
    ContainerDrafts(e.inventory, e.dispositions)
    \union Drafts("artifact", {F5Path}, 0)
    \union Drafts("image", {e.f5image}, 0)

ManifestDrafts(e) ==
    FamilyDrafts(e, "airflow") \union FamilyDrafts(e, "gitlab")
    \union FamilyDrafts(e, "restate") \union DispositionDrafts(e)

\* A set in some order: each element is in its place.
LEMMA InSomeOrder ==
    ASSUME NEW S, IsFiniteSet(S)
    PROVE  /\ Cardinality(S) \in Nat
           /\ SetToSeq(S) \in [1 .. Cardinality(S) -> S]
           /\ \A x \in S : \E i \in 1 .. Cardinality(S) : SetToSeq(S)[i] = x
  <1> DEFINE n == Cardinality(S)
  <1>1. n \in Nat /\ ExistsBijection(1 .. n, S)
    BY FS_CardinalityType
  <1>2. \E f \in [1 .. n -> S] : IsInjective(f)
    BY <1>1 DEF ExistsBijection, Bijection, Injection, IsInjective
  <1>3. SetToSeq(S) \in [1 .. n -> S] /\ IsInjective(SetToSeq(S))
    BY <1>2 DEF SetToSeq
  <1>4. PICK f : f = SetToSeq(S)
    OBVIOUS
  <1>5. f \in Injection(1 .. n, S)
    BY <1>3, <1>4 DEF Injection, IsInjective
  <1>6. Cardinality(1 .. n) = n
    BY <1>1, FS_Interval
  <1> HIDE DEF n
  <1>7. f \in Surjection(1 .. n, S)
    BY <1>5, <1>6, FS_Injection DEF n
  <1>8. QED
    BY <1>1, <1>3, <1>4, <1>7 DEF Surjection, n

\* What two sequences list, the one after the other lists.
LEMMA ListsBoth ==
    ASSUME NEW A, NEW B, NEW s, NEW t, Lists(s, A), Lists(t, B)
    PROVE  Lists(s \o t, A \union B)
  <1>1. s \in Seq(A \union B) /\ t \in Seq(A \union B)
    BY DEF Lists
  <1>2. s \o t \in Seq(A \union B)
    BY <1>1
  <1>3. ASSUME NEW a \in A
        PROVE  \E i \in DOMAIN (s \o t) : (s \o t)[i] = a
    <2>1. PICK i \in DOMAIN s : s[i] = a
      BY DEF Lists
    <2>2. i \in DOMAIN (s \o t) /\ (s \o t)[i] = a
      BY <1>1, <2>1
    <2>3. QED
      BY <2>2
  <1>4. ASSUME NEW b \in B
        PROVE  \E i \in DOMAIN (s \o t) : (s \o t)[i] = b
    <2>1. PICK i \in DOMAIN t : t[i] = b
      BY DEF Lists
    <2>2. Len(s) + i \in DOMAIN (s \o t) /\ (s \o t)[Len(s) + i] = b
      BY <1>1, <2>1
    <2>3. QED
      BY <2>2
  <1>5. QED
    BY <1>2, <1>3, <1>4 DEF Lists

\* The containers of a family, or the dispositions.
LEMMA ContainersListed ==
    ASSUME NEW inv, NEW names, IsFiniteSet(names)
    PROVE  Lists(ContainerActions(inv, names), ContainerDrafts(inv, names))
  <1> DEFINE n == Cardinality(names)
             q == SetToSeq(names)
             Act(x) == [kind |-> "container", target |-> x,
                        id |-> inv.containers[x].id]
             A == {Act(x) : x \in names}
  <1>1. /\ n \in Nat /\ q \in [1 .. n -> names]
        /\ \A x \in names : \E i \in 1 .. n : q[i] = x
    BY InSomeOrder
  <1> HIDE DEF n, q, Act
  <1>2. Lists([i \in 1 .. n |-> Act(q[i])], A)
    BY <1>1 DEF Lists
  <1>3. QED
    BY <1>2 DEF ContainerActions, ContainerDrafts, Act, n, q

\* The other resources.
LEMMA ResourcesListed ==
    ASSUME NEW kind, NEW targets, NEW id, IsFiniteSet(targets)
    PROVE  Lists(ResourceActions(kind, targets, id), Drafts(kind, targets, id))
  <1> DEFINE n == Cardinality(targets)
             q == SetToSeq(targets)
             Act(x) == [kind |-> kind, target |-> x, id |-> id]
             A == {Act(x) : x \in targets}
  <1>1. /\ n \in Nat /\ q \in [1 .. n -> targets]
        /\ \A x \in targets : \E i \in 1 .. n : q[i] = x
    BY InSomeOrder
  <1> HIDE DEF n, q, Act
  <1>2. Lists([i \in 1 .. n |-> Act(q[i])], A)
    BY <1>1 DEF Lists
  <1>3. QED
    BY <1>2 DEF ResourceActions, Drafts, Act, n, q

\* The names of finitely many volumes are finitely many.
LEMMA NamesFinite ==
    ASSUME NEW V, IsFiniteSet(V)
    PROVE  IsFiniteSet({v.name : v \in V})
  <1> DEFINE f == [v \in V |-> v.name]
  <1>1. f \in Surjection(V, {v.name : v \in V})
    BY DEF Surjection
  <1>2. QED
    BY <1>1, FS_Surjection

\* All the actions of a family.
LEMMA FamilyListed ==
    ASSUME NEW e, NEW f \in Families, Finite(e)
    PROVE  Lists(FamilyActions(e, f), FamilyDrafts(e, f))
  <1> DEFINE r == e.families[f]
             names == {v.name : v \in r.volumes}
  <1>1. Resources(r)
    BY DEF Finite
  <1>2. Lists(ContainerActions(e.inventory, r.containers),
              ContainerDrafts(e.inventory, r.containers))
    BY <1>1, ContainersListed DEF Resources
  <1>3. Lists(ResourceActions("path", r.paths, 0), Drafts("path", r.paths, 0))
    BY <1>1, ResourcesListed DEF Resources
  <1>4. Lists(ResourceActions("volume", names, 0), Drafts("volume", names, 0))
    BY <1>1, NamesFinite, ResourcesListed DEF Resources
  <1>5. Lists(ResourceActions("database", r.databases, e.source),
              Drafts("database", r.databases, e.source))
    BY <1>1, ResourcesListed DEF Resources
  <1>6. Lists(ResourceActions("secret", r.secrets, 0),
              Drafts("secret", r.secrets, 0))
    BY <1>1, ResourcesListed DEF Resources
  <1>7. Lists(ResourceActions("image", r.images, 0),
              Drafts("image", r.images, 0))
    BY <1>1, ResourcesListed DEF Resources
  <1> HIDE DEF r, names
  <1>8. QED
    BY <1>2, <1>3, <1>4, <1>5, <1>6, <1>7, ListsBoth
       DEF FamilyActions, FamilyDrafts, r, names

\* A manifest does exactly what its evidence names.
LEMMA ManifestListed ==
    ASSUME NEW e, Finite(e)
    PROVE  Lists(Manifest(e).actions, ManifestDrafts(e))
  <1>1. /\ Lists(FamilyActions(e, "airflow"), FamilyDrafts(e, "airflow"))
        /\ Lists(FamilyActions(e, "gitlab"), FamilyDrafts(e, "gitlab"))
        /\ Lists(FamilyActions(e, "restate"), FamilyDrafts(e, "restate"))
    BY FamilyListed DEF Families
  <1>2. Lists(DispositionActions(e), DispositionDrafts(e))
    <2>1. Lists(ContainerActions(e.inventory, e.dispositions),
                ContainerDrafts(e.inventory, e.dispositions))
      BY ContainersListed DEF Finite
    <2>2. /\ Lists(ResourceActions("artifact", {F5Path}, 0),
                   Drafts("artifact", {F5Path}, 0))
          /\ Lists(ResourceActions("image", {e.f5image}, 0),
                   Drafts("image", {e.f5image}, 0))
      BY FS_Singleton, ResourcesListed
    <2>3. QED
      BY <2>1, <2>2, ListsBoth DEF DispositionActions, DispositionDrafts
  <1>3. Lists(FamilyActions(e, "airflow") \o FamilyActions(e, "gitlab"),
              FamilyDrafts(e, "airflow") \union FamilyDrafts(e, "gitlab"))
    BY <1>1, ListsBoth
  <1>4. Lists(FamilyActions(e, "airflow") \o FamilyActions(e, "gitlab")
                 \o FamilyActions(e, "restate"),
              FamilyDrafts(e, "airflow") \union FamilyDrafts(e, "gitlab")
                 \union FamilyDrafts(e, "restate"))
    BY <1>1, <1>3, ListsBoth
  <1>5. Lists(FamilyActions(e, "airflow") \o FamilyActions(e, "gitlab")
                 \o FamilyActions(e, "restate") \o DispositionActions(e),
              ManifestDrafts(e))
    BY <1>2, <1>4, ListsBoth DEF ManifestDrafts
  <1>6. QED
    BY <1>5 DEF Manifest

\* Whatever the evidence is, its manifest is sound.
LEMMA ManifestSound ==
    ASSUME NEW e, Evident(e)
    PROVE  Sound(Manifest(e))
  <1> DEFINE m == Manifest(e)
  <1>1. Lists(m.actions, ManifestDrafts(e))
    BY ManifestListed DEF Evident
  <1>2. ASSUME NEW a \in ManifestDrafts(e)
        PROVE  /\ a.kind = "container" => a.id \in Nat /\ a.id <= drift
               /\ a.kind = "database" => Good(a.id)
    <2>1. /\ Seen(e.inventory) /\ Good(e.source)
          /\ e.dispositions \subseteq DOMAIN e.inventory.containers
          /\ \A f \in Families :
                e.families[f].containers \subseteq DOMAIN e.inventory.containers
      BY DEF Evident
    <2>2. ASSUME NEW names, names \subseteq DOMAIN e.inventory.containers,
                 a \in ContainerDrafts(e.inventory, names)
          PROVE  a.kind = "container" /\ a.id \in Nat /\ a.id <= drift
      BY <2>1, <2>2 DEF ContainerDrafts, Seen
    <2>3. ASSUME NEW kind, NEW targets, NEW id, a \in Drafts(kind, targets, id)
          PROVE  a.kind = kind /\ a.id = id
      BY <2>3 DEF Drafts
    <2>4. CASE a \in DispositionDrafts(e)
      BY <2>1, <2>2, <2>3, <2>4 DEF DispositionDrafts
    <2>5. ASSUME NEW f \in Families, a \in FamilyDrafts(e, f)
          PROVE  /\ a.kind = "container" => a.id \in Nat /\ a.id <= drift
                 /\ a.kind = "database" => Good(a.id)
      BY <2>1, <2>2, <2>3, <2>5 DEF FamilyDrafts
    <2>6. QED
      BY <1>2, <2>4, <2>5 DEF ManifestDrafts, Families
  <1> HIDE DEF m
  <1>3. m.actions \in Seq(ManifestDrafts(e))
    BY <1>1 DEF Lists
  <1>4. \E i \in DOMAIN m.actions : m.actions[i].kind = "image"
    <2>1. PICK a : a = [kind |-> "image", target |-> e.f5image, id |-> 0]
      OBVIOUS
    <2>2. a \in ManifestDrafts(e) /\ a.kind = "image"
      BY <2>1 DEF ManifestDrafts, DispositionDrafts, Drafts
    <2>3. QED
      BY <1>1, <2>2 DEF Lists
  <1>5. QED
    BY <1>2, <1>3, <1>4 DEF Sound, m

\* Evidence names no more than the inventory and the paths it is assembled from.
LEMMA AssembledFinite ==
    ASSUME NEW inv, NEW records, NEW db, Seen(inv), IsFiniteSet(records)
    PROVE  Finite(Assemble(inv, records, db))
  <1> DEFINE e == Assemble(inv, records, db)
  <1>1. ASSUME NEW f \in Families
        PROVE  Resources(FamilyResources(inv, records, f))
    <2> DEFINE r == FamilyResources(inv, records, f)
    <2>1. /\ r.containers \subseteq DOMAIN inv.containers
          /\ r.paths \subseteq records /\ r.volumes \subseteq inv.volumes
          /\ r.images \subseteq inv.images
      BY DEF FamilyResources, FamilyRuntimeVolumes, FamilyImages
    <2>2. IsFiniteSet(r.databases) /\ IsFiniteSet(r.secrets)
      BY FS_EmptySet, FS_Singleton DEF FamilyResources
    <2> HIDE DEF r
    <2>3. /\ IsFiniteSet(r.containers) /\ IsFiniteSet(r.paths)
          /\ IsFiniteSet(r.volumes) /\ IsFiniteSet(r.images)
      BY <2>1, FS_Subset DEF Seen
    <2>4. Resources(r)
      BY <2>2, <2>3 DEF Resources
    <2>5. QED
      BY <2>4 DEF r
  <1>2. /\ e.families = [f \in Families |-> FamilyResources(inv, records, f)]
        /\ e.dispositions \subseteq DOMAIN inv.containers
    BY DEF Assemble
  <1> HIDE DEF e
  <1>3. IsFiniteSet(e.dispositions)
    BY <1>2, FS_Subset DEF Seen
  <1>4. QED
    BY <1>1, <1>2, <1>3 DEF Finite, e

\* The evidence is of the inventory, the paths and the manifest of the database.
LEMMA AssembledEvident ==
    ASSUME NEW inv, NEW records, NEW db,
           Seen(inv), IsFiniteSet(records), Good(db.source)
    PROVE  Evident(Assemble(inv, records, db))
  <1> DEFINE e == Assemble(inv, records, db)
  <1>1. \A f \in Families : FamilyResources(inv, records, f).containers
                               \subseteq DOMAIN inv.containers
    BY DEF FamilyResources
  <1>2. /\ e.inventory = inv /\ e.source = db.source
        /\ e.families = [f \in Families |-> FamilyResources(inv, records, f)]
        /\ e.dispositions \subseteq DOMAIN inv.containers
    BY DEF Assemble
  <1>3. Finite(e)
    BY AssembledFinite
  <1> HIDE DEF e
  <1>4. QED
    BY <1>1, <1>2, <1>3 DEF Evident, e

-----------------------------------------------------------------------------
(* The host. *)

\* What holds of the containers, with the ids that are gone staying gone.
Containers ==
    /\ containers' \in [DOMAIN containers' -> AnyContainer]
    /\ \A n \in DOMAIN containers' : containers'[n].id <= drift'
    /\ IsFiniteSet(DOMAIN containers')
    /\ \A n, id : id \in Nat /\ id <= drift /\ Exactly(n, id)' => Exactly(n, id)

\* Nothing appears on the host but containers with new ids.
HostGrows ==
    /\ HostInv' /\ drift <= drift' /\ verified \subseteq verified'
    /\ volumes' \subseteq volumes /\ images' \subseteq images
    /\ paths' \subseteq paths /\ databases' \subseteq databases
    /\ \A n, id : id \in Nat /\ id <= drift /\ Exactly(n, id)' => Exactly(n, id)

\* A container keeps its id when its state changes, and when others go.
LEMMA ContainersKept ==
    ASSUME HostInv, drift' \in Nat, drift <= drift',
           \/ containers' = containers
           \/ \E n \in DOMAIN containers, s \in {"running", "exited"} :
                 containers' = InState(n, s)
           \/ \E names : containers' = Without(names)
    PROVE  Containers
  <1>1. CASE containers' = containers
    BY <1>1 DEF HostInv, Containers, Exactly, AnyContainer
  <1>2. CASE \E n \in DOMAIN containers, s \in {"running", "exited"} :
                containers' = InState(n, s)
    <2>1. PICK n \in DOMAIN containers, s \in {"running", "exited"} :
             containers' = [containers EXCEPT ![n] = [@ EXCEPT !.state = s]]
      BY <1>2 DEF InState
    <2> DEFINE c == [containers[n] EXCEPT !.state = s]
    <2>2. c \in AnyContainer /\ c.id = containers[n].id
      BY <2>1 DEF HostInv, AnyContainer
    <2>3. containers' = [containers EXCEPT ![n] = c]
      BY <2>1
    <2> HIDE DEF c
    <2>4. /\ DOMAIN containers' = DOMAIN containers
          /\ containers' \in [DOMAIN containers -> AnyContainer]
          /\ \A m \in DOMAIN containers : containers'[m].id = containers[m].id
      BY <2>1, <2>2, <2>3 DEF HostInv
    <2>5. \A m \in DOMAIN containers : containers[m].id \in Nat
      BY DEF HostInv, AnyContainer
    <2>6. QED
      BY <2>4, <2>5 DEF HostInv, Containers, Exactly
  <1>3. CASE \E names : containers' = Without(names)
    <2>1. PICK names : containers' = Without(names)
      BY <1>3
    <2>2. /\ DOMAIN containers' = DOMAIN containers \ names
          /\ \A m \in DOMAIN containers' : containers'[m] = containers[m]
          /\ containers' \in [DOMAIN containers' -> AnyContainer]
      BY <2>1 DEF Without, HostInv
    <2>3. IsFiniteSet(DOMAIN containers')
      BY <2>2, FS_Subset DEF HostInv
    <2>4. \A m \in DOMAIN containers : containers[m].id \in Nat
      BY DEF HostInv, AnyContainer
    <2>5. QED
      BY <2>2, <2>3, <2>4 DEF HostInv, Containers, Exactly
  <1>4. QED
    BY <1>1, <1>2, <1>3

\* Deployments give ids that no container had.
LEMMA ContainersRenewed ==
    ASSUME HostInv, drift' = drift + 1,
           (\E n \in DOMAIN containers : Recreate(n)) \/ Borrow
    PROVE  Containers
  <1>1. CASE \E n \in DOMAIN containers : Recreate(n)
    <2>1. PICK n \in DOMAIN containers :
             containers' = [containers EXCEPT ![n] =
                [@ EXCEPT !.id = drift + 1, !.state = "running"]]
      BY <1>1 DEF Recreate
    <2> DEFINE c == [containers[n] EXCEPT !.id = drift + 1, !.state = "running"]
    <2>2. c \in AnyContainer /\ c.id = drift + 1
      <3>1. drift + 1 \in Nat /\ containers[n] \in AnyContainer
        BY DEF HostInv
      <3>2. QED
        BY <3>1 DEF AnyContainer
    <2>3. containers' = [containers EXCEPT ![n] = c]
      BY <2>1
    <2> HIDE DEF c
    <2>4. /\ DOMAIN containers' = DOMAIN containers
          /\ containers' \in [DOMAIN containers -> AnyContainer]
          /\ \A m \in DOMAIN containers :
                containers'[m] = IF m = n THEN c ELSE containers[m]
      BY <2>1, <2>2, <2>3 DEF HostInv
    <2>5. \A m \in DOMAIN containers : containers[m].id \in Nat
      BY DEF HostInv, AnyContainer
    <2>6. QED
      BY <2>2, <2>4, <2>5 DEF HostInv, Containers, Exactly
  <1>2. CASE Borrow
    <2>1. PICK i \in FamilyImages(Now, "airflow") :
             containers' = [n \in DOMAIN containers \union {"stranger"} |->
                IF n # "stranger" THEN containers[n]
                ELSE [id |-> drift + 1, state |-> "running", project |-> "",
                      service |-> "", image |-> i, mounts |-> {},
                      network |-> "bridge"]]
      BY <1>2 DEF Borrow
    <2> DEFINE c == [id |-> drift + 1, state |-> "running", project |-> "",
                     service |-> "", image |-> i, mounts |-> {},
                     network |-> "bridge"]
    <2>2. i \in DOMAIN Repository
      BY DEF FamilyImages, Now, Snapshot, HostInv
    <2>3. c \in AnyContainer /\ c.id = drift + 1
      <3>1. drift + 1 \in Nat
        BY DEF HostInv
      <3>2. QED
        BY <2>2, <3>1 DEF AnyContainer, Words
    <2>4. containers' = [n \in DOMAIN containers \union {"stranger"} |->
                           IF n # "stranger" THEN containers[n] ELSE c]
      BY <2>1
    <2> HIDE DEF c
    <2>5. /\ DOMAIN containers' = DOMAIN containers \union {"stranger"}
          /\ containers' \in [DOMAIN containers' -> AnyContainer]
          /\ \A m \in DOMAIN containers' :
                containers'[m] = IF m # "stranger" THEN containers[m] ELSE c
      BY <2>3, <2>4 DEF HostInv
    <2>6. IsFiniteSet(DOMAIN containers')
      BY <2>5, FS_AddElement DEF HostInv
    <2>7. \A m \in DOMAIN containers : containers[m].id \in Nat
      BY DEF HostInv, AnyContainer
    <2>8. QED
      BY <2>3, <2>5, <2>6, <2>7 DEF HostInv, Containers, Exactly
  <1>3. QED
    BY <1>1, <1>2

\* Every step of a retirement.
JobStep(j) == RunJob(j) \/ FailAction(j) \/ KillUnit(j)

\* What no step does to the host.
LEMMA NothingAppears ==
    ASSUME HostInv, Next
    PROVE  /\ volumes' \subseteq volumes /\ images' \subseteq images
           /\ paths' \subseteq paths /\ databases' \subseteq databases
           /\ verified \subseteq verified'
           /\ drift' = drift \/ drift' = drift + 1
  <1>1. CASE \E n \in Touched \intersect DOMAIN containers :
                Flip(n) \/ Recreate(n)
    BY <1>1 DEF Flip, Recreate, Changed
  <1>2. CASE Borrow
    BY <1>2 DEF Borrow, Changed
  <1>3. CASE CollectInventory \/ CollectPaths \/ PlanDatabase
             \/ AssembleEvidence \/ PlanRetirement \/ ExecuteRetirement
             \/ Submit
             \/ \E mode \in {"run", "run-stopped"} : SubmitBackup(mode)
    BY <1>3 DEF CollectInventory, CollectPaths, PlanDatabase, AssembleEvidence,
       PlanRetirement, ExecuteRetirement, Submit, SubmitBackup, host, budget,
       history
  <1>4. CASE RunBackup \/ KillBackup
    BY <1>4 DEF RunBackup, KillBackup, BeginBackup, ReadBackup, EndBackup, CleanUp, host,
       budget, history
  <1>5. CASE \E j \in DOMAIN jobs : JobStep(j)
    <2>1. PICK j \in DOMAIN jobs : JobStep(j)
      BY <1>5
    <2>2. CASE Execute(j) \/ RemoveContainer(j) \/ RemoveDirectory(j)
               \/ RemoveVolume(j) \/ RemoveImage(j)
      BY <2>2 DEF Execute, RemoveContainer, RemoveDirectory, RemoveVolume,
         RemoveImage, JobAlone, JobsUnchanged, HostUnchanged, history
    <2>3. CASE OpenDatabase(j) \/ DropDatabase(j) \/ CloseDatabase(j) \/ CheckOutput(j)
               \/ FailAction(j) \/ KillUnit(j)
      BY <2>3 DEF OpenDatabase, DropDatabase, CloseDatabase, CheckOutput, FailAction,
         KillUnit, JobAlone, JobsUnchanged, HostUnchanged, history
    <2>4. QED
      BY <2>1, <2>2, <2>3 DEF JobStep, RunJob
  <1>6. CASE AiNext /\ UNCHANGED <<volumes, databases, files, backup, jobs,
                                   active, budget, history>>
    BY <1>6 DEF AiNext, Observe, RemoveContainers, RemoveImages, RemovePath,
       budget, history
  <1>7. QED
    BY <1>1, <1>2, <1>3, <1>4, <1>5, <1>6 DEF Next, JobStep

\* What a step does to the containers.
LEMMA ContainersStep ==
    ASSUME HostInv, Next
    PROVE  Containers
  <1>1. drift \in Nat /\ (drift' = drift \/ drift' = drift + 1)
    BY NothingAppears DEF HostInv
  <1>2. ASSUME \/ containers' = containers
               \/ \E n \in DOMAIN containers, s \in {"running", "exited"} :
                     containers' = InState(n, s)
               \/ \E names : containers' = Without(names)
        PROVE  Containers
    BY <1>1, <1>2, ContainersKept
  <1>3. ASSUME NEW name, NEW id, containers' = Stopped(name, id)
        PROVE  Containers
    BY <1>2, <1>3 DEF Stopped, Exactly
  <1>4. CASE \E n \in Touched \intersect DOMAIN containers : Flip(n)
    BY <1>2, <1>4 DEF Flip
  <1>5. CASE \E n \in Touched \intersect DOMAIN containers : Recreate(n)
    BY <1>5, ContainersRenewed DEF Recreate, Changed
  <1>6. CASE Borrow
    BY <1>6, ContainersRenewed DEF Borrow, Changed
  <1>7. CASE CollectInventory \/ CollectPaths \/ PlanDatabase
             \/ AssembleEvidence \/ PlanRetirement \/ ExecuteRetirement
             \/ Submit
             \/ \E mode \in {"run", "run-stopped"} : SubmitBackup(mode)
    BY <1>2, <1>7 DEF CollectInventory, CollectPaths, PlanDatabase,
       AssembleEvidence, PlanRetirement, ExecuteRetirement, Submit,
       SubmitBackup, host
  <1>8. CASE RunBackup \/ KillBackup
    <2>1. CASE containers' = CleanedUp
      BY <1>2, <1>3, <2>1 DEF CleanedUp
    <2>2. CASE BeginBackup
      BY <1>2, <2>2 DEF BeginBackup, Exactly
    <2>3. QED
      BY <1>2, <1>8, <2>1, <2>2
         DEF RunBackup, KillBackup, ReadBackup, EndBackup, CleanUp, host
  <1>9. CASE \E j \in DOMAIN jobs : JobStep(j)
    <2>1. PICK j \in DOMAIN jobs : JobStep(j)
      BY <1>9
    <2>2. CASE RemoveContainer(j)
      BY <1>2, <2>2 DEF RemoveContainer
    <2>3. CASE OpenDatabase(j)
      BY <1>2, <2>3 DEF OpenDatabase, Exactly
    <2>4. CASE DropDatabase(j)
      BY <1>2, <1>3, <2>4 DEF DropDatabase
    <2>5. CASE CloseDatabase(j)
      BY <1>2, <1>3, <2>5 DEF CloseDatabase
    <2>6. CASE containers' = containers
      BY <1>2, <2>6
    <2>7. QED
      BY <2>1, <2>2, <2>3, <2>4, <2>5, <2>6 DEF JobStep, RunJob, Execute,
         RemoveDirectory, RemoveVolume, RemoveImage, CheckOutput, FailAction, KillUnit,
         HostUnchanged
  <1>10. CASE AiNext
    BY <1>2, <1>10 DEF AiNext, Observe, RemoveContainers, RemoveImages,
       RemovePath
  <1>11. QED
    BY <1>4, <1>5, <1>6, <1>7, <1>8, <1>9, <1>10 DEF Next, JobStep

\* Every step leaves a host, on which nothing old has come back.
LEMMA HostStep ==
    ASSUME HostInv, Next
    PROVE  HostGrows
  <1>1. Containers
    BY ContainersStep
  <1>2. /\ volumes' \subseteq volumes /\ images' \subseteq images
        /\ paths' \subseteq paths
    BY NothingAppears
  <1>3. IsFiniteSet(volumes') /\ IsFiniteSet(images') /\ IsFiniteSet(paths')
    BY <1>2, FS_Subset DEF HostInv
  <1>4. QED
    BY <1>1, <1>2, <1>3, NothingAppears DEF HostInv, HostGrows, Containers

\* What was dumped or is gone stays so.
LEMMA GoodStays ==
    ASSUME HostGrows, drift \in Nat, NEW id, Good(id)
    PROVE  Good(id)'
  BY DEF HostGrows, HostInv, Good

\* What was seen was seen.
LEMMA SeenStays ==
    ASSUME HostGrows, drift \in Nat, NEW inv, Seen(inv)
    PROVE  Seen(inv)'
  BY DEF HostGrows, HostInv, Seen

\* A manifest stays sound.
LEMMA SoundStays ==
    ASSUME HostGrows, drift \in Nat, NEW m, Sound(m)
    PROVE  Sound(m)'
  <1>1. \A i \in DOMAIN m.actions :
           m.actions[i].kind = "database" => Good(m.actions[i].id)'
    BY GoodStays DEF Sound
  <1>2. QED
    BY <1>1 DEF HostGrows, HostInv, Sound

\* What is over stays over.
LEMMA OverStays ==
    ASSUME HostGrows, NEW a, Over(a),
           a.kind = "container" => a.id \in Nat /\ a.id <= drift
    PROVE  Over(a)'
  BY DEF HostGrows, Over

-----------------------------------------------------------------------------
(* The files of the operator, and the evidence job. *)

\* Who writes what.
LEMMA WhoWrites ==
    ASSUME Next
    PROVE  /\ inventory' = inventory \/ inventory' = Now
           /\ pathRecords' = pathRecords \/ pathRecords' = PathRecords(paths)
           /\ database' = database \/ PlanDatabase
           /\ evidence' = evidence \/ AssembleEvidence
           /\ manifest' = manifest \/ PlanRetirement
           /\ \/ approved' = approved \/ approved' = None
              \/ approved' = manifest /\ manifest # None
           /\ \/ backup' = backup \/ RunBackup \/ KillBackup
              \/ \E mode \in {"run", "run-stopped"} : SubmitBackup(mode)
           /\ \/ UNCHANGED <<jobs, active>> \/ Submit
              \/ \E j \in DOMAIN jobs : JobStep(j)
  <1>1. CASE (\E n \in Touched \intersect DOMAIN containers :
                Flip(n) \/ Recreate(n)) \/ Borrow
    <2>1. UNCHANGED <<files, backup, jobs, active>>
      BY <1>1 DEF Flip, Recreate, Borrow, Changed
    <2>2. QED
      BY <2>1 DEF files
  <1>2. CASE CollectInventory \/ CollectPaths
    <2>1. /\ UNCHANGED <<database, evidence, manifest, approved, backup, jobs,
                        active>>
          /\ inventory' = inventory \/ inventory' = Now
          /\ pathRecords' = pathRecords \/ pathRecords' = PathRecords(paths)
      BY <1>2 DEF CollectInventory, CollectPaths
    <2>2. QED
      BY <2>1
  <1>3. CASE PlanDatabase \/ AssembleEvidence \/ PlanRetirement
    <2>1. /\ UNCHANGED <<inventory, pathRecords, approved, backup, jobs,
                        active>>
          /\ database' = database \/ PlanDatabase
          /\ evidence' = evidence \/ AssembleEvidence
          /\ manifest' = manifest \/ PlanRetirement
      <3>1. PlanDatabase => UNCHANGED <<inventory, pathRecords, evidence,
                                        manifest, approved, backup, jobs,
                                        active>>
        BY DEF PlanDatabase
      <3>2. AssembleEvidence => UNCHANGED <<inventory, pathRecords, database,
                                        manifest, approved, backup, jobs,
                                        active>>
        BY DEF AssembleEvidence
      <3>3. PlanRetirement => UNCHANGED <<inventory, pathRecords, database,
                                        evidence, approved, backup, jobs,
                                        active>>
        BY DEF PlanRetirement
      <3>4. QED
        BY <1>3, <3>1, <3>2, <3>3
    <2>2. QED
      BY <2>1
  <1>4. CASE ExecuteRetirement
    <2>1. /\ UNCHANGED <<pathRecords, database, evidence, manifest, backup,
                        jobs, active>>
          /\ inventory' = Now
          /\ approved' = None \/ (approved' = manifest /\ manifest # None)
      BY <1>4 DEF ExecuteRetirement
    <2>2. QED
      BY <2>1
  <1>5. CASE Submit
    <2>1. /\ UNCHANGED <<inventory, pathRecords, database, evidence, manifest,
                        backup>>
          /\ approved' = None
      BY <1>5 DEF Submit
    <2>2. QED
      BY <1>5, <2>1
  <1>6. CASE \E mode \in {"run", "run-stopped"} : SubmitBackup(mode)
    <2>1. UNCHANGED <<files, jobs, active>>
      BY <1>6 DEF SubmitBackup
    <2>2. QED
      BY <1>6, <2>1 DEF files
  <1>7. CASE RunBackup \/ KillBackup
    <2>1. UNCHANGED <<files, jobs, active>>
      BY <1>7 DEF RunBackup, KillBackup, BeginBackup, ReadBackup, EndBackup, CleanUp
    <2>2. QED
      BY <1>7, <2>1 DEF files
  <1>8. CASE \E j \in DOMAIN jobs : JobStep(j)
    <2>1. UNCHANGED <<files, backup>>
      BY <1>8 DEF JobStep, RunJob, Execute, RemoveContainer, RemoveDirectory,
         RemoveVolume, RemoveImage, OpenDatabase, DropDatabase, CloseDatabase,
         CheckOutput, FailAction, KillUnit, JobAlone, JobsUnchanged
    <2>2. QED
      BY <1>8, <2>1 DEF files
  <1>9. CASE AiNext /\ UNCHANGED <<volumes, databases, files, backup, jobs,
                                   active, budget, history>>
    BY <1>9 DEF files
  <1>10. QED
    BY <1>1, <1>2, <1>3, <1>4, <1>5, <1>6, <1>7, <1>8, <1>9 DEF Next, JobStep

\* What the operator collects and plans speaks of ids that were seen, and of a
\* database that was dumped.
LEMMA FilesStep ==
    ASSUME IInv, Next, HostGrows
    PROVE  FilesInv'
  <1> drift \in Nat
    BY DEF IInv, HostInv
  <1>1. ASSUME inventory' # None
        PROVE  Seen(inventory)'
    <2>1. CASE inventory' = inventory
      BY <1>1, <2>1 DEF IInv, FilesInv, Seen, HostGrows, HostInv
    <2>2. CASE inventory' = Now
      <3>1. Seen(Now)
        BY DEF IInv, HostInv, AnyContainer, Seen, Now, Snapshot
      <3>2. QED
        BY <2>2, <3>1 DEF Seen, HostGrows, HostInv
    <2>3. QED
      BY <2>1, <2>2, WhoWrites
  <1>2. ASSUME pathRecords' # None
        PROVE  IsFiniteSet(pathRecords')
    <2>1. IsFiniteSet(PathRecords(paths))
      BY FS_Subset DEF IInv, HostInv, PathRecords
    <2>2. QED
      BY <1>2, <2>1, WhoWrites DEF IInv, FilesInv
  <1>3. ASSUME database' # None
        PROVE  Good(database.source)'
    <2>1. PICK id : id = database'.source
      OBVIOUS
    <2>2. CASE database' = database
      <3>1. Good(id)
        BY <1>3, <2>1, <2>2 DEF IInv, FilesInv
      <3>2. QED
        BY <2>1, <3>1, GoodStays DEF Good, Exactly
    <2>3. CASE PlanDatabase
      <3>1. id = backup.request[2] /\ backup.state = "passed"
        BY <2>1, <2>3 DEF PlanDatabase, DatabaseManifest
      <3>2. Good(id)
        BY <3>1 DEF IInv, BackupInv
      <3>3. QED
        BY <2>1, <3>2, GoodStays DEF Good, Exactly
    <2>4. QED
      BY <2>2, <2>3, WhoWrites
  <1>4. ASSUME evidence' # None
        PROVE  Evident(evidence)'
    <2>1. PICK e : e = evidence'
      OBVIOUS
    <2>2. Evident(e)
      <3>1. CASE evidence' = evidence
        BY <1>4, <2>1, <3>1 DEF IInv, FilesInv
      <3>2. CASE AssembleEvidence
        <4>1. /\ e = Assemble(inventory, pathRecords, database)
              /\ inventory # None /\ pathRecords # None /\ database # None
          BY <2>1, <3>2 DEF AssembleEvidence
        <4>2. QED
          BY <4>1, AssembledEvident DEF IInv, FilesInv
      <3>3. QED
        BY <3>1, <3>2, WhoWrites
    <2>3. /\ Good(e.source)' /\ Seen(e.inventory)'
      BY <2>2, GoodStays, SeenStays DEF Evident
    <2>4. QED
      BY <2>1, <2>2, <2>3 DEF Evident, Seen, Good, Exactly
  <1>5. ASSUME manifest' # None
        PROVE  Sound(manifest)'
    <2>1. PICK m : m = manifest'
      OBVIOUS
    <2>2. Sound(m)
      <3>1. CASE manifest' = manifest
        BY <1>5, <2>1, <3>1 DEF IInv, FilesInv
      <3>2. CASE PlanRetirement
        BY <2>1, <3>2, ManifestSound DEF IInv, FilesInv, PlanRetirement
      <3>3. QED
        BY <3>1, <3>2, WhoWrites
    <2>3. Sound(m)'
      BY <2>2, SoundStays
    <2>4. QED
      BY <2>1, <2>3 DEF Sound, Good, Exactly
  <1>6. ASSUME approved' # None
        PROVE  Sound(approved)'
    <2>1. PICK m : m = approved'
      OBVIOUS
    <2>2. Sound(m)
      BY <1>6, <2>1, WhoWrites DEF IInv, FilesInv
    <2>3. Sound(m)'
      BY <2>2, SoundStays
    <2>4. QED
      BY <2>1, <2>3 DEF Sound, Good, Exactly
  <1>7. QED
    BY <1>1, <1>2, <1>3, <1>4, <1>5, <1>6 DEF FilesInv

\* A state of the evidence job that changes.
LEMMA BackupTyped ==
    ASSUME NEW R, NEW D, backup \in BackupSet(R, D),
           NEW s \in {"pending", "running", "passed", "failed"}
    PROVE  /\ Backup(s) \in BackupSet(R, D) /\ Backup(s).state = s
           /\ Backup(s).request = backup.request
           /\ Backup(s).read = backup.read
  BY DEF BackupSet, Backup

\* The evidence of a job that has read is good, even when a deployment replaces
\* the container between its start and its reading.
LEMMA BackupStep ==
    ASSUME IInv, Next \/ UNCHANGED backup, HostGrows
    PROVE  BackupInv'
  <1>1. PICK R, D : backup \in BackupSet(R, D)
    BY DEF IInv, BackupInv
  <1>2. drift \in Nat /\ drift' \in Nat /\ drift <= drift'
    BY DEF IInv, HostInv, HostGrows
  <1>3. PICK id : id = backup.request[2]
    OBVIOUS
  <1>4. Good(id) => Good(id)'
    BY <1>2, GoodStays
  <1>5. ASSUME NEW S, NEW E, backup' \in BackupSet(S, E),
               backup'.request = backup.request,
               \/ backup'.state = "failed"
               \/ /\ backup'.state = backup.state /\ backup'.read = backup.read
                  /\ backup'.source = backup.source
        PROVE  BackupInv'
    <2>1. backup'.state = "passed" => Good(id)'
      BY <1>3, <1>4, <1>5 DEF IInv, BackupInv
    <2>2. PICK src : src = backup'.source
      OBVIOUS
    <2>3. backup'.state = "running" /\ backup'.read # {} => Dumped(src, id)'
      <3>1. SUFFICES ASSUME backup'.state = "running", backup'.read # {}
                     PROVE  Dumped(src, id)'
        OBVIOUS
      <3>2. Dumped(src, id) /\ id \in Nat /\ id <= drift
        BY <1>3, <1>5, <2>2, <3>1 DEF IInv, BackupInv
      <3>3. QED
        BY <1>2, <3>2 DEF HostGrows, Dumped, Exactly
    <2>4. backup'.request[2] = id
      BY <1>3, <1>5
    <2>5. /\ Good(id)' => Good(backup.request[2])'
          /\ Dumped(src, id)' => Dumped(backup.source, backup.request[2])'
      BY <2>2, <2>4 DEF Good, Dumped, Exactly
    <2>6. /\ \E P, Q : backup' \in BackupSet(P, Q)
          /\ backup'.state \in {"pending", "running", "passed"} =>
                id \in Nat /\ id <= drift'
          /\ backup'.state = "pending" => backup'.read = {}
          /\ backup'.state = "passed" => backup'.read # {}
      BY <1>2, <1>3, <1>5 DEF IInv, BackupInv
    <2>7. QED
      BY <2>1, <2>3, <2>4, <2>5, <2>6 DEF BackupInv
  <1>6. CASE backup' = backup
    BY <1>1, <1>5, <1>6
  <1>7. CASE \E mode \in {"run", "run-stopped"} : SubmitBackup(mode)
    <2>1. PICK mode : /\ SubmitBackup(mode)
                      /\ mode \in {"run", "run-stopped"}
      BY <1>7
    <2> DEFINE q == <<inventory, inventory.containers["postgres"].id, mode>>
    <2>2. backup' = [state |-> "pending", live |-> TRUE, request |-> q,
                     started |-> FALSE, source |-> None, read |-> {}]
      BY <2>1 DEF SubmitBackup
    <2>3. q[2] \in Nat /\ q[2] <= drift
      BY <2>1 DEF SubmitBackup, IInv, FilesInv, Seen
    <2> HIDE DEF q
    <2>4. backup' \in BackupSet({q, None}, {{}})
      BY <2>2 DEF BackupSet
    <2>5. QED
      BY <1>2, <2>2, <2>3, <2>4 DEF BackupInv
  <1>8. CASE BeginBackup
    <2>1. backup.state = "pending" /\ backup.read = {}
      BY <1>8 DEF BeginBackup, IInv, BackupInv
    <2>2. /\ backup' \in BackupSet(R, D) /\ backup'.read = {}
          /\ backup'.request = backup.request
          /\ backup'.state \in {"running", "failed"}
      <3>1. \/ backup' = Backup("failed")
            \/ \E b \in BOOLEAN :
                  backup' = [Backup("running") EXCEPT !.started = b]
        BY <1>8 DEF BeginBackup
      <3>2. CASE backup' = Backup("failed")
        BY <1>1, <2>1, <3>2, BackupTyped
      <3>3. ASSUME NEW b \in BOOLEAN,
                   backup' = [Backup("running") EXCEPT !.started = b]
            PROVE  /\ backup' \in BackupSet(R, D) /\ backup'.read = {}
                   /\ backup'.request = backup.request
                   /\ backup'.state = "running"
        <4>1. /\ Backup("running") \in BackupSet(R, D)
              /\ Backup("running").state = "running"
              /\ Backup("running").request = backup.request
              /\ Backup("running").read = {}
          BY <1>1, <2>1, BackupTyped
        <4>2. QED
          BY <3>3, <4>1 DEF BackupSet
      <3>4. QED
        BY <3>1, <3>2, <3>3
    <2>3. QED
      BY <1>2, <2>1, <2>2 DEF IInv, BackupInv
  <1>9. CASE ReadBackup
    <2>1. backup.state = "running"
      BY <1>9 DEF ReadBackup
    <2>2. CASE backup' = Backup("failed")
      BY <1>1, <1>5, <2>2, BackupTyped
    <2>3. CASE /\ "postgres" \in DOMAIN containers
               /\ backup' = [backup EXCEPT !.read = databases,
                                           !.source = containers["postgres"].id]
               /\ UNCHANGED containers
      <3>1. PICK source : source = containers["postgres"].id
        OBVIOUS
      <3>2. /\ backup' \in BackupSet(R \union {source}, D \union {databases})
            /\ backup'.request = backup.request /\ backup'.source = source
            /\ backup'.state = "running"
        BY <1>1, <2>1, <2>3, <3>1 DEF BackupSet
      <3>3. id \in Nat /\ id <= drift
        BY <1>3, <2>1 DEF IInv, BackupInv
      <3>4. backup'.request[2] = id
        BY <1>3, <3>2
      <3>5. Dumped(backup.source, backup.request[2])'
        BY <2>3, <3>1, <3>2, <3>4 DEF Dumped, Exactly
      <3>6. QED
        BY <1>2, <3>2, <3>3, <3>4, <3>5 DEF BackupInv
    <2>4. QED
      BY <1>9, <2>2, <2>3 DEF ReadBackup
  <1>10. CASE EndBackup
    <2>1. backup.state = "running" /\ backup.read # {}
      BY <1>10 DEF EndBackup
    <2>2. CASE backup' = Backup("failed")
      BY <1>1, <1>5, <2>2, BackupTyped
    <2>3. CASE /\ backup' = Backup("passed")
               /\ verified' = verified \union {backup.source}
      <3>1. /\ backup' \in BackupSet(R, D) /\ backup'.state = "passed"
            /\ backup'.request = backup.request /\ backup'.read = backup.read
        BY <1>1, <2>3, BackupTyped
      <3>2. id \in Nat /\ id <= drift /\ Dumped(backup.source, id)
        BY <1>3, <2>1 DEF IInv, BackupInv
      <3>3. backup'.request[2] = id
        BY <1>3, <3>1
      <3>4. Good(id)'
        BY <1>2, <2>3, <3>2 DEF Good, Dumped, HostGrows
      <3>5. Good(backup.request[2])'
        BY <3>3, <3>4 DEF Good, Exactly
      <3>6. QED
        BY <1>2, <2>1, <3>1, <3>2, <3>3, <3>5 DEF BackupInv
    <2>4. QED
      BY <1>10, <2>2, <2>3 DEF EndBackup
  <1>11. CASE KillBackup
    <2>1. /\ backup' \in BackupSet(R, D)
          /\ backup'.request = backup.request
          /\ backup'.state = backup.state /\ backup'.read = backup.read
          /\ backup'.source = backup.source
      BY <1>1, <1>11 DEF KillBackup, BackupSet
    <2>2. QED
      BY <1>5, <2>1
  <1>12. QED
    BY <1>6, <1>7, <1>8, <1>9, <1>10, <1>11, WhoWrites DEF RunBackup

-----------------------------------------------------------------------------
(* The retirement jobs. *)

\* What a step makes of the job j, which becomes r.
Does(j, r) ==
    \/ r.state = "failed" /\ r.unit = "none" /\ r.at = jobs[j].at
    \/ /\ jobs[j].unit = "run" /\ r.unit = "none" /\ r.state = jobs[j].state
       /\ r.at = jobs[j].at
    \/ /\ jobs[j].unit = "queued" /\ r.unit = "run" /\ r.state = "running"
       /\ r.at = jobs[j].at /\ r.db = jobs[j].db
    \/ /\ jobs[j].unit = "run" /\ r.unit = "run" /\ r.state = jobs[j].state
       /\ \/ r.at = jobs[j].at /\ r.db \in {"found", "started"}
          \/ /\ r.at = jobs[j].at
             /\ \A a : a = Action(j) => a.target \notin databases'
          \/ /\ r.at = jobs[j].at + 1 /\ r.db = "idle"
             /\ \A a : a = Action(j) => Over(a)'

\* A job that failed.
LEMMA FailedIs ==
    ASSUME NEW M, jobs \in [DOMAIN jobs -> JobSet(M)], NEW j \in DOMAIN jobs
    PROVE  \E r \in JobSet(M) :
              /\ Failed(j) = [jobs EXCEPT ![j] = r]
              /\ r.manifest = jobs[j].manifest
              /\ r.state = "failed" /\ r.unit = "none" /\ r.at = jobs[j].at
  <1> DEFINE r == [jobs[j] EXCEPT !.state = "failed", !.unit = "none",
                                  !.db = "idle"]
  <1>1. /\ r \in JobSet(M) /\ r.manifest = jobs[j].manifest
        /\ r.state = "failed" /\ r.unit = "none" /\ r.at = jobs[j].at
    BY DEF JobSet
  <1>2. Failed(j) = [jobs EXCEPT ![j] = r]
    BY DEF Failed, JobSet
  <1> HIDE DEF r
  <1>3. QED
    BY <1>1, <1>2

\* One that went on to its next action.
LEMMA AdvancedIs ==
    ASSUME NEW M, jobs \in [DOMAIN jobs -> JobSet(M)], NEW j \in DOMAIN jobs
    PROVE  \E r \in JobSet(M) :
              /\ Advanced(j) = [jobs EXCEPT ![j] = r]
              /\ r.manifest = jobs[j].manifest
              /\ r.state = jobs[j].state /\ r.unit = jobs[j].unit
              /\ r.at = jobs[j].at + 1 /\ r.db = "idle"
  <1> DEFINE r == [jobs[j] EXCEPT !.at = jobs[j].at + 1, !.db = "idle"]
  <1>1. jobs[j] \in JobSet(M) /\ jobs[j].at + 1 \in Nat \ {0}
    BY DEF JobSet
  <1>2. /\ r \in JobSet(M) /\ r.manifest = jobs[j].manifest
        /\ r.state = jobs[j].state /\ r.unit = jobs[j].unit
        /\ r.at = jobs[j].at + 1 /\ r.db = "idle"
    BY <1>1 DEF JobSet
  <1>3. Advanced(j) = [jobs EXCEPT ![j] = r]
    BY DEF Advanced, JobSet
  <1> HIDE DEF r
  <1>4. QED
    BY <1>2, <1>3

\* One that works on the database.
LEMMA DatabaseIs ==
    ASSUME NEW M, jobs \in [DOMAIN jobs -> JobSet(M)], NEW j \in DOMAIN jobs,
           NEW d \in {"found", "started", "dropped"},
           jobs' = [jobs EXCEPT ![j].db = d]
    PROVE  \E r \in JobSet(M) :
              /\ jobs' = [jobs EXCEPT ![j] = r]
              /\ r.manifest = jobs[j].manifest
              /\ r.state = jobs[j].state /\ r.unit = jobs[j].unit
              /\ r.at = jobs[j].at /\ r.db = d
  <1> DEFINE r == [jobs[j] EXCEPT !.db = d]
  <1>1. /\ r \in JobSet(M) /\ r.manifest = jobs[j].manifest
        /\ r.state = jobs[j].state /\ r.unit = jobs[j].unit
        /\ r.at = jobs[j].at /\ r.db = d
    BY DEF JobSet
  <1>2. jobs' = [jobs EXCEPT ![j] = r]
    BY DEF JobSet
  <1> HIDE DEF r
  <1>3. QED
    BY <1>1, <1>2

\* An executor fails, is killed, or leaves its action behind.
LEMMA JobDoes ==
    ASSUME IInv, NEW M, jobs \in [DOMAIN jobs -> JobSet(M)],
           NEW j \in DOMAIN jobs, JobStep(j)
    PROVE  /\ active' = active
           /\ \E r \in JobSet(M) : /\ jobs' = [jobs EXCEPT ![j] = r]
                                   /\ r.manifest = jobs[j].manifest
                                   /\ Does(j, r)
  <1>1. active' = active
    BY DEF JobStep, RunJob, Execute, RemoveContainer, RemoveDirectory,
       RemoveVolume, RemoveImage, OpenDatabase, DropDatabase, CloseDatabase,
       CheckOutput, FailAction, KillUnit, JobAlone, JobsUnchanged
  <1> DEFINE Goal == \E r \in JobSet(M) : /\ jobs' = [jobs EXCEPT ![j] = r]
                                          /\ r.manifest = jobs[j].manifest
                                          /\ Does(j, r)
  <1>2. CASE jobs' = Failed(j)
    <2>1. Goal
      BY <1>2, FailedIs DEF Does
    <2>2. QED
      BY <1>1, <2>1
  <1>3. ASSUME jobs' = Advanced(j), jobs[j].unit = "run",
               \A a : a = Action(j) => Over(a)'
        PROVE  Goal
    BY <1>3, AdvancedIs DEF Does
  <1>4. CASE RemoveContainer(j)
    <2>1. PICK a : a = Action(j)
      OBVIOUS
    <2>2. /\ jobs' = Advanced(j) /\ jobs[j].unit = "run"
          /\ a.kind = "container"
          /\ containers' = IF Exactly(a.target, a.id)
                           THEN Without({a.target}) ELSE containers
      BY <1>4, <2>1 DEF RemoveContainer, At, Action
    <2>3. Over(a)'
      BY <2>2 DEF Over, Exactly, Without
    <2>4. Goal
      BY <1>3, <2>1, <2>2, <2>3
    <2>5. QED
      BY <1>1, <2>4
  <1>5. CASE RemoveDirectory(j)
    <2>1. PICK a : a = Action(j)
      OBVIOUS
    <2>2. /\ jobs' = Advanced(j) /\ jobs[j].unit = "run"
          /\ a.kind \in {"path", "artifact"} /\ paths' = paths \ {a.target}
      BY <1>5, <2>1 DEF RemoveDirectory, At, Action
    <2>3. Over(a)'
      BY <2>2 DEF Over
    <2>4. Goal
      BY <1>3, <2>1, <2>2, <2>3
    <2>5. QED
      BY <1>1, <2>4
  <1>6. CASE RemoveVolume(j)
    <2>1. PICK a : a = Action(j)
      OBVIOUS
    <2>2. CASE jobs' # Failed(j)
      <3>1. /\ jobs' = Advanced(j) /\ jobs[j].unit = "run"
            /\ a.kind = "volume"
            /\ volumes' = {v \in volumes : v.name # a.target}
        BY <1>6, <2>1, <2>2 DEF RemoveVolume, At, Action
      <3>2. Over(a)'
        BY <3>1 DEF Over
      <3>3. Goal
        BY <1>3, <2>1, <3>1, <3>2
      <3>4. QED
        BY <1>1, <3>3
    <2>3. QED
      BY <1>2, <2>2
  <1>7. CASE RemoveImage(j)
    <2>1. PICK a : a = Action(j)
      OBVIOUS
    <2>2. CASE jobs' # Failed(j)
      <3>1. /\ jobs' = Advanced(j) /\ jobs[j].unit = "run"
            /\ a.kind = "image" /\ images' = images \ {a.target}
        BY <1>7, <2>1, <2>2 DEF RemoveImage, At, Action
      <3>2. Over(a)'
        BY <3>1 DEF Over
      <3>3. Goal
        BY <1>3, <2>1, <3>1, <3>2
      <3>4. QED
        BY <1>1, <3>3
    <2>3. QED
      BY <1>2, <2>2
  <1>8. CASE OpenDatabase(j)
    <2>1. CASE jobs' # Failed(j)
      <3>1. \/ jobs' = [jobs EXCEPT ![j].db = "found"]
            \/ jobs' = [jobs EXCEPT ![j].db = "started"]
        BY <1>8, <2>1 DEF OpenDatabase
      <3>2. jobs[j].unit = "run"
        BY <1>8 DEF OpenDatabase, At
      <3>3. PICK r \in JobSet(M) :
               /\ jobs' = [jobs EXCEPT ![j] = r]
               /\ r.manifest = jobs[j].manifest
               /\ r.state = jobs[j].state /\ r.unit = jobs[j].unit
               /\ r.at = jobs[j].at /\ r.db \in {"found", "started"}
        <4>1. CASE jobs' = [jobs EXCEPT ![j].db = "found"]
          <5>1. PICK r \in JobSet(M) :
                   /\ jobs' = [jobs EXCEPT ![j] = r]
                   /\ r.manifest = jobs[j].manifest
                   /\ r.state = jobs[j].state /\ r.unit = jobs[j].unit
                   /\ r.at = jobs[j].at /\ r.db = "found"
            BY <4>1, DatabaseIs
          <5>2. QED
            BY <5>1
        <4>2. CASE jobs' = [jobs EXCEPT ![j].db = "started"]
          <5>1. PICK r \in JobSet(M) :
                   /\ jobs' = [jobs EXCEPT ![j] = r]
                   /\ r.manifest = jobs[j].manifest
                   /\ r.state = jobs[j].state /\ r.unit = jobs[j].unit
                   /\ r.at = jobs[j].at /\ r.db = "started"
            BY <4>2, DatabaseIs
          <5>2. QED
            BY <5>1
        <4>3. QED
          BY <3>1, <4>1, <4>2
      <3>4. Does(j, r)
        BY <3>2, <3>3 DEF Does
      <3>5. Goal
        BY <3>3, <3>4
      <3>6. QED
        BY <1>1, <3>5
    <2>2. QED
      BY <1>2, <2>1
  <1>9. CASE DropDatabase(j)
    <2>1. PICK a : a = Action(j)
      OBVIOUS
    <2>2. CASE jobs' # Failed(j)
      <3>1. /\ jobs[j].unit = "run" /\ a.kind = "database"
            /\ databases' = databases \ {a.target}
            /\ jobs' = [jobs EXCEPT ![j].db = "dropped"] \/ jobs' = Advanced(j)
        BY <1>9, <2>1, <2>2 DEF DropDatabase, At, Action
      <3>2. CASE jobs' = Advanced(j)
        <4>1. Over(a)'
          BY <3>1 DEF Over
        <4>2. Goal
          BY <1>3, <2>1, <3>1, <3>2, <4>1
        <4>3. QED
          BY <1>1, <4>2
      <3>3. CASE jobs' = [jobs EXCEPT ![j].db = "dropped"]
        <4>1. PICK r \in JobSet(M) :
                 /\ jobs' = [jobs EXCEPT ![j] = r]
                 /\ r.manifest = jobs[j].manifest
                 /\ r.state = jobs[j].state /\ r.unit = jobs[j].unit
                 /\ r.at = jobs[j].at /\ r.db = "dropped"
          BY <3>3, DatabaseIs
        <4>2. Does(j, r)
          BY <2>1, <3>1, <4>1 DEF Does
        <4>3. Goal
          BY <4>1, <4>2
        <4>4. QED
          BY <1>1, <4>3
      <3>4. QED
        BY <3>1, <3>2, <3>3
    <2>3. QED
      BY <1>2, <2>2
  <1>10. CASE CloseDatabase(j)
    <2>1. PICK a : a = Action(j)
      OBVIOUS
    <2>2. CASE jobs' # Failed(j)
      <3>1. /\ jobs' = Advanced(j) /\ jobs[j].unit = "run"
            /\ a.kind = "database" /\ jobs[j].db = "dropped"
            /\ databases' = databases
        BY <1>10, <2>1, <2>2 DEF CloseDatabase, At, Action
      <3>2. a.target \notin databases
        BY <2>1, <3>1 DEF IInv, JobsInv, JobInv
      <3>3. Over(a)'
        BY <3>1, <3>2 DEF Over
      <3>4. Goal
        BY <1>3, <2>1, <3>1, <3>3
      <3>5. QED
        BY <1>1, <3>4
    <2>3. QED
      BY <1>2, <2>2
  <1>11. CASE Execute(j)
    <2>1. CASE jobs' = [jobs EXCEPT ![j].state = "failed", ![j].unit = "none"]
      <3> DEFINE r == [jobs[j] EXCEPT !.state = "failed", !.unit = "none"]
      <3>1. /\ r \in JobSet(M) /\ r.manifest = jobs[j].manifest
            /\ r.state = "failed" /\ r.unit = "none" /\ r.at = jobs[j].at
        BY DEF JobSet
      <3>2. jobs' = [jobs EXCEPT ![j] = r]
        BY <2>1 DEF JobSet
      <3> HIDE DEF r
      <3>3. Goal
        BY <3>1, <3>2 DEF Does
      <3>4. QED
        BY <1>1, <3>3
    <2>2. CASE jobs' = [jobs EXCEPT ![j].state = "running", ![j].unit = "run"]
      <3> DEFINE r == [jobs[j] EXCEPT !.state = "running", !.unit = "run"]
      <3>1. /\ r \in JobSet(M) /\ r.manifest = jobs[j].manifest
            /\ r.state = "running" /\ r.unit = "run"
            /\ r.at = jobs[j].at /\ r.db = jobs[j].db
        BY DEF JobSet
      <3>2. jobs' = [jobs EXCEPT ![j] = r] /\ jobs[j].unit = "queued"
        BY <1>11, <2>2 DEF JobSet, Execute
      <3> HIDE DEF r
      <3>3. Goal
        BY <3>1, <3>2 DEF Does
      <3>4. QED
        BY <1>1, <3>3
    <2>3. QED
      BY <1>11, <2>1, <2>2 DEF Execute
  <1>12. CASE CheckOutput(j)
    <2>1. \E i \in DOMAIN jobs[j].manifest.actions :
             Prints(jobs[j].manifest.actions[i])
      BY DEF IInv, JobsInv, JobInv, Sound, Prints
    <2>2. QED
      BY <1>2, <1>12, <2>1 DEF CheckOutput
  <1>13. CASE FailAction(j)
    BY <1>2, <1>13 DEF FailAction
  <1>14. CASE KillUnit(j)
    <2> DEFINE r == [jobs[j] EXCEPT !.unit = "none", !.db = "idle"]
    <2>1. /\ r \in JobSet(M) /\ r.manifest = jobs[j].manifest
          /\ r.state = jobs[j].state /\ r.unit = "none" /\ r.at = jobs[j].at
      BY DEF JobSet
    <2>2. jobs' = [jobs EXCEPT ![j] = r] /\ jobs[j].unit = "run"
      BY <1>14 DEF JobSet, KillUnit
    <2> HIDE DEF r
    <2>3. Goal
      BY <2>1, <2>2 DEF Does
    <2>4. QED
      BY <1>1, <2>3
  <1>15. QED
    BY <1>4, <1>5, <1>6, <1>7, <1>8, <1>9, <1>10, <1>11, <1>12, <1>13, <1>14
       DEF JobStep, RunJob

-----------------------------------------------------------------------------
\* A job that no step touches has still done what it had done.
LEMMA UntouchedJob ==
    ASSUME IInv, HostGrows, NEW k \in DOMAIN jobs, k \in DOMAIN jobs',
           jobs'[k] = jobs[k], Held(k) => active' = active
    PROVE  JobInv(k)'
  <1>1. PICK m : m = jobs[k].manifest
    OBVIOUS
  <1>2. drift \in Nat /\ Sound(m) /\ JobInv(k)
    BY <1>1 DEF IInv, HostInv, JobsInv, JobInv
  <1>3. Sound(jobs[k].manifest)'
    <2>1. jobs'[k].manifest = m /\ Sound(m)'
      BY <1>1, <1>2, SoundStays
    <2>2. QED
      BY <2>1 DEF Sound, Good, Exactly
  <1>4. Held(k)' => k = active'
    BY <1>2 DEF JobInv, Held
  <1>5. ASSUME jobs[k].unit = "run" \/ jobs[k].at > Len(m.actions),
               NEW i \in DOMAIN m.actions, i < jobs[k].at
        PROVE  Over(m.actions[i])'
    <2>1. Over(m.actions[i])
      BY <1>1, <1>2, <1>5 DEF JobInv
    <2>2. QED
      BY <1>2, <2>1, OverStays DEF Sound
  <1>6. (\A i \in DOMAIN jobs[k].manifest.actions :
           i < jobs[k].at => Over(jobs[k].manifest.actions[i]))'
        \/ ~(jobs[k].unit = "run" \/ jobs[k].at > Len(jobs[k].manifest.actions))'
    BY <1>1, <1>5 DEF Over, Exactly
  <1>7. jobs'[k].unit = "run" /\ jobs'[k].db = "dropped"
           => Action(k)'.target \notin databases'
    BY <1>2 DEF JobInv, Action, HostGrows
  <1>8. QED
    BY <1>2, <1>3, <1>4, <1>6, <1>7 DEF JobInv

\* A job that moves leaves nothing undone behind it.
LEMMA MovedJob ==
    ASSUME IInv, HostGrows, NEW M, jobs \in [DOMAIN jobs -> JobSet(M)],
           NEW j \in DOMAIN jobs, NEW r \in JobSet(M),
           jobs' = [jobs EXCEPT ![j] = r], r.manifest = jobs[j].manifest,
           Does(j, r), active' = active
    PROVE  JobInv(j)'
  <1>1. PICK m : m = jobs[j].manifest
    OBVIOUS
  <1>2. drift \in Nat /\ Sound(m) /\ JobInv(j) /\ jobs'[j] = r
    BY <1>1 DEF IInv, HostInv, JobsInv, JobInv
  <1>3. Sound(jobs[j].manifest)'
    <2>1. jobs'[j].manifest = m /\ Sound(m)'
      BY <1>1, <1>2, SoundStays
    <2>2. QED
      BY <2>1 DEF Sound, Good, Exactly
  <1>4. jobs[j] \in JobSet(M) /\ jobs[j].at \in Nat /\ r.at \in Nat \ {0}
    BY DEF JobSet
  <1>5. /\ Held(j)' => j = active'
        /\ r.unit = "queued" => FALSE
        /\ r.unit = "run" => r.state = "running"
        /\ r.state # "passed"
    BY <1>1, <1>2, <1>4 DEF Does, JobInv, Held, JobSet
  <1>6. ASSUME r.unit = "run" \/ r.at > Len(m.actions),
               NEW i \in DOMAIN m.actions, i < r.at
        PROVE  Over(m.actions[i])'
    <2>1. i \in Nat
      BY <1>2 DEF Sound
    <2>2. CASE /\ jobs[j].unit = "run" \/ jobs[j].at > Len(m.actions)
               /\ i < jobs[j].at
      <3>1. Over(m.actions[i])
        BY <1>1, <1>2, <2>2 DEF JobInv
      <3>2. QED
        BY <1>2, <3>1, OverStays DEF Sound
    <2>3. CASE ~(/\ jobs[j].unit = "run" \/ jobs[j].at > Len(m.actions)
                 /\ i < jobs[j].at)
      <3>1. /\ jobs[j].unit = "run" /\ r.at = jobs[j].at + 1
            /\ \A a : a = Action(j) => Over(a)'
        BY <1>2, <1>4, <1>6, <2>1, <2>3 DEF Does, JobInv, Sound
      <3>2. m.actions[i] = Action(j)
        BY <1>1, <1>4, <1>6, <2>1, <2>3, <3>1 DEF Action
      <3>3. QED
        BY <3>1, <3>2
    <2>4. QED
      BY <2>2, <2>3
  <1>7. (\A i \in DOMAIN jobs[j].manifest.actions :
           i < jobs[j].at => Over(jobs[j].manifest.actions[i]))'
        \/ ~(jobs[j].unit = "run" \/ jobs[j].at > Len(jobs[j].manifest.actions))'
    BY <1>1, <1>2, <1>6 DEF Over, Exactly
  <1>8. jobs'[j].unit = "run" /\ jobs'[j].db = "dropped"
           => Action(j)'.target \notin databases'
    <2>1. ASSUME r.unit = "run", r.db = "dropped"
          PROVE  /\ r.at = jobs[j].at
                 /\ \A a : a = Action(j) => a.target \notin databases'
      BY <1>2, <1>4, <2>1 DEF Does, JobInv
    <2>2. QED
      BY <1>2, <2>1 DEF Action
  <1>9. QED
    BY <1>1, <1>2, <1>3, <1>5, <1>7, <1>8 DEF JobInv

\* A request that is submitted begins at its first action, and replaces no other
\* that is held.
LEMMA SubmittedJob ==
    ASSUME IInv, HostGrows, Submit
    PROVE  JobsInv'
  <1>1. CASE UNCHANGED <<jobs, active>>
    <2>1. \A k \in DOMAIN jobs : JobInv(k)'
      BY <1>1, UntouchedJob
    <2>2. QED
      BY <1>1, <2>1 DEF IInv, JobsInv, JobsTyped
  <1>2. CASE ~UNCHANGED <<jobs, active>>
    <2> DEFINE j == RequestOf(approved)
    <2>1. PICK s \in {"pending", "failed"}, u \in {"queued", "none"} :
             /\ jobs' = Submitted(approved, s, u) /\ active' = j
             /\ s = "pending" \/ u = "none"
             /\ ~(active # j /\ Held(active))
             /\ approved # None
      BY <1>2 DEF Submit
    <2>2. PICK m : m = approved
      OBVIOUS
    <2> DEFINE r == [manifest |-> m, state |-> s, unit |-> u, at |-> 1,
                     db |-> "idle"]
    <2>3. jobs' = [n \in DOMAIN jobs \union {j} |->
                     IF n = j THEN r ELSE jobs[n]]
      BY <2>1, <2>2 DEF Submitted
    <2>4. r \in JobSet({m})
      BY DEF JobSet
    <2>5. /\ r.state = s /\ r.unit = u /\ r.manifest = m /\ r.at = 1
          /\ r.db = "idle"
      OBVIOUS
    <2> HIDE DEF r, j
    <2>6. PICK M : jobs \in [DOMAIN jobs -> JobSet(M)]
      BY DEF IInv, JobsInv, JobsTyped
    <2>7. JobsTyped'
      <3>1. r \in JobSet(M \union {m})
        BY <2>4 DEF JobSet
      <3>2. \A k \in DOMAIN jobs : jobs[k] \in JobSet(M \union {m})
        BY <2>6 DEF JobSet
      <3>3. jobs' \in [DOMAIN jobs' -> JobSet(M \union {m})]
        BY <2>3, <3>1, <3>2
      <3>4. QED
        BY <3>3 DEF JobsTyped
    <2>8. drift \in Nat /\ Sound(m)
      BY <2>1, <2>2 DEF IInv, HostInv, FilesInv
    <2>9. ASSUME NEW k \in DOMAIN jobs'
          PROVE  JobInv(k)'
      <3>1. CASE k = j
        <4>1. jobs'[k] = r
          BY <2>3, <3>1
        <4>2. Sound(jobs[k].manifest)'
          BY <2>5, <2>8, <4>1, SoundStays DEF Sound, Good, Exactly
        <4>3. \A i \in DOMAIN jobs'[k].manifest.actions : ~(i < jobs'[k].at)
          BY <2>5, <2>8, <4>1 DEF Sound
        <4>4. QED
          BY <2>1, <2>5, <3>1, <4>1, <4>2, <4>3 DEF JobInv
      <3>2. CASE k # j
        <4>1. k \in DOMAIN jobs /\ jobs'[k] = jobs[k]
          BY <2>3, <3>2
        <4>2. ~Held(k)
          BY <2>1, <3>2, <4>1 DEF IInv, JobsInv, JobInv
        <4>3. QED
          BY <4>1, <4>2, UntouchedJob
      <3>3. QED
        BY <3>1, <3>2
    <2>10. QED
      BY <2>7, <2>9 DEF JobsInv
  <1>3. QED
    BY <1>1, <1>2

\* Every step leaves jobs that have done what precedes where they are.
LEMMA JobsStep ==
    ASSUME IInv, HostGrows, Next
    PROVE  JobsInv'
  <1>1. CASE UNCHANGED <<jobs, active>>
    <2>1. \A k \in DOMAIN jobs : JobInv(k)'
      BY <1>1, UntouchedJob
    <2>2. QED
      BY <1>1, <2>1 DEF IInv, JobsInv, JobsTyped
  <1>2. CASE \E j \in DOMAIN jobs : JobStep(j)
    <2>1. PICK j \in DOMAIN jobs : JobStep(j)
      BY <1>2
    <2>2. PICK M : jobs \in [DOMAIN jobs -> JobSet(M)]
      BY DEF IInv, JobsInv, JobsTyped
    <2>3. active' = active
      BY <2>1, <2>2, JobDoes
    <2>4. PICK r \in JobSet(M) : /\ jobs' = [jobs EXCEPT ![j] = r]
                                 /\ r.manifest = jobs[j].manifest
                                 /\ Does(j, r)
      BY <2>1, <2>2, JobDoes
    <2>5. jobs' \in [DOMAIN jobs' -> JobSet(M)] /\ DOMAIN jobs' = DOMAIN jobs
      BY <2>2, <2>4
    <2>6. JobInv(j)'
      BY <2>2, <2>3, <2>4, MovedJob
    <2>7. ASSUME NEW k \in DOMAIN jobs, k # j
          PROVE  JobInv(k)'
      BY <2>2, <2>3, <2>4, <2>5, <2>7, UntouchedJob
    <2>8. QED
      BY <2>5, <2>6, <2>7 DEF JobsInv, JobsTyped
  <1>3. QED
    BY <1>1, <1>2, SubmittedJob, WhoWrites

-----------------------------------------------------------------------------
(* The theorems. *)

\* Nothing has been collected and nothing runs.
LEMMA InitInv == Init => IInv
  <1> SUFFICES ASSUME Init PROVE IInv
    OBVIOUS
  <1>1. PICK w \in Worlds :
           /\ containers = w.containers /\ volumes = w.volumes
           /\ images = w.images /\ paths = w.paths
           /\ drift = IF w.quiet THEN MaxDrift ELSE 0
    BY DEF Init
  <1>2. HostInv
    <2>1. drift \in Nat
      BY <1>1, KeplerAssumption
    <2>2. ContainerType \subseteq AnyContainer
      BY DEF ContainerType, AnyContainer, Words
    <2>3. w.containers \in [DOMAIN w.containers -> ContainerType]
      BY KeplerAssumption
    <2>4. containers \in [DOMAIN containers -> AnyContainer]
      BY <1>1, <2>2, <2>3
    <2>5. QED
      BY <1>1, <2>1, <2>4, KeplerAssumption DEF HostInv
  <1>3. FilesInv
    BY DEF Init, FilesInv
  <1>4. BackupInv
    <2>1. backup = [state |-> "missing", live |-> FALSE, request |-> None,
                    started |-> FALSE, source |-> None, read |-> {}]
      BY DEF Init
    <2>2. backup \in BackupSet({None}, {{}}) /\ backup.state = "missing"
      BY <2>1 DEF BackupSet
    <2>3. QED
      BY <2>2 DEF BackupInv
  <1>5. JobsInv
    <2>1. jobs = <<>> /\ DOMAIN jobs = {}
      BY DEF Init
    <2>2. jobs \in [DOMAIN jobs -> JobSet({})]
      BY <2>1
    <2>3. QED
      BY <2>1, <2>2 DEF JobsInv, JobsTyped
  <1>6. QED
    BY <1>2, <1>3, <1>4, <1>5 DEF IInv

\* Every step keeps every part of the invariant.
LEMMA NextInv == IInv /\ [Next]_vars => IInv'
  <1>1. ASSUME IInv, UNCHANGED vars
        PROVE  IInv'
    <2>1. HostInv' /\ FilesInv'
      BY <1>1 DEF IInv, vars, host, files, budget, history, HostInv, FilesInv,
         Seen, Evident, Sound, Good, Exactly
    <2>2. HostGrows /\ UNCHANGED <<backup, jobs, active>>
      <3>1. /\ UNCHANGED <<containers, volumes, images, paths, databases, drift>>
            /\ UNCHANGED <<verified, backup, jobs, active>>
        BY <1>1 DEF vars, host, budget, history
      <3>2. drift \in Nat /\ HostInv
        BY <1>1 DEF IInv, HostInv
      <3>3. QED
        BY <2>1, <3>1, <3>2 DEF HostGrows, Exactly
    <2>3. BackupInv'
      BY <1>1, <2>2, BackupStep
    <2>4. JobsInv'
      BY <1>1, <2>2, UntouchedJob DEF IInv, JobsInv, JobsTyped
    <2>5. QED
      BY <2>1, <2>3, <2>4 DEF IInv
  <1>2. ASSUME IInv, Next
        PROVE  IInv'
    <2>1. HostGrows
      BY <1>2, HostStep DEF IInv
    <2>2. QED
      BY <1>2, <2>1, FilesStep, BackupStep, JobsStep DEF IInv, HostGrows
  <1>3. QED
    BY <1>1, <1>2

\* The invariant holds throughout.
LEMMA Invariant == Spec => []IInv
  BY InitInv, NextInv, PTL DEF Spec

\* At most one retirement is pending or running, for any number of requests,
\* failures and kills.
THEOREM AlwaysOneAtATime == Spec => []OneAtATime
  <1>1. IInv => OneAtATime
    BY DEF IInv, JobsInv, JobInv, OneAtATime, Held
  <1>2. QED
    BY <1>1, Invariant, PTL

\* A retirement whose executor came to the end of its manifest left nothing of it, and
\* nothing of it has come back since, whatever failed and was submitted again.
THEOREM FinishedAlwaysComplete == Spec => []FinishedIsComplete
  <1>1. ASSUME IInv
        PROVE  FinishedIsComplete
    <2>1. SUFFICES ASSUME NEW j \in DOMAIN jobs,
                          jobs[j].at > Len(jobs[j].manifest.actions),
                          NEW i \in DOMAIN jobs[j].manifest.actions
                   PROVE  Over(jobs[j].manifest.actions[i])
      BY DEF FinishedIsComplete, Over
    <2>2. JobInv(j)
      BY <1>1 DEF IInv, JobsInv
    <2>3. i < jobs[j].at
      <3>1. jobs[j].at \in Nat
        BY <1>1 DEF IInv, JobsInv, JobsTyped, JobSet
      <3>2. QED
        BY <2>1, <2>2, <3>1 DEF JobInv, Sound
    <2>4. QED
      BY <2>1, <2>2, <2>3 DEF JobInv
  <1>2. QED
    BY <1>1, Invariant, PTL

\* The job never reports a retirement as passed: every manifest removes an image, and
\* what podman prints of that is among the lines that the job wants to be the
\* executor's own.  The tests of the job have an executor that prints nothing else.
NonePassed == \A j \in DOMAIN jobs : jobs[j].state # "passed"

THEOREM NoRetirementPasses == Spec => []NonePassed
  <1>1. IInv => NonePassed
    BY DEF IInv, JobsInv, JobInv, NonePassed
  <1>2. QED
    BY <1>1, Invariant, PTL

\* The Airflow database only ever goes from a container whose dump was restored and
\* found the same, whatever fails, and whatever deployments replace between the
\* evidence and the drop.
THEOREM DropAlwaysBacked == Spec => DropIsBacked
  <1>1. IInv /\ [Next]_vars
          => [databases' # databases
                => containers["postgres"].id \in verified]_vars
    <2> SUFFICES ASSUME IInv, [Next]_vars, databases' # databases
                 PROVE  containers["postgres"].id \in verified
      OBVIOUS
    <2>1. Next
      BY DEF vars, host
    <2>2. PICK j \in DOMAIN jobs : DropDatabase(j)
      <3>1. CASE (\E n \in Touched \intersect DOMAIN containers :
                    Flip(n) \/ Recreate(n)) \/ Borrow
        BY <3>1 DEF Flip, Recreate, Borrow, Changed
      <3>2. CASE CollectInventory \/ CollectPaths \/ PlanDatabase
                 \/ AssembleEvidence \/ PlanRetirement \/ ExecuteRetirement
                 \/ Submit
                 \/ \E mode \in {"run", "run-stopped"} : SubmitBackup(mode)
        BY <3>2 DEF CollectInventory, CollectPaths, PlanDatabase,
           AssembleEvidence, PlanRetirement, ExecuteRetirement, Submit,
           SubmitBackup, host
      <3>3. CASE RunBackup \/ KillBackup
        BY <3>3 DEF RunBackup, KillBackup, BeginBackup, ReadBackup, EndBackup, CleanUp,
           host
      <3>4. CASE \E j \in DOMAIN jobs : JobStep(j)
        BY <3>4 DEF JobStep, RunJob, Execute, RemoveContainer, RemoveDirectory,
           RemoveVolume, RemoveImage, OpenDatabase, CloseDatabase, CheckOutput,
           FailAction, KillUnit, HostUnchanged
      <3>5. CASE AiNext /\ UNCHANGED <<volumes, databases, files, backup, jobs,
                                       active, budget, history>>
        BY <3>5
      <3>6. QED
        BY <2>1, <3>1, <3>2, <3>3, <3>4, <3>5 DEF Next, JobStep
    <2>3. /\ Running("postgres", Action(j).id)
          /\ Action(j).kind = "database"
          /\ Action(j) = jobs[j].manifest.actions[jobs[j].at]
          /\ jobs[j].at <= Len(jobs[j].manifest.actions)
      BY <2>2 DEF DropDatabase, At, Action
    <2>4. Good(Action(j).id)
      <3>1. jobs[j].at \in Nat \ {0} /\ Sound(jobs[j].manifest)
        BY DEF IInv, JobsInv, JobsTyped, JobSet, JobInv
      <3>2. jobs[j].at \in DOMAIN jobs[j].manifest.actions
        BY <2>3, <3>1 DEF Sound
      <3>3. QED
        BY <2>3, <3>1, <3>2 DEF Sound
    <2>5. QED
      BY <2>3, <2>4 DEF Good, Running, Exactly
  <1>2. QED
    BY <1>1, Invariant, PTL DEF Spec, DropIsBacked
=============================================================================
