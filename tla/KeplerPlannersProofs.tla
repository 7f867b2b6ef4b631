------------------------- MODULE KeplerPlannersProofs -------------------------
(***************************************************************************)
(* The planners agree on every inventory, each with its own checks and     *)
(* lists, and a retirement that stopped half way can be planned again.     *)
(***************************************************************************)
EXTENDS KeplerHostProofs

-----------------------------------------------------------------------------
(* The inductive invariant. *)

\* An inventory that evidence can be assembled for: of the volumes of a family and
\* of the F5 images it has no two that are alike.
Single(inv) ==
    /\ \A i, k \in F5Images(inv) : i = k
    /\ \A f \in Families : \A l \in FamilyVolumes[f] :
          \A u, v \in FamilyRuntimeVolumes(inv, f, l) : u = v

\* The evidence leaves no container and no volume of a family out.
Complete(e) ==
    /\ Single(e.inventory)
    /\ \A f \in Families :
          /\ FamilyContainers[f] \intersect DOMAIN e.inventory.containers
                \subseteq e.families[f].containers
          /\ \A v \in e.inventory.volumes :
                Retiring(v, f) => v \in e.families[f].volumes

\* Nor does a manifest.
Full(m) ==
    /\ Single(m.inventory)
    /\ \A f \in Families :
          /\ \A n \in FamilyContainers[f] \intersect DOMAIN m.inventory.containers :
                \E i \in DOMAIN m.actions : m.actions[i].target = n
          /\ \A v \in m.inventory.volumes :
                Retiring(v, f) =>
                   \E i \in DOMAIN m.actions :
                      m.actions[i].kind = "volume" /\ m.actions[i].target = v.name

\* An inventory has postgres and every image there still is, and so have the
\* inventories of what was planned from it; the executor took what it has.
PlansInv ==
    /\ inventory # None =>
          /\ "postgres" \in DOMAIN inventory.containers
          /\ images \subseteq inventory.images
    /\ evidence # None => Complete(evidence) /\ images \subseteq evidence.inventory.images
    /\ manifest # None => Full(manifest) /\ images \subseteq manifest.inventory.images
    /\ approved # None => Full(approved) /\ images \subseteq approved.inventory.images
    /\ \A j \in DOMAIN jobs :
          LET m == jobs[j].manifest
          IN Full(m) /\ Preflight(m) /\ images \subseteq m.inventory.images

-----------------------------------------------------------------------------
(* The retirement plan. *)

\* A finite set of one element at most.
LEMMA OneAtMost ==
    ASSUME NEW S, IsFiniteSet(S)
    PROVE  Cardinality(S) <= 1 <=> \A x, y \in S : x = y
  <1>1. Cardinality(S) \in Nat
    BY FS_CardinalityType
  <1>2. CASE S = {}
    BY <1>2, FS_EmptySet
  <1>3. CASE S # {}
    <2>1. Cardinality(S) # 0
      BY <1>3, FS_EmptySet
    <2>2. Cardinality(S) = 1 <=> \E x : S = {x}
      BY FS_Singleton
    <2>3. (\E x : S = {x}) <=> \A x, y \in S : x = y
      BY <1>3
    <2>4. Cardinality(S) <= 1 <=> Cardinality(S) = 1
      BY <1>1, <2>1
    <2>5. QED
      BY <2>2, <2>3, <2>4, Zenon
  <1>4. QED
    BY <1>2, <1>3

\* Evidence that can be assembled for an inventory leaves nothing of it out.
LEMMA AssembledComplete ==
    ASSUME NEW inv, NEW records, NEW db, Seen(inv),
           Assemblable(inv, records, db)
    PROVE  Complete(Assemble(inv, records, db))
  <1> DEFINE e == Assemble(inv, records, db)
  <1>1. Single(inv)
    <2>1. IsFiniteSet(F5Images(inv)) /\ Cardinality(F5Images(inv)) = 1
      BY FS_Subset DEF F5Images, Seen, Assemblable
    <2>2. ASSUME NEW f \in Families, NEW l \in FamilyVolumes[f]
          PROVE  \A u, v \in FamilyRuntimeVolumes(inv, f, l) : u = v
      <3>1. IsFiniteSet(FamilyRuntimeVolumes(inv, f, l))
        BY FS_Subset DEF FamilyRuntimeVolumes, Seen
      <3>2. Cardinality(FamilyRuntimeVolumes(inv, f, l)) <= 1
        BY DEF Assemblable
      <3>3. QED
        BY <3>1, <3>2, OneAtMost
    <2>3. QED
      BY <2>1, <2>2, OneAtMost DEF Single
  <1>2. ASSUME NEW f \in Families
        PROVE  LET r == FamilyResources(inv, records, f)
               IN /\ FamilyContainers[f] \intersect DOMAIN inv.containers
                        \subseteq r.containers
                  /\ \A v \in inv.volumes : Retiring(v, f) => v \in r.volumes
    BY DEF FamilyResources, FamilyRuntimeVolumes, Retiring
  <1>3. /\ e.inventory = inv
        /\ e.families = [f \in Families |-> FamilyResources(inv, records, f)]
    BY DEF Assemble
  <1> HIDE DEF e
  <1>4. QED
    BY <1>1, <1>2, <1>3 DEF Complete, e

\* A manifest of complete evidence is full.
LEMMA ManifestFull ==
    ASSUME NEW e, Evident(e), Complete(e)
    PROVE  Full(Manifest(e))
  <1> DEFINE m == Manifest(e)
  <1>1. \A a \in ManifestDrafts(e) : \E i \in DOMAIN m.actions : m.actions[i] = a
    BY ManifestListed DEF Lists, Evident
  <1>2. m.inventory = e.inventory
    BY DEF Manifest
  <1>3. ASSUME NEW f \in Families
        PROVE  FamilyDrafts(e, f) \subseteq ManifestDrafts(e)
    BY DEF ManifestDrafts, Families
  <1> HIDE DEF m
  <1>4. ASSUME NEW f \in Families,
               NEW n \in FamilyContainers[f] \intersect DOMAIN e.inventory.containers
        PROVE  \E i \in DOMAIN m.actions : m.actions[i].target = n
    <2> DEFINE a == [kind |-> "container", target |-> n,
                     id |-> e.inventory.containers[n].id]
    <2>1. n \in e.families[f].containers
      BY DEF Complete
    <2>2. a \in FamilyDrafts(e, f)
      BY <2>1 DEF FamilyDrafts, ContainerDrafts
    <2>3. PICK i \in DOMAIN m.actions : m.actions[i] = a
      BY <1>1, <1>3, <2>2
    <2>4. QED
      BY <2>3
  <1>5. ASSUME NEW f \in Families, NEW v \in e.inventory.volumes, Retiring(v, f)
        PROVE  \E i \in DOMAIN m.actions :
                  m.actions[i].kind = "volume" /\ m.actions[i].target = v.name
    <2> DEFINE a == [kind |-> "volume", target |-> v.name, id |-> 0]
    <2>1. v \in e.families[f].volumes
      BY <1>5 DEF Complete
    <2>2. a \in FamilyDrafts(e, f)
      BY <2>1 DEF FamilyDrafts, Drafts
    <2>3. PICK i \in DOMAIN m.actions : m.actions[i] = a
      BY <1>1, <1>3, <2>2
    <2>4. QED
      BY <2>3
  <1>6. QED
    BY <1>2, <1>4, <1>5 DEF Full, Complete, m

-----------------------------------------------------------------------------
(* Every step keeps the invariant. *)

\* The operator's files.
LEMMA FilesFull ==
    ASSUME IInv, OwnInv, PlansInv, Next, HostGrows
    PROVE  /\ inventory' # None =>
                 /\ "postgres" \in DOMAIN inventory'.containers
                 /\ images' \subseteq inventory'.images
           /\ evidence' # None =>
                 Complete(evidence') /\ images' \subseteq evidence'.inventory.images
           /\ manifest' # None =>
                 Full(manifest') /\ images' \subseteq manifest'.inventory.images
           /\ approved' # None =>
                 Full(approved') /\ images' \subseteq approved'.inventory.images
  <1>1. images' \subseteq images
    BY DEF HostGrows
  <1>2. ASSUME inventory' # None
        PROVE  /\ "postgres" \in DOMAIN inventory'.containers
               /\ images' \subseteq inventory'.images
    <2>1. "postgres" \in DOMAIN Now.containers /\ images \subseteq Now.images
      BY DEF OwnInv, HostOwn, Now, Snapshot
    <2>2. QED
      BY <1>1, <1>2, <2>1, WhoWrites DEF PlansInv
  <1>3. ASSUME evidence' # None
        PROVE  Complete(evidence') /\ images' \subseteq evidence'.inventory.images
    <2>1. CASE evidence' = evidence
      BY <1>1, <1>3, <2>1 DEF PlansInv
    <2>2. CASE AssembleEvidence
      <3>1. /\ evidence' = Assemble(inventory, pathRecords, database)
            /\ Assemblable(inventory, pathRecords, database)
            /\ inventory # None
        BY <2>2 DEF AssembleEvidence
      <3>2. Seen(inventory) /\ images \subseteq inventory.images
        BY <3>1 DEF IInv, FilesInv, PlansInv
      <3>3. evidence'.inventory = inventory
        BY <3>1 DEF Assemble
      <3>4. QED
        BY <1>1, <3>1, <3>2, <3>3, AssembledComplete
    <2>3. QED
      BY <2>1, <2>2, WhoWrites
  <1>4. ASSUME manifest' # None
        PROVE  Full(manifest') /\ images' \subseteq manifest'.inventory.images
    <2>1. CASE manifest' = manifest
      BY <1>1, <1>4, <2>1 DEF PlansInv
    <2>2. CASE PlanRetirement
      <3>1. manifest' = Manifest(evidence) /\ evidence # None
        BY <2>2 DEF PlanRetirement
      <3>2. /\ Evident(evidence) /\ Complete(evidence)
            /\ images \subseteq evidence.inventory.images
        BY <3>1 DEF IInv, FilesInv, PlansInv
      <3>3. manifest'.inventory = evidence.inventory
        BY <3>1 DEF Manifest
      <3>4. QED
        BY <1>1, <3>1, <3>2, <3>3, ManifestFull
    <2>3. QED
      BY <2>1, <2>2, WhoWrites
  <1>5. ASSUME approved' # None
        PROVE  Full(approved') /\ images' \subseteq approved'.inventory.images
    BY <1>1, <1>5, WhoWrites DEF PlansInv
  <1>6. QED
    BY <1>2, <1>3, <1>4, <1>5

\* The requests keep their manifests, and a new one has the approved manifest.
LEMMA JobsFull ==
    ASSUME IInv, OwnInv, PlansInv, Next, HostGrows, NEW k \in DOMAIN jobs'
    PROVE  LET m == jobs'[k].manifest
           IN Full(m) /\ Preflight(m) /\ images' \subseteq m.inventory.images
  <1>1. images' \subseteq images
    BY DEF HostGrows
  <1>2. ASSUME k \in DOMAIN jobs, jobs'[k].manifest = jobs[k].manifest
        PROVE  LET m == jobs'[k].manifest
               IN Full(m) /\ Preflight(m) /\ images' \subseteq m.inventory.images
    BY <1>1, <1>2 DEF PlansInv
  <1>3. CASE UNCHANGED <<jobs, active>>
    BY <1>2, <1>3
  <1>4. CASE \E j \in DOMAIN jobs : JobStep(j)
    <2>1. PICK j \in DOMAIN jobs : JobStep(j)
      BY <1>4
    <2>2. /\ DOMAIN jobs' = DOMAIN jobs
          /\ \A i \in DOMAIN jobs : i # j => jobs'[i] = jobs[i]
          /\ jobs'[j].manifest = jobs[j].manifest
      BY <2>1, JobMoves DEF OwnInv
    <2>3. QED
      BY <1>2, <2>2
  <1>5. CASE Submit /\ ~UNCHANGED <<jobs, active>>
    <2> DEFINE j == RequestOf(approved)
    <2>1. PICK s \in {"pending", "failed"}, u \in {"queued", "none"} :
             /\ jobs' = Submitted(approved, s, u)
             /\ Preflight(approved) /\ approved # None
      BY <1>5 DEF Submit
    <2>2. /\ Full(approved)
          /\ images \subseteq approved.inventory.images
      BY <2>1 DEF PlansInv
    <2>3. CASE k = j
      <3>1. jobs'[k].manifest = approved
        BY <2>1, <2>3 DEF Submitted
      <3>2. QED
        BY <1>1, <2>1, <2>2, <3>1
    <2>4. CASE k # j
      <3>1. k \in DOMAIN jobs /\ jobs'[k] = jobs[k]
        BY <2>1, <2>4 DEF Submitted
      <3>2. QED
        BY <1>2, <3>1
    <2>5. QED
      BY <2>3, <2>4
  <1>6. QED
    BY <1>3, <1>4, <1>5, WhoWrites

\* The invariant holds throughout.
LEMMA PlansInvariant == Spec => [](IInv /\ OwnInv /\ PlansInv)
  <1>1. Init => PlansInv
    <2> SUFFICES ASSUME Init PROVE PlansInv
      OBVIOUS
    <2>1. /\ inventory = None /\ evidence = None
          /\ manifest = None /\ approved = None /\ DOMAIN jobs = {}
      BY DEF Init
    <2>2. QED
      BY <2>1 DEF PlansInv
  <1>2. ASSUME PlansInv, UNCHANGED vars
        PROVE  PlansInv'
    <2>1. UNCHANGED <<images, inventory, evidence, manifest, approved, jobs>>
      BY <1>2 DEF vars, host, files
    <2>2. QED
      BY <1>2, <2>1 DEF PlansInv
  <1>3. ASSUME IInv, OwnInv, PlansInv, Next
        PROVE  PlansInv'
    <2>1. HostGrows
      BY <1>3, HostStep DEF IInv
    <2>2. QED
      BY <1>3, <2>1, FilesFull, JobsFull DEF PlansInv
  <1>4. IInv /\ OwnInv /\ PlansInv /\ [Next]_vars => PlansInv'
    BY <1>2, <1>3
  <1>5. QED
    BY <1>1, <1>4, HostInvariant, PTL DEF Spec

-----------------------------------------------------------------------------
(* The theorems. *)

\* The planners agree on any inventory with postgres, whatever is declared.
LEMMA InventoryAgreed ==
    ASSUME NEW inv, "postgres" \in DOMAIN inv.containers, NEW identities \in BOOLEAN
    PROVE  Agree(Desired(identities), inv)
  <1> DEFINE d == Desired(identities)
             C == inv.containers
             Judged(n, mode) == Classification(d, n, C[n], mode)
             Labelled(n) == <<C[n].project, C[n].service>>
                               = <<Declared[n].project, Declared[n].service>>
  <1>1. d.services = Declared
    BY DEF Desired
  <1>2. "postgres" \in DOMAIN C
    OBVIOUS
  \* What quiesce says, and what reconcile asks for when it does not halt.
  <1>3. ASSUME ~QuiesceHalts(d, inv)
        PROVE  IF \A stack \in {"docs-search", "infra"} :
                     QuiesceStack(d, inv, stack) = {}
               THEN Quiesce(d, inv) = "nothing-to-quiesce"
               ELSE Quiesce(d, inv) = "ready"
    BY <1>3 DEF Quiesce
  <1>4. Quiesce(d, inv) = "ready" =>
           /\ ~QuiesceHalts(d, inv)
           /\ \E stack \in {"docs-search", "infra"} :
                 QuiesceStack(d, inv, stack) # {}
    BY DEF Quiesce
  <1>5. ASSUME Reconcile(d, inv, "migration") # "halt", NEW n \in DOMAIN C
        PROVE  Judged(n, "migration") # "halt"
    BY <1>5 DEF Reconcile
  <1>6. ASSUME Reconcile(d, inv, "audit") # "halt", NEW n \in DOMAIN C
        PROVE  Judged(n, "audit") # "halt"
    BY <1>6 DEF Reconcile
  <1>7. ASSUME NEW n \in DOMAIN C, n \in DOMAIN Declared,
               Judged(n, "migration") # "halt"
        PROVE  /\ C[n].state = "exited"
               /\ C[n].project # "homelab" => Labelled(n)
    BY <1>1, <1>7 DEF Classification, Migrates, Diffs
  <1>8. ASSUME NEW n \in DOMAIN C, n \notin DOMAIN Declared,
               Judged(n, "migration") # "halt"
        PROVE  RetiredFamilies(n, C[n]) # {}
    BY <1>1, <1>8 DEF Classification
  <1>9. ASSUME NEW n \in DOMAIN C, Judged(n, "audit") # "halt"
        PROVE  /\ n \in DOMAIN Declared /\ C[n].state = "running"
               /\ Labelled(n)
    BY <1>1, <1>9 DEF Classification, Converged, Diffs
  <1>10. Quiesce(d, inv) = "ready" =>
            Reconcile(d, inv, "migration") = "halt"
    <2>1. SUFFICES ASSUME Quiesce(d, inv) = "ready",
                          Reconcile(d, inv, "migration") # "halt"
                   PROVE  FALSE
      OBVIOUS
    <2>2. PICK n \in DOMAIN C : n \in DOMAIN Declared /\ C[n].state = "running"
      BY <1>1, <1>4, <2>1 DEF QuiesceStack
    <2>3. QED
      BY <1>5, <1>7, <2>1, <2>2
  <1>11. Reconcile(d, inv, "migration") = "ready" =>
            Unjudged(inv) \/ Quiesce(d, inv) = "nothing-to-quiesce"
    <2>1. SUFFICES ASSUME Reconcile(d, inv, "migration") = "ready", ~Unjudged(inv)
                   PROVE  Quiesce(d, inv) = "nothing-to-quiesce"
      OBVIOUS
    <2>2. \A n \in DOMAIN C : Judged(n, "migration") # "halt"
      BY <1>5, <2>1
    <2>3. ~QuiesceHalts(d, inv)
      BY <1>1, <1>7, <1>8, <2>1, <2>2 DEF QuiesceHalts, Unjudged
    <2>4. \A stack : QuiesceStack(d, inv, stack) = {}
      BY <1>1, <1>7, <2>2 DEF QuiesceStack
    <2>5. QED
      BY <1>3, <2>3, <2>4
  <1>12. Reconcile(d, inv, "audit") = "converged" =>
            SelectedRetired(inv) = {} /\ Quiesce(d, inv) = "ready"
    <2>1. SUFFICES ASSUME Reconcile(d, inv, "audit") = "converged"
                   PROVE  /\ SelectedRetired(inv) = {}
                          /\ Quiesce(d, inv) = "ready"
      OBVIOUS
    <2>2. \A n \in DOMAIN C : /\ n \in DOMAIN Declared /\ C[n].state = "running"
                              /\ Labelled(n)
      BY <1>6, <1>9, <2>1
    <2>3. ASSUME NEW n \in DOMAIN C
          PROVE  RetiredFamilies(n, C[n]) = {}
      <3>1. C[n].project \in {"docs-search", "infra"}
        BY <2>2, DeclaredAssumption
      <3>2. QED
        BY <3>1 DEF RetiredFamilies, Families
    <2>4. SelectedRetired(inv) = {}
      BY <2>3 DEF SelectedRetired
    <2>5. ~QuiesceHalts(d, inv)
      BY <1>1, <2>2 DEF QuiesceHalts
    <2>6. \E stack \in {"docs-search", "infra"} :
             QuiesceStack(d, inv, stack) # {}
      BY <1>1, <1>2, <2>2, DeclaredAssumption DEF QuiesceStack
    <2>7. QED
      BY <1>3, <2>4, <2>5, <2>6
  <1>13. RedisPlanned(inv, TRUE) => Quiesce(d, inv) = "halt"
    <2>1. SUFFICES ASSUME RedisPlanned(inv, TRUE)
                   PROVE  QuiesceHalts(d, inv)
      BY DEF Quiesce
    <2>2. "redis" \in DOMAIN C /\ C["redis"].project = "homelab"
      BY <2>1 DEF RedisPlanned, RedisSource
    <2>3. CASE "redis" \in DOMAIN Declared
      <3>1. ~Labelled("redis")
        BY <2>2, <2>3, DeclaredAssumption
      <3>2. QED
        BY <1>1, <2>2, <2>3, <3>1 DEF QuiesceHalts
    <2>4. CASE "redis" \notin DOMAIN Declared
      <3>1. RetiredFamilies("redis", C["redis"]) = {}
        BY <2>2 DEF RetiredFamilies, Families
      <3>2. QED
        BY <1>1, <2>2, <2>4, <3>1 DEF QuiesceHalts
    <2>5. QED
      BY <2>3, <2>4
  <1>14. QED
    BY <1>10, <1>11, <1>12, <1>13 DEF Agree

\* What the planners say of one inventory agrees, whatever services are declared
\* and whatever containers the host has, but that quiesce halts wherever there is the
\* Redis to back up; and a manifest removes every container that reconcile would retire.
THEOREM PlannersAlwaysAgree == Spec => []PlannersAgree
  <1>1. ASSUME NEW identities \in BOOLEAN, NEW m, Full(m)
        PROVE  RetiresAll(Desired(identities), m)
    <2>1. ASSUME NEW n \in DOMAIN m.inventory.containers,
                 Classification(Desired(identities), n, m.inventory.containers[n],
                                "migration") = "retire"
          PROVE  \E f \in Families : n \in FamilyContainers[f]
      BY <2>1 DEF Classification, RetiredFamilies
    <2>2. QED
      BY <1>1, <2>1 DEF Full, RetiresAll
  <1>2. PlansInv => PlannersAgree
    BY <1>1, InventoryAgreed DEF PlansInv, PlannersAgree
  <1>3. QED
    BY <1>2, PlansInvariant, PTL

\* A retirement that stopped half way can be planned again on every host, and the
\* executor would take the plan.
THEOREM AlwaysReplannable == Spec => []Replannable
  <1> DEFINE db == [inventory |-> Now, source |-> containers["postgres"].id]
             records == PathRecords(paths)
             e == Assemble(Now, records, db)
  <1>1. ASSUME IInv, OwnInv, PlansInv, DOMAIN jobs # {},
               F5Path \in paths, F5Images(Now) # {},
               Training \subseteq DOMAIN containers, F5 \notin DOMAIN containers,
               \A n \in (RetiredNames \union Training) \intersect DOMAIN containers :
                  containers[n].state = "exited"
        PROVE  /\ Assemblable(Now, records, db)
               /\ Accepted(Now, e)
               /\ Preflight(Manifest(e))
    <2>1. PICK inv, actions :
             /\ Single(inv) /\ images \subseteq inv.images
             /\ volumes \subseteq inv.volumes
             /\ \A f \in Families : \A v \in inv.volumes :
                   Retiring(v, f) =>
                      \E i \in DOMAIN actions :
                         actions[i].kind = "volume" /\ actions[i].target = v.name
             /\ \A i \in DOMAIN actions : Allowed(actions[i])
      <3>1. PICK j \in DOMAIN jobs : TRUE
        BY <1>1
      <3>2. Full(jobs[j].manifest) /\ Preflight(jobs[j].manifest)
            /\ images \subseteq jobs[j].manifest.inventory.images
        BY <1>1 DEF PlansInv
      <3>3. volumes \subseteq jobs[j].manifest.inventory.volumes
        BY <1>1 DEF OwnInv, JobsOwn, Owned, Whole
      <3>4. QED
        BY <3>2, <3>3 DEF Full, Preflight
    <2>2. Now.volumes = volumes /\ Now.images = images /\ Now.containers = containers
      BY DEF Now, Snapshot
    <2>3. /\ IsFiniteSet(DOMAIN containers) /\ IsFiniteSet(volumes)
          /\ IsFiniteSet(images) /\ IsFiniteSet(paths) /\ drift \in Nat
          /\ \A n \in DOMAIN containers : containers[n].id \in Nat
                                          /\ containers[n].id <= drift
      BY <1>1 DEF IInv, HostInv, AnyContainer
    <2>4. Assemblable(Now, records, db)
      <3>1. ASSUME NEW f \in Families, NEW l \in FamilyVolumes[f]
            PROVE  Cardinality(FamilyRuntimeVolumes(Now, f, l)) <= 1
        <4>1. FamilyRuntimeVolumes(Now, f, l) \subseteq volumes
              /\ FamilyRuntimeVolumes(Now, f, l)
                    \subseteq FamilyRuntimeVolumes(inv, f, l)
          BY <2>1, <2>2 DEF FamilyRuntimeVolumes
        <4>2. \A u, v \in FamilyRuntimeVolumes(Now, f, l) : u = v
          BY <2>1, <4>1 DEF Single
        <4>3. QED
          BY <2>3, <4>1, <4>2, FS_Subset, OneAtMost
      <3>2. Cardinality(F5Images(Now)) = 1
        <4>1. F5Images(Now) \subseteq images /\ F5Images(Now) \subseteq F5Images(inv)
          BY <2>1, <2>2 DEF F5Images
        <4>2. IsFiniteSet(F5Images(Now))
          BY <2>3, <4>1, FS_Subset
        <4>3. \E i : F5Images(Now) = {i}
          BY <1>1, <2>1, <4>1 DEF Single
        <4>4. QED
          BY <4>2, <4>3, FS_Singleton
      <3>3. F5Path \in records
        BY <1>1 DEF PathRecords
      <3>4. QED
        BY <1>1, <2>2, <3>1, <3>2, <3>3 DEF Assemblable
    <2>5. /\ e.inventory = Now
          /\ e.families = [f \in Families |-> FamilyResources(Now, records, f)]
          /\ e.dispositions = Dispositions \intersect DOMAIN containers
      BY <2>2 DEF Assemble
    <2>6. \A key, n : key[1] = "id" => n \notin ImageUsers(Now, key)
      BY DEF ImageUsers, ImageKeys
    <2>7. Accepted(Now, e)
      <3>1. ASSUME NEW n \in (RetiredNames \union Dispositions)
                             \intersect DOMAIN containers
            PROVE  Retirable(n, containers[n])
        BY <1>1 DEF Dispositions, Retirable
      <3>2. ASSUME NEW f \in Families
            PROVE  /\ e.families[f].containers
                         = FamilyContainers[f] \intersect DOMAIN containers
                   /\ FamilyContainers[f] \subseteq RetiredNames
        BY <2>2, <2>5 DEF FamilyResources, RetiredNames
      <3>3. \A f \in Families : FamilyUnshared(e, f)
        BY <2>5, <2>6 DEF FamilyUnshared
      <3>4. F5Unshared(e)
        BY <1>1, <2>2, <2>5, <2>6 DEF F5Unshared
      <3> HIDE DEF e
      <3>5. QED
        BY <2>2, <2>5, <3>1, <3>2, <3>3, <3>4 DEF Accepted
    <2>8. Preflight(Manifest(e))
      <3> DEFINE m == Manifest(e)
      <3>1. Lists(m.actions, ManifestDrafts(e))
        <4>1. Seen(Now)
          BY <2>2, <2>3 DEF Seen
        <4>2. IsFiniteSet(records)
          BY <2>3, FS_Subset DEF PathRecords
        <4>3. QED
          BY <4>1, <4>2, AssembledFinite, ManifestListed
      <3>2. ASSUME NEW names, NEW a \in ContainerDrafts(e.inventory, names)
            PROVE  Allowed(a)
        BY DEF ContainerDrafts, Allowed
      <3>3. ASSUME NEW f \in Families, NEW a \in FamilyDrafts(e, f)
            PROVE  Allowed(a)
        <4> DEFINE r == e.families[f]
                   names == {v.name : v \in r.volumes}
        <4>1. r = FamilyResources(Now, records, f)
          BY <2>5
        <4>2. CASE a \in Drafts("path", r.paths, 0)
          BY <4>1, <4>2
             DEF Drafts, Allowed, FamilyResources, FamilyPaths, Families
        <4>3. CASE a \in Drafts("volume", names, 0)
          <5>1. PICK v \in r.volumes : a.kind = "volume" /\ a.target = v.name
            BY <4>3 DEF Drafts
          <5>2. v \in inv.volumes /\ Retiring(v, f)
            BY <2>1, <2>2, <4>1, <5>1
               DEF FamilyResources, FamilyRuntimeVolumes, Retiring
          <5>3. PICK i \in DOMAIN actions :
                   actions[i].kind = "volume" /\ actions[i].target = v.name
            BY <2>1, <5>2
          <5>4. QED
            BY <2>1, <5>1, <5>3 DEF Allowed
        <4>4. CASE a \in Drafts("database", r.databases, e.source)
                   \union Drafts("secret", r.secrets, 0)
                   \union Drafts("image", r.images, 0)
          BY <4>1, <4>4 DEF Drafts, Allowed, FamilyResources
        <4>5. QED
          BY <3>2, <3>3, <4>2, <4>3, <4>4 DEF FamilyDrafts
      <3>4. ASSUME NEW a \in DispositionDrafts(e)
            PROVE  Allowed(a)
        BY <3>2, <3>4 DEF DispositionDrafts, Drafts, Allowed, F5Path
      <3>5. \A a \in ManifestDrafts(e) : Allowed(a)
        BY <3>3, <3>4 DEF ManifestDrafts, Families
      <3>6. ManifestDrafts(e) # {}
        BY DEF ManifestDrafts, DispositionDrafts, Drafts
      <3> HIDE DEF m, e
      <3>7. m.actions \in Seq(ManifestDrafts(e)) /\ m.actions # <<>>
        BY <3>1, <3>6 DEF Lists
      <3>8. \A i \in DOMAIN m.actions : Allowed(m.actions[i])
        BY <3>5, <3>7
      <3>9. QED
        BY <3>7, <3>8 DEF Preflight, m
    <2>9. QED
      BY <2>4, <2>7, <2>8
  <1>2. IInv /\ OwnInv /\ PlansInv => Replannable
    BY <1>1 DEF Replannable
  <1>3. QED
    BY <1>2, PlansInvariant, PTL
=============================================================================
