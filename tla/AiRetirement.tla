----------------------------- MODULE AiRetirement ------------------------------
(* _retire_ai_serving.py: removes the approved AI stack in stages, containers,   *)
(* images and the model path, each after two equal observations of the host, of  *)
(* which the second is modelled.  A call that halts, fails or is killed is called *)
(* again: it keeps nothing.                                                       *)
EXTENDS Naturals

CONSTANTS
    ApprovedAi    \* container name |-> its approved [id, image]

VARIABLES
    containers,   \* name |-> container, as podman has them
    images,       \* the images podman has
    paths,        \* the directories that exist
    ai            \* the observation a call acts on

aiVars == <<containers, images, paths, ai>>

AiPath == "/fast/ai-models"
ApprovedImages == {ApprovedAi[n].image : n \in DOMAIN ApprovedAi}
NotCalled == [stage |-> "not-called"]

Survivors == DOMAIN containers \ DOMAIN ApprovedAi

\* infra and docs-search survive, and no survivor uses what is to be removed.
SurvivorsSafe ==
    /\ {"infra", "docs-search"} \subseteq {containers[n].project : n \in Survivors}
    /\ \A n \in Survivors : containers[n].image \notin ApprovedImages
    /\ \A n \in Survivors :
          containers[n].mounts \intersect {"/fast", AiPath, "/fast/ai-models/f5-tts"} = {}

Selected == {n \in DOMAIN containers :
                \/ n \in DOMAIN ApprovedAi
                \/ containers[n].project = "ai-serving"}

\* The selected containers are exactly the approved ones.
Exact == /\ Selected = DOMAIN ApprovedAi
         /\ \A n \in Selected :
               /\ containers[n].id = ApprovedAi[n].id
               /\ containers[n].image = ApprovedAi[n].image
               /\ containers[n].project = "ai-serving"

Present == ApprovedImages \intersect images

\* Mutant: the path goes before the images.
StagePathFirst == CASE Selected # {} -> "remove-containers"
                    [] Selected = {} /\ AiPath \in paths -> "remove-path"
                    [] Selected = {} /\ AiPath \notin paths /\ Present # {} -> "remove-images"
                    [] OTHER -> "already-retired"

Stage == CASE Selected # {} -> "remove-containers"
           [] Selected = {} /\ Present # {} -> "remove-images"
           [] Selected = {} /\ Present = {} /\ AiPath \in paths -> "remove-path"
           [] OTHER -> "already-retired"

\* plan raises nothing.
Plannable == /\ SurvivorsSafe
             /\ Selected # {} => Exact /\ Present = ApprovedImages /\ AiPath \in paths

Observe ==
    /\ ai = NotCalled /\ Plannable /\ Stage # "already-retired"
    /\ ai' = [stage |-> Stage, images |-> Present]
    /\ UNCHANGED <<containers, images, paths>>

Without(names) == [n \in DOMAIN containers \ names |-> containers[n]]

ApprovedPresent == {n \in DOMAIN containers \intersect DOMAIN ApprovedAi :
                       containers[n].id = ApprovedAi[n].id}

\* One podman command removes them all; one that fails, or is killed, some of them.
RemoveContainers ==
    /\ ai.stage = "remove-containers"
    /\ \E gone \in SUBSET ApprovedPresent : containers' = Without(gone)
    /\ ai' = NotCalled
    /\ UNCHANGED <<images, paths>>

\* podman image rm --force takes the containers that use the image along.
RemoveImages ==
    /\ ai.stage = "remove-images"
    /\ \E gone \in SUBSET ai.images :
          /\ images' = images \ gone
          /\ containers' = Without({n \in DOMAIN containers : containers[n].image \in gone})
    /\ ai' = NotCalled
    /\ UNCHANGED paths

\* The F5 model lies below the path.
RemovePath ==
    /\ ai.stage = "remove-path"
    /\ paths' = paths \ {AiPath, "/fast/ai-models/f5-tts"}
    /\ ai' = NotCalled
    /\ UNCHANGED <<containers, images>>

AiNext == Observe \/ RemoveContainers \/ RemoveImages \/ RemovePath

\* Whatever fails, is killed and is called again, the images outlive the approved
\* containers and the model path outlives the images: a container is never left
\* without what it runs on.
AiStages ==
    /\ ApprovedPresent # {} => ApprovedImages \subseteq images
    /\ ApprovedImages \intersect images # {} => AiPath \in paths
================================================================================
