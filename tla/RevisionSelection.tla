-------------------------- MODULE RevisionSelection --------------------------
(***************************************************************************)
(* What the exact revision helper and servarr-pull promise, without locks, *)
(* snapshots or recoveries: a selection moves HEAD, .env and the pin in    *)
(* one step and says so, or moves nothing at all.  Only an activation that *)
(* was killed, or whose recovery failed, may leave a mixture, and then it  *)
(* is known to have been cut.                                              *)
(***************************************************************************)
EXTENDS Naturals

CONSTANTS N, Rollback, Forward, Secret

VARIABLES
    head,      \* the revision that is checked out
    env,       \* the .env.sops blob that .env was decrypted from
    pin,       \* what .deploy-commit names
    evidence,  \* the selection the last activation vouches for, or "none"
    cut        \* whether the last activation was cut short

vars == <<head, env, pin, evidence, cut>>

Target(s) == IF s = "forward" THEN Forward ELSE Rollback
Pinned(s) == [version |-> 1, commit |-> Target(s)]

\* An activation is called: nothing is vouched for.
Call == evidence' = "none" /\ cut' = FALSE /\ UNCHANGED <<head, env, pin>>

\* All of it at once; .env moves when the blobs of the two revisions differ.
Select == \E s \in {"forward", "rollback"} :
    /\ ~cut
    /\ pin.version \in {0, 1}
    /\ head' = Target(s) /\ pin' = Pinned(s) /\ evidence' = s
    /\ env' = IF Secret[head] = Secret[Target(s)] THEN env ELSE Secret[Target(s)]
    /\ UNCHANGED cut

Pin == \E c \in 1 .. N :
    /\ pin.version \in {0, 2}
    /\ pin' = [version |-> 2, commit |-> c]
    /\ UNCHANGED <<head, env, evidence, cut>>

\* servarr-pull: the pin comes first.
Move == \E c \in 1 .. N :
    /\ pin.version # 0 => c = pin.commit
    /\ head' = c
    /\ UNCHANGED <<env, pin, evidence, cut>>

Decrypt == env' = Secret[head] /\ UNCHANGED <<head, pin, evidence, cut>>

\* A mixture of what was there and of one selection.
Tear == \E s \in {"forward", "rollback"} :
    /\ ~cut /\ cut'
    /\ head' \in {head, Target(s)}
    /\ env' \in {env, Secret[Target(s)]}
    /\ pin' \in {pin, Pinned(s)}
    /\ UNCHANGED evidence

Init == evidence = "none" /\ cut = FALSE

Next == Call \/ Select \/ Pin \/ Move \/ Decrypt \/ Tear

Spec == Init /\ [][Next]_vars
=============================================================================
