---------------------------- MODULE ServarrRevision ----------------------------
(***************************************************************************)
(* How a host selects the revision of its servarr checkout: the exact      *)
(* revision helper (src/modules/server/_servarr-exact-revision.py) with    *)
(* its commands prefetch, activate, verify and pin-v2, and servarr-pull    *)
(* (src/modules/server/orchestration.nix), which moves the checkout to     *)
(* what was selected at every boot and restart.  They share a checkout,    *)
(* its plaintext .env, the pin .deploy-commit and one lock file, which     *)
(* prefetch and verify do not take.                                        *)
(*                                                                         *)
(* A commit of origin/main is its position in the history; its tree and    *)
(* its render digest are functions of it.  An .env stands for the          *)
(* .env.sops blob it was decrypted from.  Digests that bind a document to  *)
(* itself are left out; those that bind one document to another are kept.  *)
(***************************************************************************)
EXTENDS Naturals

CONSTANTS
    N,          \* origin/main has the commits 1..N; bounds how far it grows
    Rollback,   \* the commit ROLLBACK of the contract
    Forward,    \* the commit FORWARD of the contract
    Secret,     \* Secret[c]: the .env.sops blob of commit c, or NoSecret
    NoSecret,   \* in place of a blob or of an .env: there is none
    Mishaps,    \* the kinds of mishap that may happen
    MaxMishaps  \* bounds how many of them do

Commits == 1 .. N
None == 0
Selections == {"forward", "rollback"}

ASSUME ServarrAssumption ==
    /\ N \in Nat
    /\ Rollback \in Commits /\ Forward \in Commits
    /\ Rollback < Forward
    /\ DOMAIN Secret = Commits
    /\ Mishaps \subseteq {"command", "disk", "kill"}
    /\ MaxMishaps \in Nat

\* _target: the commit that a selection of the contract names.
Target(s) == IF s = "forward" THEN Forward ELSE Rollback

\* The three states of .deploy-commit.
NoPin == [version |-> 0, commit |-> None]
V1(s) == [version |-> 1, commit |-> Target(s)]
V2(c) == [version |-> 2, commit |-> c]
Pins  == [version : {0, 1, 2}, commit : Commits \cup {None}]
Envs  == {Secret[c] : c \in Commits} \cup {NoSecret}

\* An activation: what it was called with, and what it snapshotted.
Idle == [pc |-> "idle", selection |-> "forward", prefetch |-> None,
         granted |-> FALSE, head |-> None, env |-> NoSecret, pin |-> NoPin]
Unasked == [pc |-> "idle", selection |-> "forward", matches |-> TRUE]
NoApproval == [prefetch |-> None, selection |-> "forward"]

VARIABLES
    origin,      \* the newest commit of origin/main
    ref,         \* refs/remotes/origin/main of the checkout
    fetched,     \* what a running prefetch found there, or None
    prefetched,  \* fetched_origin_main of the prefetch document, or None
    approved,    \* the authorization document
    head,        \* HEAD of the checkout
    env,         \* machines/discovery/.env
    pin,         \* .deploy-commit
    lock,        \* who holds servarr-repository.lock
    act,         \* the running activation
    outcome,     \* how the last activation ended
    evidence,    \* the selection that it wrote is activated, or "none"
    ver,         \* the running verification
    verdict,     \* what the last verification found
    sync,        \* where servarr-pull is, and how its last run ended
    mishaps,     \* how many mishaps there have been
    met,         \* history: HEAD and pin both named ver's selection meanwhile
    stale        \* history: a cut or failed run may have left another .env

documents == <<origin, ref, fetched, prefetched, approved>>
host      == <<head, env, pin>>
activity  == <<act, outcome, evidence>>
watch     == <<ver, verdict, met>>
vars == <<documents, host, lock, activity, watch, sync, mishaps, stale>>

Init ==
    /\ origin \in Commits /\ ref = origin /\ head = origin
    /\ fetched = None /\ prefetched = None /\ approved = NoApproval
    /\ env = Secret[head] /\ pin = NoPin /\ lock = "free"
    /\ act = Idle /\ outcome = "none" /\ evidence = "none"
    /\ ver = Unasked
    /\ verdict = "none" /\ met = FALSE
    /\ sync = [pc |-> "idle", version |-> 0, outcome |-> "none"]
    /\ mishaps = 0 /\ stale = FALSE

\* HEAD and the pin both name the selection that is being verified.
Meet(s) == head = Target(s) /\ pin = V1(s)
Watch ==
    /\ UNCHANGED <<ver, verdict>>
    /\ met' = (ver.pc # "idle" /\ (met \/ Meet(ver.selection)'))

Mishap(kind) ==
    /\ kind \in Mishaps /\ mishaps < MaxMishaps
    /\ mishaps' = mishaps + 1

-----------------------------------------------------------------------------
(* Publication and prefetch; the operator's authorization. *)

\* A merge to origin/main.
Publish ==
    /\ origin < N
    /\ origin' = origin + 1
    /\ UNCHANGED <<ref, fetched, prefetched, approved, host, lock, activity,
                   watch, sync, mishaps, stale>>

\* The fetch of `just pin-servarr', under the lock.
FetchMain ==
    /\ lock = "free" /\ ref # origin
    /\ ref' = origin
    /\ UNCHANGED <<origin, fetched, prefetched, approved, host, lock,
                   activity, watch, sync, mishaps, stale>>

\* prefetch: fetch and rev-parse; unless FORWARD is published it ends here.
Prefetch ==
    /\ fetched = None
    /\ ref' = origin
    /\ fetched' = IF Forward <= origin THEN origin ELSE None
    /\ UNCHANGED <<origin, prefetched, approved, host, lock, activity, watch,
                   sync, mishaps, stale>>

\* prefetch: the document, after both renders.
WritePrefetch ==
    /\ fetched # None
    /\ prefetched' = fetched /\ fetched' = None
    /\ UNCHANGED <<origin, ref, approved, host, lock, activity, watch, sync,
                   mishaps, stale>>

\* The operator authorizes a selection of the prefetch document at hand.
Authorize == \E s \in Selections :
    /\ prefetched # None
    /\ approved' = [prefetch |-> prefetched, selection |-> s]
    /\ UNCHANGED <<origin, ref, fetched, prefetched, host, lock, activity,
                   watch, sync, mishaps, stale>>

-----------------------------------------------------------------------------
(* activate *)

\* _validate_authorization: it is for this selection of this document.
Granted(s) == approved = [prefetch |-> prefetched, selection |-> s]

\* main reads both documents before activate waits for the lock.
CallActivate == \E s \in Selections :
    /\ act.pc = "idle" /\ prefetched # None /\ approved.prefetch # None
    /\ act' = [Idle EXCEPT !.pc = "waiting", !.selection = s,
                           !.prefetch = prefetched,
                           !.granted = Granted(s)]
    /\ outcome' = "running" /\ evidence' = "none"
    /\ UNCHANGED <<documents, host, lock, watch, sync, mishaps, stale>>

\* _validate_prefetch_file: the file still is what was authorized.
FileUnchanged == prefetched = act.prefetch

\* _recheck_local_bindings: nothing was fetched since; the rest follows from it.
PublicationUnchanged == ref = act.prefetch

Authorized == act.granted /\ FileUnchanged /\ PublicationUnchanged

\* A pin that activate may replace: none, or one of this contract.
Replaceable == pin \in {NoPin} \cup {V1(s) : s \in Selections}

Changed == Secret[act.head] # Secret[Target(act.selection)]

Refuse ==
    /\ act.pc = "waiting" /\ lock = "free"
    /\ ~(Authorized /\ Replaceable)
    /\ act' = Idle /\ outcome' = "refused"
    /\ UNCHANGED <<documents, host, lock, evidence, watch, sync, mishaps,
                   stale>>

Begin ==
    /\ act.pc = "waiting" /\ lock = "free"
    /\ Authorized /\ Replaceable
    /\ lock' = "activate"
    /\ act' = [act EXCEPT !.pc = "snapshot", !.head = head, !.env = env,
                          !.pin = pin]
    /\ UNCHANGED <<documents, host, outcome, evidence, watch, sync, mishaps,
                   stale>>

\* Both snapshots, and whether the blobs of the two revisions differ.
Snapshot ==
    /\ act.pc = "snapshot"
    /\ act' = [act EXCEPT !.pc = IF Changed THEN "prepare" ELSE "reset"]
    /\ UNCHANGED <<documents, host, lock, outcome, evidence, watch, sync,
                   mishaps, stale>>

\* EnvironmentDecryptor.prepare
Prepare ==
    /\ act.pc = "prepare" /\ Secret[Target(act.selection)] # NoSecret
    /\ act' = [act EXCEPT !.pc = "reset"]
    /\ UNCHANGED <<documents, host, lock, outcome, evidence, watch, sync,
                   mishaps, stale>>

\* Mutant: HEAD is not compared with the target after the reset.
ResetUnchecked ==
    /\ act.pc = "reset"
    /\ head' \in {head, Target(act.selection)}
    /\ act' = [act EXCEPT !.pc = IF Changed THEN "install" ELSE "pin"]
    /\ UNCHANGED <<documents, env, pin, lock, outcome, evidence, sync,
                   mishaps, stale>>
    /\ Watch

Reset ==
    /\ act.pc = "reset"
    /\ head' = Target(act.selection)
    /\ act' = [act EXCEPT !.pc = IF Changed THEN "install" ELSE "pin"]
    /\ UNCHANGED <<documents, env, pin, lock, outcome, evidence, sync,
                   mishaps, stale>>
    /\ Watch

\* EnvironmentDecryptor.install
Install ==
    /\ act.pc = "install"
    /\ env' = Secret[Target(act.selection)]
    /\ act' = [act EXCEPT !.pc = "pin"]
    /\ UNCHANGED <<documents, head, pin, lock, outcome, evidence, watch, sync,
                   mishaps, stale>>

WritePin ==
    /\ act.pc = "pin"
    /\ pin' = V1(act.selection)
    /\ act' = [act EXCEPT !.pc = "output"]
    /\ UNCHANGED <<documents, head, env, lock, outcome, evidence, sync,
                   mishaps, stale>>
    /\ Watch

WriteEvidence ==
    /\ act.pc = "output"
    /\ evidence' = act.selection
    /\ act' = [act EXCEPT !.pc = "discard"]
    /\ UNCHANGED <<documents, host, lock, outcome, watch, sync, mishaps,
                   stale>>

EndActivate(o) == act' = Idle /\ lock' = "free" /\ outcome' = o

\* _discard_snapshot, twice
Discard ==
    /\ act.pc = "discard"
    /\ EndActivate("activated")
    /\ stale' = (stale /\ ~Changed)
    /\ UNCHANGED <<documents, host, evidence, watch, sync, mishaps>>

-----------------------------------------------------------------------------
(* What activate does when a command or a file operation fails. *)

\* A commit without .env.sops cannot be prepared for; sops or git fails.
PrepareFails ==
    /\ act.pc = "prepare"
    /\ IF Secret[Target(act.selection)] = NoSecret THEN UNCHANGED mishaps
                                                   ELSE Mishap("command")
    /\ EndActivate("raised")
    /\ UNCHANGED <<documents, host, evidence, watch, sync, stale>>

\* The disk fails a snapshot, or the write of the prepared file.
SnapshotFails ==
    /\ act.pc \in {"snapshot", "prepare"}
    /\ Mishap("disk")
    /\ EndActivate("raised")
    /\ UNCHANGED <<documents, host, evidence, watch, sync, stale>>

\* The except clause is entered, before or after the step took effect.
StepFails ==
    /\ act.pc \in {"reset", "install", "pin", "output"}
    /\ Mishap(IF act.pc = "reset" THEN "command" ELSE "disk")
    /\ head' \in IF act.pc = "reset" THEN {head, Target(act.selection)}
                                     ELSE {head}
    /\ pin' \in IF act.pc = "pin" THEN {pin, V1(act.selection)} ELSE {pin}
    /\ act' = [act EXCEPT !.pc = "undo-head"]
    /\ UNCHANGED <<documents, env, lock, outcome, evidence, sync, stale>>
    /\ Watch

\* The reset of the recovery; its failure is only noticed at the end.
UndoHead ==
    /\ act.pc = "undo-head"
    /\ \/ head' = act.head /\ UNCHANGED mishaps
       \/ head' = head /\ Mishap("command")
    /\ act' = [act EXCEPT !.pc = "undo-env"]
    /\ UNCHANGED <<documents, env, pin, lock, outcome, evidence, sync, stale>>
    /\ Watch

\* Mutant: the recovery leaves the new .env.
UndoEnvKept ==
    /\ act.pc = "undo-env"
    /\ act' = [act EXCEPT !.pc = "undo-pin"]
    /\ UNCHANGED <<documents, host, lock, outcome, evidence, watch, sync,
                   mishaps, stale>>

UndoEnv ==
    /\ act.pc = "undo-env"
    /\ env' = act.env
    /\ act' = [act EXCEPT !.pc = "undo-pin"]
    /\ UNCHANGED <<documents, head, pin, lock, outcome, evidence, watch, sync,
                   mishaps, stale>>

\* Mutant: the recovery leaves the new pin.
UndoPinKept ==
    /\ act.pc = "undo-pin"
    /\ EndActivate(IF head = act.head THEN "raised" ELSE "unrecovered")
    /\ stale' = (stale \/ head # act.head)
    /\ UNCHANGED <<documents, host, evidence, watch, sync, mishaps>>

\* The pin, and the check of the recovered HEAD.
UndoPin ==
    /\ act.pc = "undo-pin"
    /\ pin' = act.pin
    /\ EndActivate(IF head = act.head THEN "raised" ELSE "unrecovered")
    /\ stale' = (stale \/ head # act.head)
    /\ UNCHANGED <<documents, head, env, evidence, sync, mishaps>>
    /\ Watch

\* A restore raises: what follows it in the except clause is not done.
UndoFails ==
    /\ act.pc \in {"undo-env", "undo-pin"}
    /\ Mishap("disk")
    /\ EndActivate("unrecovered")
    /\ stale' = TRUE
    /\ UNCHANGED <<documents, host, evidence, watch, sync>>

\* activate is killed, inside a reset before or after it took effect.
KillActivate ==
    /\ act.pc \notin {"idle", "waiting"}
    /\ Mishap("kill")
    /\ head' \in CASE act.pc = "reset"     -> {head, Target(act.selection)}
                   [] act.pc = "undo-head" -> {head, act.head}
                   [] OTHER                -> {head}
    /\ EndActivate("killed")
    /\ stale' = (stale \/ act.pc \notin {"snapshot", "prepare"})
    /\ UNCHANGED <<documents, env, pin, evidence, sync>>
    /\ Watch
-----------------------------------------------------------------------------
(* pin-v2, verify and servarr-pull *)

\* Mutant: the checks are made before the lock is taken.
PinV2Unlocked == \E c \in Commits :
    /\ pin.version \in {0, 2} /\ c <= ref
    /\ pin' = V2(c)
    /\ UNCHANGED <<documents, head, env, lock, activity, sync, mishaps,
                   stale>>
    /\ Watch
\* Mutant: the commit need not be published yet.
PinV2Unpublished == \E c \in Commits :
    /\ lock = "free"
    /\ pin.version \in {0, 2}
    /\ pin' = V2(c)
    /\ UNCHANGED <<documents, head, env, lock, activity, sync, mishaps,
                   stale>>
    /\ Watch

\* Check and write under the lock; HEAD stays where it is.
PinV2 == \E c \in Commits :
    /\ lock = "free"
    /\ pin.version \in {0, 2} /\ c <= ref
    /\ pin' = V2(c)
    /\ UNCHANGED <<documents, head, env, lock, activity, sync, mishaps,
                   stale>>
    /\ Watch

CallVerify == \E s \in Selections :
    /\ ver.pc = "idle" /\ prefetched # None
    /\ ver' = [pc |-> "head", selection |-> s, matches |-> TRUE]
    /\ verdict' = "running" /\ met' = Meet(s)
    /\ UNCHANGED <<documents, host, lock, activity, sync, mishaps, stale>>

\* rev-parse HEAD, and then the tree of HEAD.
VerifyHead(from, to) ==
    /\ ver.pc = from
    /\ ver' = [ver EXCEPT !.pc = to,
                          !.matches = @ /\ head = Target(ver.selection)]
    /\ UNCHANGED <<documents, host, lock, activity, verdict, met, sync,
                   mishaps, stale>>

VerifyPin ==
    /\ ver.pc = "pin"
    /\ ver' = Unasked /\ met' = FALSE
    /\ verdict' = IF ver.matches /\ pin = V1(ver.selection) THEN "verified"
                                                           ELSE "failed"
    /\ UNCHANGED <<documents, host, lock, activity, sync, mishaps,
                   stale>>

\* A boot or a restart of the unit; it waits for the lock.
StartSync ==
    /\ sync.pc = "idle"
    /\ sync' = [pc |-> "lock", version |-> 0, outcome |-> "running"]
    /\ UNCHANGED <<documents, host, lock, activity, watch, mishaps, stale>>

\* Mutant: HEAD is moved before the lock is taken.
SyncPinnedUnlocked ==
    /\ sync.pc = "lock" /\ pin # NoPin
    /\ lock' = "pull"
    /\ head' = pin.commit
    /\ sync' = [sync EXCEPT !.pc = "decrypt", !.version = pin.version]
    /\ UNCHANGED <<documents, env, pin, activity, mishaps, stale>>
    /\ Watch

\* The exact revision branch.
SyncPinned ==
    /\ sync.pc = "lock" /\ lock = "free" /\ pin # NoPin
    /\ lock' = "pull"
    /\ head' = pin.commit
    /\ sync' = [sync EXCEPT !.pc = "decrypt", !.version = pin.version]
    /\ UNCHANGED <<documents, env, pin, activity, mishaps, stale>>
    /\ Watch

\* Without a pin: fetch and reset to origin/main.
SyncMain ==
    /\ sync.pc = "lock" /\ lock = "free" /\ pin = NoPin
    /\ lock' = "pull"
    /\ ref' = origin /\ head' = origin
    /\ sync' = [sync EXCEPT !.pc = "decrypt"]
    /\ UNCHANGED <<origin, fetched, prefetched, approved, env, pin, activity,
                   mishaps, stale>>
    /\ Watch

SyncFetchFails ==
    /\ sync.pc = "lock" /\ lock = "free" /\ pin = NoPin
    /\ Mishap("command")
    /\ sync' = [sync EXCEPT !.pc = "idle", !.outcome = "failed"]
    /\ UNCHANGED <<documents, host, lock, activity, watch, stale>>

SyncDecrypt ==
    /\ sync.pc = "decrypt" /\ Secret[head] # NoSecret
    /\ env' = Secret[head] /\ stale' = FALSE
    /\ sync' = [sync EXCEPT !.pc = "render"]
    /\ UNCHANGED <<documents, head, pin, lock, activity, watch, mishaps>>

\* There is no .env.sops, or sops fails: a list joined by `&&' does not end the
\* script, and the former .env stays.
SyncKeepsEnv ==
    /\ sync.pc = "decrypt"
    /\ IF Secret[head] = NoSecret THEN UNCHANGED mishaps ELSE Mishap("command")
    /\ stale' = TRUE
    /\ sync' = [sync EXCEPT !.pc = "render"]
    /\ UNCHANGED <<documents, host, lock, activity, watch>>

\* The render check of a v1 pin, which fails without any .env.
SyncRender ==
    /\ sync.pc = "render"
    /\ lock' = "free"
    /\ sync' = [pc |-> "idle", version |-> 0,
                outcome |-> IF sync.version = 1 /\ env = NoSecret
                           THEN "failed" ELSE "ok"]
    /\ UNCHANGED <<documents, host, activity, watch, mishaps, stale>>

KillSync ==
    /\ sync.pc \in {"decrypt", "render"}
    /\ Mishap("kill")
    /\ lock' = "free"
    /\ sync' = [pc |-> "idle", version |-> 0, outcome |-> "failed"]
    /\ stale' = (stale \/ sync.pc = "decrypt")
    /\ UNCHANGED <<documents, host, activity, watch>>

Activate ==
    \/ CallActivate \/ Refuse \/ Begin \/ Snapshot \/ Prepare \/ Reset \/ Install
    \/ WritePin \/ WriteEvidence \/ Discard \/ PrepareFails \/ SnapshotFails
    \/ StepFails \/ UndoHead \/ UndoEnv \/ UndoPin \/ UndoFails \/ KillActivate

Sync ==
    \/ StartSync \/ SyncPinned \/ SyncMain \/ SyncFetchFails \/ SyncDecrypt
    \/ SyncKeepsEnv \/ SyncRender \/ KillSync

Verify ==
    \/ CallVerify \/ VerifyHead("head", "tree") \/ VerifyHead("tree", "pin")
    \/ VerifyPin

Next ==
    \/ Publish \/ FetchMain \/ Prefetch \/ WritePrefetch \/ Authorize
    \/ Activate \/ PinV2 \/ Verify \/ Sync

Spec == Init /\ [][Next]_vars

-----------------------------------------------------------------------------
(* Properties. *)

ActOK ==
    /\ act \in [pc : {"idle", "waiting", "snapshot", "prepare", "reset",
                      "install", "pin", "output", "discard", "undo-head",
                      "undo-env", "undo-pin"},
                selection : Selections, prefetch : Commits \cup {None},
                granted : BOOLEAN, head : Commits \cup {None}, env : Envs, pin : Pins]
    /\ outcome \in {"none", "running", "refused", "activated", "raised",
                    "unrecovered", "killed"}
    /\ evidence \in Selections \cup {"none"}

\* Every variable keeps its type; the pin and HEAD name commits that were
\* fetched, so that servarr-pull can activate the pin without network access;
\* and whoever is past the lock of the checkout holds it.
TypeOK ==
    /\ origin \in Commits /\ ref \in Commits /\ ref <= origin
    /\ fetched \in Commits \cup {None} /\ prefetched \in Commits \cup {None}
    /\ approved \in [prefetch : Commits \cup {None}, selection : Selections]
    /\ head \in Commits /\ head <= ref /\ env \in Envs
    /\ pin \in Pins /\ pin.commit <= ref
    /\ pin.version = 0 <=> pin.commit = None
    /\ pin.version = 1 => pin \in {V1(s) : s \in Selections}
    /\ ActOK
    /\ ver \in [pc : {"idle", "head", "tree", "pin"}, selection : Selections,
                matches : BOOLEAN]
    /\ verdict \in {"none", "running", "verified", "failed"}
    /\ sync \in [pc : {"idle", "lock", "decrypt", "render"}, version : {0, 1, 2},
                 outcome : {"none", "running", "ok", "failed"}]
    /\ lock \in {"free", "activate", "pull"}
    /\ lock = "activate" <=> act.pc \notin {"idle", "waiting"}
    /\ lock = "pull" <=> sync.pc \in {"decrypt", "render"}
    /\ mishaps \in Nat /\ met \in BOOLEAN /\ stale \in BOOLEAN

\* A verification that succeeds was true: it reads HEAD, the tree and the pin
\* one after the other without the lock, while activations, their recoveries,
\* kills and boots move them; and yet at some moment meanwhile HEAD and the pin
\* both named the selection.
VerifiedWasTrue ==
    [][verdict' = "verified" /\ verdict = "running" => met]_vars

\* A pin of one kind is never replaced by one of the other ("must be retired
\* first"), however activate, its recovery, kills and pin-v2 follow each other.
PinKindSticks ==
    [][pin.version # 0 => pin'.version \in {0, pin.version}]_vars

\* Between operations .env is the one of the checked out revision, although
\* activate decrypts it only when the two blobs differ: unless a run was cut
\* short or not recovered, or servarr-pull kept a former .env, since it was
\* last refreshed.
EnvFollowsHead == lock = "free" /\ ~stale => env = Secret[head]

\* A run of servarr-pull that succeeds leaves the checkout at the pin: nothing
\* moves either of them between its reset and its end.
PullServesPin ==
    [][sync.pc = "render" /\ sync'.outcome = "ok" /\ pin # NoPin
         => head = pin.commit]_vars

-----------------------------------------------------------------------------
(* Refinement: while an activation is under way, its snapshots are the host. *)

Underway == act.pc \in {"reset", "install", "pin", "output", "undo-head",
                        "undo-env", "undo-pin"}

Promise == INSTANCE RevisionSelection WITH
               head <- IF Underway THEN act.head ELSE head,
               env  <- IF Underway THEN act.env ELSE env,
               pin  <- IF Underway THEN act.pin ELSE pin,
               cut  <- outcome \in {"killed", "unrecovered"}

\* An activation selects a revision as a whole or not at all, whatever command
\* or write fails at whatever step, and its evidence is only there when it did;
\* only a kill or a failing recovery leaves a mixture.
SelectsAtomically == Promise!Spec
=============================================================================
