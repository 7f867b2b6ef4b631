---------------------------- MODULE ServarrProofs ----------------------------
(***************************************************************************)
(* What holds of the exact revision helper and servarr-pull for every      *)
(* history of origin/main, all secrets and any number of mishaps.          *)
(***************************************************************************)
EXTENDS ServarrRevision, TLAPS

-----------------------------------------------------------------------------
(* The inductive invariant. *)

\* The lock is held by the activation.
Held == act.pc \notin {"idle", "waiting"}

\* A pin that was written, or that there is none: its commit was fetched.
PinOK(p) ==
    /\ p \in Pins /\ p.commit <= ref
    /\ p.version = 0 <=> p.commit = None
    /\ p.version = 1 => p \in {V1(s) : s \in Selections}

\* Documents, and that a prefetch was of a main that has FORWARD.
DocumentInv ==
    /\ origin \in Commits /\ ref \in Commits /\ ref <= origin
    /\ fetched \in Commits \cup {None} /\ prefetched \in Commits \cup {None}
    /\ approved \in [prefetch : Commits \cup {None}, selection : Selections]
    /\ fetched # None => Forward <= fetched
    /\ prefetched # None => Forward <= prefetched

\* Checkout, .env and pin.
HostInv ==
    /\ head \in Commits /\ head <= ref /\ env \in Envs
    /\ PinOK(pin)

\* The activation, and what its snapshots were taken of.
ActivationInv ==
    /\ ActOK
    /\ act.prefetch # None => Forward <= act.prefetch
    /\ act.pc # "idle" <=> outcome = "running"
    /\ Held => /\ Forward <= ref
               /\ act.head \in Commits /\ act.head <= ref
               /\ PinOK(act.pin) /\ act.pin.version # 2

\* Who is past the lock holds it; the rest of the type invariant.
LockInv ==
    /\ sync \in [pc : {"idle", "lock", "decrypt", "render"},
                 version : {0, 1, 2},
                 outcome : {"none", "running", "ok", "failed"}]
    /\ lock \in {"free", "activate", "pull"}
    /\ lock = "activate" <=> Held
    /\ lock = "pull" <=> sync.pc \in {"decrypt", "render"}
    /\ mishaps \in Nat /\ stale \in BOOLEAN

\* What .env becomes when the activation succeeds.
NewEnv == IF Changed THEN Secret[Target(act.selection)] ELSE act.env

\* How far the host has moved from the snapshots at each place of activate.
SnapshotInv ==
    /\ act.pc \in {"snapshot", "prepare", "reset"}
          => head = act.head /\ env = act.env /\ pin = act.pin
    /\ act.pc \in {"install", "pin", "output", "discard"}
          => head = Target(act.selection)
    /\ act.pc = "install" => env = act.env /\ Changed
    /\ act.pc \in {"install", "pin"} => pin = act.pin
    /\ act.pc \in {"pin", "output", "discard"} => env = NewEnv
    /\ act.pc \in {"output", "discard"} => pin = V1(act.selection)
    /\ act.pc \in {"undo-head", "undo-env", "undo-pin"} =>
          /\ head \in {act.head, Target(act.selection)}
          /\ env \in {act.env, Secret[Target(act.selection)]}
          /\ pin \in {act.pin, V1(act.selection)}
    /\ act.pc = "undo-head"
          => pin = act.pin \/ head = Target(act.selection)
    /\ act.pc = "undo-pin" => env = act.env

\* Which .env is fresh, as long as nothing was cut or kept.
FreshInv ==
    ~stale => /\ lock = "free" \/ sync.pc = "render" => env = Secret[head]
              /\ lock = "activate" => act.env = Secret[act.head]

\* Nobody moves the pin while servarr-pull is past the lock.
PullInv == sync.pc \in {"decrypt", "render"} /\ pin # NoPin => head = pin.commit

\* The pin is not the selection, and cannot become it without HEAD: an
\* activation that would restore such a pin has put HEAD back already.
Closed(s) ==
    /\ pin # V1(s)
    /\ Held /\ act.pin = V1(s) => /\ act.pc \in {"undo-env", "undo-pin"}
                                 /\ head = Target(s)

\* What the verification knows while the moment it looks for has not come.
VerifyInv ==
    /\ ver \in [pc : {"idle", "head", "tree", "pin"}, selection : Selections,
                matches : BOOLEAN]
    /\ verdict \in {"none", "running", "verified", "failed"}
    /\ met \in BOOLEAN
    /\ ver.pc # "idle" /\ Meet(ver.selection) => met
    /\ ver.pc \in {"tree", "pin"} /\ ver.matches /\ ~met
          => Closed(ver.selection)

IInv == /\ DocumentInv /\ HostInv /\ ActivationInv /\ LockInv /\ SnapshotInv
        /\ FreshInv /\ PullInv /\ VerifyInv
-----------------------------------------------------------------------------
(* Facts about the constants and the operators the actions share. *)

\* The commits of the contract, and the pins that name them.
LEMMA TargetFacts ==
    ASSUME NEW s \in Selections
    PROVE  /\ Target(s) \in Commits /\ Target(s) <= Forward
           /\ Secret[Target(s)] \in Envs
           /\ V1(s) \in Pins /\ V1(s) # NoPin
           /\ V1(s).version = 1 /\ V1(s).commit = Target(s)
  <1>1. Target(s) \in Commits /\ Target(s) <= Forward
    BY ServarrAssumption DEF Target, Selections, Commits
  <1>2. QED  BY <1>1 DEF V1, Pins, NoPin, Envs

\* The two selections are different commits.
LEMMA TargetsDiffer ==
    ASSUME NEW s \in Selections, NEW t \in Selections, s # t
    PROVE  Target(s) # Target(t) /\ V1(s) # V1(t)
  <1>1. Target(s) # Target(t)
    BY ServarrAssumption DEF Target, Selections, Commits
  <1>2. QED  BY <1>1 DEF V1

\* An activation under the lock selects a commit that was fetched.
LEMMA HeldFacts ==
    ASSUME IInv, Held
    PROVE  /\ act.selection \in Selections
           /\ Target(act.selection) \in Commits /\ Target(act.selection) <= ref
           /\ Secret[Target(act.selection)] \in Envs
           /\ PinOK(V1(act.selection))
  <1>1. act.selection \in Selections /\ Forward <= ref
    BY DEF IInv, ActivationInv, ActOK
  <1>2. Target(act.selection) <= ref
    BY <1>1, TargetFacts, ServarrAssumption
       DEF IInv, DocumentInv, Commits
  <1>3. Target(act.selection) # None
    BY <1>1, TargetFacts, ServarrAssumption DEF Commits, None
  <1>4. QED  BY <1>1, <1>2, <1>3, TargetFacts DEF PinOK

\* What no action disturbs whose variables it leaves alone.
LEMMA Frame ==
    ASSUME IInv
    PROVE  /\ UNCHANGED documents => DocumentInv'
           /\ UNCHANGED <<ref, host>> => HostInv'
           /\ UNCHANGED <<ref, activity>> => ActivationInv'
           /\ UNCHANGED <<lock, act, sync, mishaps, stale>> => LockInv'
           /\ UNCHANGED <<host, act>> => SnapshotInv'
           /\ UNCHANGED <<head, env, lock, act, sync, stale>> => FreshInv'
           /\ UNCHANGED <<head, pin, sync>> => PullInv'
           /\ UNCHANGED <<head, pin, act, watch>> => VerifyInv'
  <1> USE DEF IInv
  <1>1. UNCHANGED documents => DocumentInv'
    BY DEF DocumentInv, documents
  <1>2. UNCHANGED <<ref, host>> => HostInv'
    BY DEF HostInv, PinOK, host
  <1>3. UNCHANGED <<ref, activity>> => ActivationInv'
    BY DEF ActivationInv, ActOK, Held, PinOK, activity
  <1>4. UNCHANGED <<lock, act, sync, mishaps, stale>> => LockInv'
    BY DEF LockInv, Held
  <1>5. UNCHANGED <<host, act>> => SnapshotInv'
    BY DEF SnapshotInv, NewEnv, Changed, host
  <1>6. UNCHANGED <<head, env, lock, act, sync, stale>> => FreshInv'
    BY DEF FreshInv
  <1>7. UNCHANGED <<head, pin, sync>> => PullInv'
    BY DEF PullInv
  <1>8. UNCHANGED <<head, pin, act, watch>> => VerifyInv'
    BY DEF VerifyInv, Closed, Meet, Held, watch
  <1>9. QED
    BY <1>1, <1>2, <1>3, <1>4, <1>5, <1>6, <1>7, <1>8

\* What a verification knows is kept by a step that watches HEAD and the pin,
\* when the step does not open the way for the pin alone.
LEMMA WatchKeeps ==
    ASSUME VerifyInv, Watch \/ UNCHANGED <<head, pin, watch>>,
           \A s \in Selections : Closed(s) /\ ~Meet(s)' => Closed(s)'
    PROVE  VerifyInv'
  <1>1. ver' = ver /\ verdict' = verdict /\ ver.selection \in Selections
    BY DEF Watch, watch, VerifyInv
  <1>2. met' \in BOOLEAN
    BY DEF Watch, watch, VerifyInv
  <1>3. ver.pc # "idle" /\ Meet(ver.selection)' => met'
    BY DEF Watch, watch, VerifyInv, Meet
  <1>4. ASSUME ver.pc \in {"tree", "pin"}, ver.matches, ~met'
        PROVE  Closed(ver.selection)'
    <2>1. ~met
      BY <1>4 DEF Watch, watch
    <2>2. Closed(ver.selection)
      BY <1>4, <2>1 DEF VerifyInv
    <2>3. ~Meet(ver.selection)'
      BY <1>3, <1>4
    <2>4. QED  BY <1>1, <2>2, <2>3 DEF Closed, Meet
  <1>5. QED
    BY <1>1, <1>2, <1>3, <1>4 DEF VerifyInv, Meet, Closed
-----------------------------------------------------------------------------
(* Every step preserves the invariant. *)

\* An activation is called; it holds nothing yet.
LEMMA CallActivateStep ==
    ASSUME IInv, CallActivate
    PROVE  IInv'
  <1>1. ActivationInv'
    <2>1. act' \in [pc : {"waiting"}, selection : Selections,
                    prefetch : Commits \cup {None}, granted : BOOLEAN,
                    head : {None}, env : {NoSecret}, pin : {NoPin}]
      BY DEF IInv, CallActivate, DocumentInv, Idle, Granted
    <2>2. ActOK'
      BY <2>1 DEF CallActivate, ActOK, Envs, Pins, NoPin
    <2>3. QED
      BY <2>1, <2>2
         DEF IInv, CallActivate, DocumentInv, ActivationInv, Idle, Held
  <1>2. LockInv'
    BY DEF IInv, CallActivate, Idle, documents, host, watch, LockInv, Held
  <1>3. SnapshotInv'
    BY DEF IInv, CallActivate, Idle, documents, host, watch, SnapshotInv,
           NewEnv, Changed
  <1>4. FreshInv'
    BY DEF IInv, CallActivate, Idle, documents, host, watch, FreshInv,
           LockInv, Held
  <1>5. VerifyInv'
    <2>1. \A s \in Selections : Closed(s) /\ ~Meet(s)' => Closed(s)'
      BY DEF IInv, CallActivate, Closed, Held, Meet, Idle, host, watch,
             ActivationInv, ActOK
    <2>2. QED
      BY <2>1, WatchKeeps DEF IInv, CallActivate, host, watch
  <1>6. DocumentInv' /\ HostInv' /\ PullInv'
    BY Frame DEF CallActivate, documents, host, watch
  <1>7. QED
    BY <1>1, <1>2, <1>3, <1>4, <1>5, <1>6 DEF IInv

\* A refused activation never took a snapshot.
LEMMA RefuseStep ==
    ASSUME IInv, Refuse
    PROVE  IInv'
  <1>1. ActivationInv'
    BY DEF IInv, Refuse, Idle, documents, host, watch, ActivationInv, ActOK,
           Held, PinOK, Selections, Envs, Pins, NoPin
  <1>2. LockInv'
    BY DEF IInv, Refuse, Idle, documents, host, watch, LockInv, Held
  <1>3. SnapshotInv'
    BY DEF IInv, Refuse, Idle, documents, host, watch, SnapshotInv, NewEnv,
           Changed
  <1>4. FreshInv'
    BY DEF IInv, Refuse, Idle, documents, host, watch, FreshInv, LockInv, Held
  <1>5. VerifyInv'
    <2>1. \A s \in Selections : Closed(s) /\ ~Meet(s)' => Closed(s)'
      BY DEF IInv, Refuse, Closed, Held, Meet, Idle, host, watch,
             ActivationInv, ActOK
    <2>2. QED
      BY <2>1, WatchKeeps DEF IInv, Refuse, host, watch
  <1>6. DocumentInv' /\ HostInv' /\ PullInv'
    BY Frame DEF Refuse, documents, host, watch
  <1>7. QED
    BY <1>1, <1>2, <1>3, <1>4, <1>5, <1>6 DEF IInv

\* Under the lock what is snapshotted is the host itself.
LEMMA BeginStep ==
    ASSUME IInv, Begin
    PROVE  IInv'
  <1>1. ActivationInv'
    <2>1. ActOK'
      BY DEF IInv, Begin, ActivationInv, ActOK, HostInv, PinOK
    <2>2. Forward <= ref
      <3>1. ref # None
        BY ServarrAssumption DEF IInv, DocumentInv, Commits, None
      <3>2. QED
        BY <3>1 DEF IInv, ActivationInv, Begin, Authorized,
           PublicationUnchanged
    <2>3. pin.version # 2
      BY TargetFacts DEF Begin, Replaceable, NoPin
    <2>4. /\ act'.pc = "snapshot" /\ act'.prefetch = act.prefetch
          /\ act'.head = head /\ act'.pin = pin
      BY DEF IInv, ActivationInv, ActOK, Begin
    <2>5. QED
      BY <2>1, <2>2, <2>3, <2>4
         DEF IInv, ActivationInv, Begin, HostInv, PinOK, Held, documents
  <1>2. LockInv'
    BY DEF IInv, Begin, documents, host, watch, LockInv, Held
  <1>3. SnapshotInv'
    BY DEF IInv, Begin, documents, host, watch, SnapshotInv, NewEnv, Changed
  <1>4. FreshInv'
    BY DEF IInv, Begin, documents, host, watch, FreshInv, LockInv, Held
  <1>5. VerifyInv'
    <2>1. \A s \in Selections : Closed(s) /\ ~Meet(s)' => Closed(s)'
      BY DEF IInv, Begin, Closed, Held, Meet, host, watch, ActivationInv,
             ActOK
    <2>2. QED
      BY <2>1, WatchKeeps DEF IInv, Begin, host, watch
  <1>6. DocumentInv' /\ HostInv' /\ PullInv'
    BY Frame DEF Begin, documents, host, watch
  <1>7. QED
    BY <1>1, <1>2, <1>3, <1>4, <1>5, <1>6 DEF IInv

\* Nothing of the host moves before the reset.
LEMMA SnapshotStep ==
    ASSUME IInv, Snapshot
    PROVE  IInv'
  <1>1. ActivationInv'
    BY DEF IInv, Snapshot, documents, host, watch, ActivationInv, ActOK, Held,
           PinOK
  <1>2. LockInv'
    BY DEF IInv, Snapshot, documents, host, watch, LockInv, Held
  <1>3. SnapshotInv'
    BY DEF IInv, Snapshot, documents, host, watch, SnapshotInv, NewEnv,
           Changed
  <1>4. FreshInv'
    BY DEF IInv, Snapshot, documents, host, watch, FreshInv, LockInv, Held
  <1>5. VerifyInv'
    <2>1. \A s \in Selections : Closed(s) /\ ~Meet(s)' => Closed(s)'
      BY DEF IInv, Snapshot, Closed, Held, Meet, host, watch, ActivationInv,
             ActOK
    <2>2. QED
      BY <2>1, WatchKeeps DEF IInv, Snapshot, host, watch
  <1>6. DocumentInv' /\ HostInv' /\ PullInv'
    BY Frame DEF Snapshot, documents, host, watch
  <1>7. QED
    BY <1>1, <1>2, <1>3, <1>4, <1>5, <1>6 DEF IInv

\* Preparing writes a file beside .env.
LEMMA PrepareStep ==
    ASSUME IInv, Prepare
    PROVE  IInv'
  <1>1. ActivationInv'
    BY DEF IInv, Prepare, documents, host, watch, ActivationInv, ActOK, Held,
           PinOK
  <1>2. LockInv'
    BY DEF IInv, Prepare, documents, host, watch, LockInv, Held
  <1>3. SnapshotInv'
    BY DEF IInv, Prepare, documents, host, watch, SnapshotInv, NewEnv, Changed
  <1>4. FreshInv'
    BY DEF IInv, Prepare, documents, host, watch, FreshInv, LockInv, Held
  <1>5. VerifyInv'
    <2>1. \A s \in Selections : Closed(s) /\ ~Meet(s)' => Closed(s)'
      BY DEF IInv, Prepare, Closed, Held, Meet, host, watch, ActivationInv,
             ActOK
    <2>2. QED
      BY <2>1, WatchKeeps DEF IInv, Prepare, host, watch
  <1>6. DocumentInv' /\ HostInv' /\ PullInv'
    BY Frame DEF Prepare, documents, host, watch
  <1>7. QED
    BY <1>1, <1>2, <1>3, <1>4, <1>5, <1>6 DEF IInv

\* HEAD is the first to move.
LEMMA ResetStep ==
    ASSUME IInv, Reset
    PROVE  IInv'
  <1>1. HostInv'
    BY HeldFacts
       DEF IInv, Reset, documents, HostInv, PinOK, Held, ActivationInv
  <1>2. ActivationInv'
    BY DEF IInv, Reset, documents, ActivationInv, ActOK, Held, PinOK
  <1>3. LockInv'
    BY DEF IInv, Reset, documents, LockInv, Held
  <1>4. SnapshotInv'
    BY DEF IInv, Reset, documents, SnapshotInv, NewEnv, Changed
  <1>5. FreshInv'
    BY DEF IInv, Reset, documents, FreshInv, LockInv, Held
  <1>6. PullInv'
    BY DEF IInv, Reset, documents, PullInv, LockInv, Held
  <1>7. VerifyInv'
    <2>1. \A s \in Selections : Closed(s) /\ ~Meet(s)' => Closed(s)'
      BY DEF IInv, Reset, Closed, Held, Meet, ActivationInv, ActOK
    <2>2. QED
      BY <2>1, WatchKeeps DEF IInv, Reset
  <1>8. DocumentInv'
    BY Frame DEF Reset, documents
  <1>9. QED
    BY <1>1, <1>2, <1>3, <1>4, <1>5, <1>6, <1>7, <1>8 DEF IInv

\* .env follows HEAD where the two blobs differ.
LEMMA InstallStep ==
    ASSUME IInv, Install
    PROVE  IInv'
  <1>1. HostInv'
    BY HeldFacts
       DEF IInv, Install, documents, watch, HostInv, PinOK, Held,
           ActivationInv, ActOK
  <1>2. ActivationInv'
    BY DEF IInv, Install, documents, watch, ActivationInv, ActOK, Held, PinOK
  <1>3. LockInv'
    BY DEF IInv, Install, documents, watch, LockInv, Held
  <1>4. SnapshotInv'
    BY DEF IInv, Install, documents, watch, SnapshotInv, NewEnv, Changed
  <1>5. FreshInv'
    BY DEF IInv, Install, documents, watch, FreshInv, LockInv, Held
  <1>6. VerifyInv'
    <2>1. \A s \in Selections : Closed(s) /\ ~Meet(s)' => Closed(s)'
      BY DEF IInv, Install, Closed, Held, Meet, watch, ActivationInv, ActOK
    <2>2. QED
      BY <2>1, WatchKeeps DEF IInv, Install, host, watch
  <1>7. DocumentInv' /\ PullInv'
    BY Frame DEF Install, documents, watch
  <1>8. QED
    BY <1>1, <1>2, <1>3, <1>4, <1>5, <1>6, <1>7 DEF IInv

\* The pin comes last, when HEAD is the selection.
LEMMA WritePinStep ==
    ASSUME IInv, WritePin
    PROVE  IInv'
  <1>1. HostInv'
    BY HeldFacts
       DEF IInv, WritePin, documents, HostInv, PinOK, Held, ActivationInv
  <1>2. ActivationInv'
    BY DEF IInv, WritePin, documents, ActivationInv, ActOK, Held, PinOK
  <1>3. LockInv'
    BY DEF IInv, WritePin, documents, LockInv, Held
  <1>4. SnapshotInv'
    BY DEF IInv, WritePin, documents, SnapshotInv, NewEnv, Changed
  <1>5. FreshInv'
    BY DEF IInv, WritePin, documents, FreshInv, LockInv, Held
  <1>6. PullInv'
    BY DEF IInv, WritePin, documents, PullInv, LockInv, Held
  <1>7. VerifyInv'
    <2>1. \A s \in Selections : Closed(s) /\ ~Meet(s)' => Closed(s)'
      BY TargetsDiffer
         DEF IInv, WritePin, Closed, Held, Meet, ActivationInv, ActOK,
             SnapshotInv
    <2>2. QED
      BY <2>1, WatchKeeps DEF IInv, WritePin
  <1>8. DocumentInv'
    BY Frame DEF WritePin, documents
  <1>9. QED
    BY <1>1, <1>2, <1>3, <1>4, <1>5, <1>6, <1>7, <1>8 DEF IInv

\* The evidence is written while all three agree.
LEMMA WriteEvidenceStep ==
    ASSUME IInv, WriteEvidence
    PROVE  IInv'
  <1>1. ActivationInv'
    BY DEF IInv, WriteEvidence, documents, host, watch, ActivationInv, ActOK,
           Held, PinOK
  <1>2. LockInv'
    BY DEF IInv, WriteEvidence, documents, host, watch, LockInv, Held
  <1>3. SnapshotInv'
    BY DEF IInv, WriteEvidence, documents, host, watch, SnapshotInv, NewEnv,
           Changed
  <1>4. FreshInv'
    BY DEF IInv, WriteEvidence, documents, host, watch, FreshInv, LockInv,
           Held
  <1>5. VerifyInv'
    <2>1. \A s \in Selections : Closed(s) /\ ~Meet(s)' => Closed(s)'
      BY DEF IInv, WriteEvidence, Closed, Held, Meet, host, watch,
             ActivationInv, ActOK
    <2>2. QED
      BY <2>1, WatchKeeps DEF IInv, WriteEvidence, host, watch
  <1>6. DocumentInv' /\ HostInv' /\ PullInv'
    BY Frame DEF WriteEvidence, documents, host, watch
  <1>7. QED
    BY <1>1, <1>2, <1>3, <1>4, <1>5, <1>6 DEF IInv

\* The lock is released on the selection as a whole.
LEMMA DiscardStep ==
    ASSUME IInv, Discard
    PROVE  IInv'
  <1>1. ActivationInv'
    BY DEF IInv, Discard, EndActivate, Idle, documents, host, watch,
           ActivationInv, ActOK, Held, PinOK, Selections, Envs, Pins, NoPin
  <1>2. LockInv'
    BY DEF IInv, Discard, EndActivate, Idle, documents, host, watch, LockInv,
           Held
  <1>3. SnapshotInv'
    BY DEF IInv, Discard, EndActivate, Idle, documents, host, watch,
           SnapshotInv, NewEnv, Changed
  <1>4. FreshInv'
    BY DEF IInv, Discard, EndActivate, Idle, documents, host, watch, FreshInv,
           LockInv, Held, SnapshotInv, NewEnv, Changed
  <1>5. VerifyInv'
    <2>1. \A s \in Selections : Closed(s) /\ ~Meet(s)' => Closed(s)'
      BY DEF IInv, Discard, Closed, Held, Meet, EndActivate, Idle, host,
             watch, ActivationInv, ActOK
    <2>2. QED
      BY <2>1, WatchKeeps DEF IInv, Discard, host, watch
  <1>6. DocumentInv' /\ HostInv' /\ PullInv'
    BY Frame DEF Discard, documents, host, watch
  <1>7. QED
    BY <1>1, <1>2, <1>3, <1>4, <1>5, <1>6 DEF IInv

\* A failing preparation has moved nothing.
LEMMA PrepareFailsStep ==
    ASSUME IInv, PrepareFails
    PROVE  IInv'
  <1>1. ActivationInv'
    BY DEF IInv, PrepareFails, EndActivate, Idle, documents, host, watch,
           ActivationInv, ActOK, Held, PinOK, Selections, Envs, Pins, NoPin
  <1>2. LockInv'
    BY DEF IInv, PrepareFails, EndActivate, Mishap, Idle, documents, host,
           watch, LockInv, Held
  <1>3. SnapshotInv'
    BY DEF IInv, PrepareFails, EndActivate, Idle, documents, host, watch,
           SnapshotInv, NewEnv, Changed
  <1>4. FreshInv'
    BY DEF IInv, PrepareFails, EndActivate, Idle, documents, host, watch,
           FreshInv, LockInv, Held, SnapshotInv, NewEnv, Changed
  <1>5. VerifyInv'
    <2>1. \A s \in Selections : Closed(s) /\ ~Meet(s)' => Closed(s)'
      BY DEF IInv, PrepareFails, Closed, Held, Meet, EndActivate, Idle, host,
             watch, ActivationInv, ActOK
    <2>2. QED
      BY <2>1, WatchKeeps DEF IInv, PrepareFails, host, watch
  <1>6. DocumentInv' /\ HostInv' /\ PullInv'
    BY Frame DEF PrepareFails, documents, host, watch
  <1>7. QED
    BY <1>1, <1>2, <1>3, <1>4, <1>5, <1>6 DEF IInv

\* A failing snapshot has moved nothing.
LEMMA SnapshotFailsStep ==
    ASSUME IInv, SnapshotFails
    PROVE  IInv'
  <1>1. ActivationInv'
    BY DEF IInv, SnapshotFails, EndActivate, Idle, documents, host, watch,
           ActivationInv, ActOK, Held, PinOK, Selections, Envs, Pins, NoPin
  <1>2. LockInv'
    BY DEF IInv, SnapshotFails, EndActivate, Mishap, Idle, documents, host,
           watch, LockInv, Held
  <1>3. SnapshotInv'
    BY DEF IInv, SnapshotFails, EndActivate, Idle, documents, host, watch,
           SnapshotInv, NewEnv, Changed
  <1>4. FreshInv'
    BY DEF IInv, SnapshotFails, EndActivate, Idle, documents, host, watch,
           FreshInv, LockInv, Held, SnapshotInv, NewEnv, Changed
  <1>5. VerifyInv'
    <2>1. \A s \in Selections : Closed(s) /\ ~Meet(s)' => Closed(s)'
      BY DEF IInv, SnapshotFails, Closed, Held, Meet, EndActivate, Idle, host,
             watch, ActivationInv, ActOK
    <2>2. QED
      BY <2>1, WatchKeeps DEF IInv, SnapshotFails, host, watch
  <1>6. DocumentInv' /\ HostInv' /\ PullInv'
    BY Frame DEF SnapshotFails, documents, host, watch
  <1>7. QED
    BY <1>1, <1>2, <1>3, <1>4, <1>5, <1>6 DEF IInv

\* A failing step leaves each part old or new.
LEMMA StepFailsStep ==
    ASSUME IInv, StepFails
    PROVE  IInv'
  <1>1. HostInv'
    BY HeldFacts
       DEF IInv, StepFails, documents, HostInv, PinOK, Held, ActivationInv,
           ActOK
  <1>2. ActivationInv'
    BY DEF IInv, StepFails, documents, ActivationInv, ActOK, Held, PinOK
  <1>3. LockInv'
    BY DEF IInv, StepFails, Mishap, documents, LockInv, Held
  <1>4. SnapshotInv'
    BY DEF IInv, StepFails, documents, SnapshotInv, NewEnv, Changed
  <1>5. FreshInv'
    BY DEF IInv, StepFails, documents, FreshInv, LockInv, Held
  <1>6. PullInv'
    BY DEF IInv, StepFails, documents, PullInv, LockInv, Held
  <1>7. VerifyInv'
    <2>1. \A s \in Selections : Closed(s) /\ ~Meet(s)' => Closed(s)'
      BY TargetsDiffer
         DEF IInv, StepFails, Closed, Held, Meet, ActivationInv, ActOK,
             SnapshotInv
    <2>2. QED
      BY <2>1, WatchKeeps DEF IInv, StepFails
  <1>8. DocumentInv'
    BY Frame DEF StepFails, documents
  <1>9. QED
    BY <1>1, <1>2, <1>3, <1>4, <1>5, <1>6, <1>7, <1>8 DEF IInv

\* The recovery moves HEAD back, or fails to.
LEMMA UndoHeadStep ==
    ASSUME IInv, UndoHead
    PROVE  IInv'
  <1>1. HostInv'
    BY HeldFacts
       DEF IInv, UndoHead, documents, HostInv, PinOK, Held, ActivationInv,
           ActOK
  <1>2. ActivationInv'
    BY DEF IInv, UndoHead, documents, ActivationInv, ActOK, Held, PinOK
  <1>3. LockInv'
    BY DEF IInv, UndoHead, Mishap, documents, LockInv, Held
  <1>4. SnapshotInv'
    BY DEF IInv, UndoHead, documents, SnapshotInv, NewEnv, Changed
  <1>5. FreshInv'
    BY DEF IInv, UndoHead, documents, FreshInv, LockInv, Held
  <1>6. PullInv'
    BY DEF IInv, UndoHead, documents, PullInv, LockInv, Held
  <1>7. VerifyInv'
    <2>1. \A s \in Selections : Closed(s) /\ ~Meet(s)' => Closed(s)'
      BY DEF IInv, UndoHead, Closed, Held, Meet, ActivationInv, ActOK
    <2>2. QED
      BY <2>1, WatchKeeps DEF IInv, UndoHead
  <1>8. DocumentInv'
    BY Frame DEF UndoHead, documents
  <1>9. QED
    BY <1>1, <1>2, <1>3, <1>4, <1>5, <1>6, <1>7, <1>8 DEF IInv

\* The recovery restores .env.
LEMMA UndoEnvStep ==
    ASSUME IInv, UndoEnv
    PROVE  IInv'
  <1>1. HostInv'
    BY HeldFacts
       DEF IInv, UndoEnv, documents, watch, HostInv, PinOK, Held,
           ActivationInv, ActOK
  <1>2. ActivationInv'
    BY DEF IInv, UndoEnv, documents, watch, ActivationInv, ActOK, Held, PinOK
  <1>3. LockInv'
    BY DEF IInv, UndoEnv, documents, watch, LockInv, Held
  <1>4. SnapshotInv'
    BY DEF IInv, UndoEnv, documents, watch, SnapshotInv, NewEnv, Changed
  <1>5. FreshInv'
    BY DEF IInv, UndoEnv, documents, watch, FreshInv, LockInv, Held
  <1>6. VerifyInv'
    <2>1. \A s \in Selections : Closed(s) /\ ~Meet(s)' => Closed(s)'
      BY DEF IInv, UndoEnv, Closed, Held, Meet, watch, ActivationInv, ActOK
    <2>2. QED
      BY <2>1, WatchKeeps DEF IInv, UndoEnv, host, watch
  <1>7. DocumentInv' /\ PullInv'
    BY Frame DEF UndoEnv, documents, watch
  <1>8. QED
    BY <1>1, <1>2, <1>3, <1>4, <1>5, <1>6, <1>7 DEF IInv

\* The recovery restores the pin and releases the lock.
LEMMA UndoPinStep ==
    ASSUME IInv, UndoPin
    PROVE  IInv'
  <1>1. HostInv'
    BY HeldFacts
       DEF IInv, UndoPin, EndActivate, Idle, documents, HostInv, PinOK, Held,
           ActivationInv, ActOK
  <1>2. ActivationInv'
    BY DEF IInv, UndoPin, EndActivate, Idle, documents, ActivationInv, ActOK,
           Held, PinOK, Selections, Envs, Pins, NoPin
  <1>3. LockInv'
    BY DEF IInv, UndoPin, EndActivate, Idle, documents, LockInv, Held
  <1>4. SnapshotInv'
    BY DEF IInv, UndoPin, EndActivate, Idle, documents, SnapshotInv, NewEnv,
           Changed
  <1>5. FreshInv'
    BY DEF IInv, UndoPin, EndActivate, Idle, documents, FreshInv, LockInv,
           Held, SnapshotInv, NewEnv, Changed
  <1>6. PullInv'
    BY DEF IInv, UndoPin, EndActivate, Idle, documents, PullInv, LockInv, Held
  <1>7. VerifyInv'
    <2>1. \A s \in Selections : Closed(s) /\ ~Meet(s)' => Closed(s)'
      BY DEF IInv, UndoPin, Closed, Held, Meet, EndActivate, Idle,
             ActivationInv, ActOK
    <2>2. QED
      BY <2>1, WatchKeeps DEF IInv, UndoPin
  <1>8. DocumentInv'
    BY Frame DEF UndoPin, documents
  <1>9. QED
    BY <1>1, <1>2, <1>3, <1>4, <1>5, <1>6, <1>7, <1>8 DEF IInv

\* A failed restore leaves each part old or new.
LEMMA UndoFailsStep ==
    ASSUME IInv, UndoFails
    PROVE  IInv'
  <1>1. ActivationInv'
    BY DEF IInv, UndoFails, EndActivate, Idle, documents, host, watch,
           ActivationInv, ActOK, Held, PinOK, Selections, Envs, Pins, NoPin
  <1>2. LockInv'
    BY DEF IInv, UndoFails, EndActivate, Mishap, Idle, documents, host, watch,
           LockInv, Held
  <1>3. SnapshotInv'
    BY DEF IInv, UndoFails, EndActivate, Idle, documents, host, watch,
           SnapshotInv, NewEnv, Changed
  <1>4. FreshInv'
    BY DEF IInv, UndoFails, EndActivate, Idle, documents, host, watch,
           FreshInv, LockInv, Held
  <1>5. VerifyInv'
    <2>1. \A s \in Selections : Closed(s) /\ ~Meet(s)' => Closed(s)'
      BY DEF IInv, UndoFails, Closed, Held, Meet, EndActivate, Idle, host,
             watch, ActivationInv, ActOK
    <2>2. QED
      BY <2>1, WatchKeeps DEF IInv, UndoFails, host, watch
  <1>6. DocumentInv' /\ HostInv' /\ PullInv'
    BY Frame DEF UndoFails, documents, host, watch
  <1>7. QED
    BY <1>1, <1>2, <1>3, <1>4, <1>5, <1>6 DEF IInv

\* A kill leaves each part old or new and releases the lock.
LEMMA KillActivateStep ==
    ASSUME IInv, KillActivate
    PROVE  IInv'
  <1>1. HostInv'
    BY HeldFacts
       DEF IInv, KillActivate, EndActivate, Idle, documents, HostInv, PinOK,
           Held, ActivationInv, ActOK
  <1>2. ActivationInv'
    BY DEF IInv, KillActivate, EndActivate, Idle, documents, ActivationInv,
           ActOK, Held, PinOK, Selections, Envs, Pins, NoPin
  <1>3. LockInv'
    BY DEF IInv, KillActivate, EndActivate, Mishap, Idle, documents, LockInv,
           Held
  <1>4. SnapshotInv'
    BY DEF IInv, KillActivate, EndActivate, Idle, documents, SnapshotInv,
           NewEnv, Changed
  <1>5. FreshInv'
    BY DEF IInv, KillActivate, EndActivate, Idle, documents, FreshInv,
           LockInv, Held, SnapshotInv, NewEnv, Changed
  <1>6. PullInv'
    BY DEF IInv, KillActivate, EndActivate, Idle, documents, PullInv, LockInv,
           Held
  <1>7. VerifyInv'
    <2>1. \A s \in Selections : Closed(s) /\ ~Meet(s)' => Closed(s)'
      BY DEF IInv, KillActivate, Closed, Held, Meet, EndActivate, Idle,
             ActivationInv, ActOK
    <2>2. QED
      BY <2>1, WatchKeeps DEF IInv, KillActivate
  <1>8. DocumentInv'
    BY Frame DEF KillActivate, documents
  <1>9. QED
    BY <1>1, <1>2, <1>3, <1>4, <1>5, <1>6, <1>7, <1>8 DEF IInv

\* pin-v2 takes the lock, so that no snapshot is outstanding.
LEMMA PinV2Step ==
    ASSUME IInv, PinV2
    PROVE  IInv'
  <1>1. HostInv'
    BY ServarrAssumption
       DEF IInv, PinV2, documents, activity, HostInv, V2, PinOK, Pins,
           Commits, None
  <1>2. SnapshotInv'
    BY DEF IInv, PinV2, documents, activity, SnapshotInv, NewEnv, Changed,
           LockInv, Held
  <1>3. PullInv'
    BY DEF IInv, PinV2, documents, activity, PullInv, LockInv, Held
  <1>4. VerifyInv'
    <2>1. \A s \in Selections : Closed(s) /\ ~Meet(s)' => Closed(s)'
      BY DEF IInv, PinV2, Closed, Held, Meet, activity, ActivationInv, ActOK,
             LockInv, Held, V2, V1
    <2>2. QED
      BY <2>1, WatchKeeps DEF IInv, PinV2
  <1>5. DocumentInv' /\ ActivationInv' /\ LockInv' /\ FreshInv'
    BY Frame DEF PinV2, documents, activity
  <1>6. QED
    BY <1>1, <1>2, <1>3, <1>4, <1>5 DEF IInv

\* servarr-pull waits for the lock.
LEMMA StartSyncStep ==
    ASSUME IInv, StartSync
    PROVE  IInv'
  <1>1. LockInv'
    BY DEF IInv, StartSync, documents, host, activity, watch, LockInv, Held
  <1>2. FreshInv'
    BY DEF IInv, StartSync, documents, host, activity, watch, FreshInv,
           LockInv, Held
  <1>3. PullInv'
    BY DEF IInv, StartSync, documents, host, activity, watch, PullInv,
           LockInv, Held
  <1>4. DocumentInv' /\ HostInv' /\ ActivationInv' /\ SnapshotInv' /\ VerifyInv'
    BY Frame DEF StartSync, documents, host, activity, watch
  <1>5. QED
    BY <1>1, <1>2, <1>3, <1>4 DEF IInv

\* servarr-pull moves HEAD to the pin.
LEMMA SyncPinnedStep ==
    ASSUME IInv, SyncPinned
    PROVE  IInv'
  <1>1. HostInv'
    BY DEF IInv, SyncPinned, documents, activity, HostInv, PinOK, Pins, NoPin,
           Commits, None
  <1>2. LockInv'
    BY DEF IInv, SyncPinned, documents, activity, LockInv, Held, HostInv,
           PinOK, Pins
  <1>3. SnapshotInv'
    BY DEF IInv, SyncPinned, documents, activity, SnapshotInv, NewEnv,
           Changed, LockInv, Held
  <1>4. FreshInv'
    BY DEF IInv, SyncPinned, documents, activity, FreshInv, LockInv, Held
  <1>5. PullInv'
    BY DEF IInv, SyncPinned, documents, activity, PullInv, LockInv, Held
  <1>6. VerifyInv'
    <2>1. \A s \in Selections : Closed(s) /\ ~Meet(s)' => Closed(s)'
      BY DEF IInv, SyncPinned, Closed, Held, Meet, activity, ActivationInv,
             ActOK, LockInv, Held
    <2>2. QED
      BY <2>1, WatchKeeps DEF IInv, SyncPinned
  <1>7. DocumentInv' /\ ActivationInv'
    BY Frame DEF SyncPinned, documents, activity
  <1>8. QED
    BY <1>1, <1>2, <1>3, <1>4, <1>5, <1>6, <1>7 DEF IInv

\* Without a pin servarr-pull fetches and follows main.
LEMMA SyncMainStep ==
    ASSUME IInv, SyncMain
    PROVE  IInv'
  <1>1. DocumentInv'
    BY ServarrAssumption
       DEF IInv, SyncMain, activity, DocumentInv, Commits
  <1>2. HostInv'
    BY ServarrAssumption
       DEF IInv, SyncMain, activity, HostInv, PinOK, Pins, NoPin, Commits,
           None, DocumentInv
  <1>3. ActivationInv'
    BY DEF IInv, SyncMain, activity, ActivationInv, ActOK, Held, PinOK,
           LockInv
  <1>4. LockInv'
    BY DEF IInv, SyncMain, activity, LockInv, Held
  <1>5. SnapshotInv'
    BY DEF IInv, SyncMain, activity, SnapshotInv, NewEnv, Changed, LockInv,
           Held
  <1>6. FreshInv'
    BY DEF IInv, SyncMain, activity, FreshInv, LockInv, Held
  <1>7. PullInv'
    BY DEF IInv, SyncMain, activity, PullInv, LockInv, Held
  <1>8. VerifyInv'
    <2>1. \A s \in Selections : Closed(s) /\ ~Meet(s)' => Closed(s)'
      BY DEF IInv, SyncMain, Closed, Held, Meet, activity, ActivationInv,
             ActOK, LockInv, Held
    <2>2. QED
      BY <2>1, WatchKeeps DEF IInv, SyncMain
  <1>9. QED
    BY <1>1, <1>2, <1>3, <1>4, <1>5, <1>6, <1>7, <1>8 DEF IInv

\* A failing fetch leaves servarr-pull where it was.
LEMMA SyncFetchFailsStep ==
    ASSUME IInv, SyncFetchFails
    PROVE  IInv'
  <1>1. LockInv'
    <2>1. sync' = [pc |-> "idle", version |-> sync.version,
                   outcome |-> "failed"]
      BY DEF IInv, LockInv, SyncFetchFails
    <2>2. mishaps' \in Nat
      BY DEF IInv, LockInv, SyncFetchFails, Mishap
    <2>3. QED
      BY <2>1, <2>2 DEF IInv, LockInv, SyncFetchFails, Held, activity
  <1>2. FreshInv'
    BY DEF IInv, SyncFetchFails, documents, host, activity, watch, FreshInv,
           LockInv, Held
  <1>3. PullInv'
    BY DEF IInv, SyncFetchFails, documents, host, activity, watch, PullInv,
           LockInv, Held
  <1>4. DocumentInv' /\ HostInv' /\ ActivationInv' /\ SnapshotInv' /\ VerifyInv'
    BY Frame DEF SyncFetchFails, documents, host, activity, watch
  <1>5. QED
    BY <1>1, <1>2, <1>3, <1>4 DEF IInv

\* servarr-pull refreshes .env under the lock.
LEMMA SyncDecryptStep ==
    ASSUME IInv, SyncDecrypt
    PROVE  IInv'
  <1>1. HostInv'
    <2>1. env' \in Envs
      BY DEF IInv, HostInv, SyncDecrypt, Envs
    <2>2. QED
      BY <2>1 DEF IInv, HostInv, PinOK, SyncDecrypt, documents
  <1>2. LockInv'
    BY DEF IInv, SyncDecrypt, documents, activity, watch, LockInv, Held
  <1>3. SnapshotInv'
    BY DEF IInv, SyncDecrypt, documents, activity, watch, SnapshotInv, NewEnv,
           Changed, LockInv, Held
  <1>4. FreshInv'
    BY DEF IInv, SyncDecrypt, documents, activity, watch, FreshInv, LockInv,
           Held
  <1>5. PullInv'
    BY DEF IInv, SyncDecrypt, documents, activity, watch, PullInv, LockInv,
           Held
  <1>6. DocumentInv' /\ ActivationInv' /\ VerifyInv'
    BY Frame DEF SyncDecrypt, documents, activity, watch
  <1>7. QED
    BY <1>1, <1>2, <1>3, <1>4, <1>5, <1>6 DEF IInv

\* A kept .env is known to be old.
LEMMA SyncKeepsEnvStep ==
    ASSUME IInv, SyncKeepsEnv
    PROVE  IInv'
  <1>1. LockInv'
    BY DEF IInv, SyncKeepsEnv, Mishap, documents, host, activity, watch,
           LockInv, Held
  <1>2. FreshInv'
    BY DEF IInv, SyncKeepsEnv, documents, host, activity, watch, FreshInv,
           LockInv, Held
  <1>3. PullInv'
    BY DEF IInv, SyncKeepsEnv, documents, host, activity, watch, PullInv,
           LockInv, Held
  <1>4. DocumentInv' /\ HostInv' /\ ActivationInv' /\ SnapshotInv' /\ VerifyInv'
    BY Frame DEF SyncKeepsEnv, documents, host, activity, watch
  <1>5. QED
    BY <1>1, <1>2, <1>3, <1>4 DEF IInv

\* The render check moves nothing.
LEMMA SyncRenderStep ==
    ASSUME IInv, SyncRender
    PROVE  IInv'
  <1>1. LockInv'
    BY DEF IInv, SyncRender, documents, host, activity, watch, LockInv, Held
  <1>2. FreshInv'
    BY DEF IInv, SyncRender, documents, host, activity, watch, FreshInv,
           LockInv, Held
  <1>3. PullInv'
    BY DEF IInv, SyncRender, documents, host, activity, watch, PullInv,
           LockInv, Held
  <1>4. DocumentInv' /\ HostInv' /\ ActivationInv' /\ SnapshotInv' /\ VerifyInv'
    BY Frame DEF SyncRender, documents, host, activity, watch
  <1>5. QED
    BY <1>1, <1>2, <1>3, <1>4 DEF IInv

\* A kill of servarr-pull may leave an old .env.
LEMMA KillSyncStep ==
    ASSUME IInv, KillSync
    PROVE  IInv'
  <1>1. LockInv'
    BY DEF IInv, KillSync, Mishap, documents, host, activity, watch, LockInv,
           Held
  <1>2. FreshInv'
    BY DEF IInv, KillSync, documents, host, activity, watch, FreshInv,
           LockInv, Held
  <1>3. PullInv'
    BY DEF IInv, KillSync, documents, host, activity, watch, PullInv, LockInv,
           Held
  <1>4. DocumentInv' /\ HostInv' /\ ActivationInv' /\ SnapshotInv' /\ VerifyInv'
    BY Frame DEF KillSync, documents, host, activity, watch
  <1>5. QED
    BY <1>1, <1>2, <1>3, <1>4 DEF IInv

\* Publications, prefetches and authorizations leave the host alone.
LEMMA DocumentStep ==
    ASSUME IInv,
           Publish \/ FetchMain \/ Prefetch \/ WritePrefetch \/ Authorize
    PROVE  IInv'
  <1> USE DEF Publish, FetchMain, Prefetch, WritePrefetch, Authorize
  <1>1. /\ DocumentInv'
        /\ ref <= ref' /\ ref' \in Commits
    BY ServarrAssumption
       DEF IInv, DocumentInv, Commits, None, Selections
  <1>2. UNCHANGED <<host, lock, activity, watch, sync, mishaps, stale>>
    OBVIOUS
  <1>3. HostInv'
    BY <1>1, <1>2, ServarrAssumption
       DEF IInv, HostInv, DocumentInv, PinOK, Pins, Commits, None, host
  <1>4. ActivationInv'
    <2>1. ActOK'
      BY <1>2 DEF IInv, ActivationInv, ActOK, activity
    <2>2. Held =>
            /\ Forward <= ref' /\ act.head <= ref' /\ act.pin.commit <= ref'
      BY <1>1, ServarrAssumption
         DEF IInv, ActivationInv, DocumentInv, PinOK, Pins, Commits, None
    <2>3. QED
      BY <1>2, <2>1, <2>2 DEF IInv, ActivationInv, PinOK, Held, activity
  <1>5. /\ LockInv' /\ SnapshotInv' /\ FreshInv' /\ PullInv' /\ VerifyInv'
    BY <1>2, Frame DEF host, activity
  <1>6. QED
    BY <1>1, <1>3, <1>4, <1>5 DEF IInv

\* The reads of a verification.
LEMMA VerifyStep ==
    ASSUME IInv, Verify
    PROVE  IInv'
  <1>1. /\ UNCHANGED <<documents, host, lock, activity>>
        /\ UNCHANGED <<sync, mishaps, stale>>
    BY DEF Verify, CallVerify, VerifyHead, VerifyPin
  <1>2. /\ DocumentInv' /\ HostInv' /\ ActivationInv' /\ LockInv'
        /\ SnapshotInv' /\ FreshInv' /\ PullInv'
    BY <1>1, Frame DEF documents, host, activity
  <1>3. VerifyInv'
    <2>1. CASE CallVerify
      <3>1. PICK s \in Selections :
              /\ ver' = [pc |-> "head", selection |-> s, matches |-> TRUE]
              /\ verdict' = "running" /\ met' = Meet(s)
        BY <2>1 DEF CallVerify
      <3>2. met' \in BOOLEAN /\ (Meet(s)' => met')
        BY <1>1, <3>1 DEF Meet, host
      <3>3. QED
        BY <3>1, <3>2 DEF VerifyInv
    <2>2. CASE VerifyHead("head", "tree")
      <3>1. ver.matches /\ head = Target(ver.selection) /\ ~met
              => Closed(ver.selection)
        <4>1. SUFFICES ASSUME head = Target(ver.selection), ~met
                       PROVE  Closed(ver.selection)
          OBVIOUS
        <4>2. pin # V1(ver.selection)
          BY <2>2, <4>1 DEF IInv, VerifyInv, VerifyHead, Meet
        <4>3. ASSUME Held, act.pin = V1(ver.selection)
              PROVE  act.pc \in {"undo-env", "undo-pin"}
          <5>1. act.selection \in Selections /\ ver.selection \in Selections
            BY <4>3, HeldFacts DEF IInv, VerifyInv
          <5>2. pin = V1(act.selection) => head # Target(act.selection)
            BY <4>1, <4>2, <5>1, TargetsDiffer
          <5>3. QED
            BY <4>2, <4>3, <5>2
               DEF IInv, SnapshotInv, ActivationInv, ActOK, Held
        <4>4. QED
          BY <4>1, <4>2, <4>3 DEF Closed
      <3>2. QED
        BY <1>1, <2>2, <3>1
           DEF IInv, VerifyInv, VerifyHead, Meet, Closed, Held, host, activity
    <2>3. CASE VerifyHead("tree", "pin")
      BY <1>1, <2>3
         DEF IInv, VerifyInv, VerifyHead, Meet, Closed, Held, host, activity
    <2>4. CASE VerifyPin
      BY <2>4 DEF IInv, VerifyInv, VerifyPin, Unasked, Selections
    <2>5. QED
      BY <2>1, <2>2, <2>3, <2>4 DEF Verify
  <1>4. QED
    BY <1>2, <1>3 DEF IInv

-----------------------------------------------------------------------------
(* The theorems. *)

LEMMA InitInv == Init => IInv
  <1> SUFFICES ASSUME Init PROVE IInv
    OBVIOUS
  <1> USE ServarrAssumption DEF Init
  <1>1. DocumentInv
    BY DEF DocumentInv, NoApproval, Commits, None, Selections
  <1>2. HostInv
    BY DEF HostInv, PinOK, Pins, NoPin, Envs, Commits, None
  <1>3. ActivationInv
    <2>1. ActOK
      BY DEF ActOK, Idle, Selections, Envs, Pins, NoPin
    <2>2. QED
      BY <2>1 DEF ActivationInv, Idle, Held
  <1>4. LockInv
    BY DEF LockInv, Idle, Held
  <1>5. SnapshotInv /\ FreshInv /\ PullInv
    BY DEF SnapshotInv, FreshInv, PullInv, Idle
  <1>6. VerifyInv
    BY DEF VerifyInv, Unasked, Selections
  <1>7. QED
    BY <1>1, <1>2, <1>3, <1>4, <1>5, <1>6 DEF IInv

LEMMA NextInv == IInv /\ [Next]_vars => IInv'
  <1>1. ASSUME IInv, UNCHANGED vars
        PROVE  IInv'
    BY <1>1, Frame DEF IInv, vars, documents, host, activity, watch
  <1>2. ASSUME IInv, Activate
        PROVE  IInv'
    BY <1>2, CallActivateStep, RefuseStep, BeginStep, SnapshotStep,
       PrepareStep, ResetStep, InstallStep, WritePinStep, WriteEvidenceStep,
       DiscardStep, PrepareFailsStep, SnapshotFailsStep, StepFailsStep,
       UndoHeadStep, UndoEnvStep, UndoPinStep, UndoFailsStep, KillActivateStep
       DEF Activate
  <1>3. ASSUME IInv, Sync
        PROVE  IInv'
    BY <1>3, StartSyncStep, SyncPinnedStep, SyncMainStep, SyncFetchFailsStep,
       SyncDecryptStep, SyncKeepsEnvStep, SyncRenderStep, KillSyncStep
       DEF Sync
  <1>4. QED
    BY <1>1, <1>2, <1>3, DocumentStep, PinV2Step, VerifyStep DEF Next

\* The inductive invariant: how far the host has moved from the snapshots at
\* each place of activate, what .env is fresh, what verify has seen.
THEOREM Invariant == Spec => []IInv
  BY InitInv, NextInv, PTL DEF Spec

\* Every variable keeps its type, what is pinned was fetched, and the lock is
\* held by whoever is past it.
THEOREM TypeCorrect == Spec => []TypeOK
  <1>1. IInv => TypeOK
    BY DEF IInv, TypeOK, DocumentInv, HostInv, ActivationInv, LockInv,
       VerifyInv, PinOK, Held
  <1>2. QED
    BY <1>1, Invariant, PTL

\* .env is the one of the checked out revision whenever the lock is free and
\* nothing was cut or kept, for every choice of secrets.
THEOREM EnvAlwaysFollows == Spec => []EnvFollowsHead
  <1>1. IInv => EnvFollowsHead
    BY DEF IInv, FreshInv, EnvFollowsHead
  <1>2. QED
    BY <1>1, Invariant, PTL

\* A verification that succeeds was true at some moment while it ran.
THEOREM VerifiedAlwaysTrue == Spec => VerifiedWasTrue
  <1>1. ASSUME IInv, [Next]_vars, verdict' = "verified", verdict = "running"
        PROVE  met
    <2>1. VerifyPin
      BY <1>1 DEF Next, Publish, FetchMain, Prefetch, WritePrefetch,
         Authorize, Activate, CallActivate, Refuse, Begin, Snapshot, Prepare,
         Reset, Install, WritePin, WriteEvidence, Discard, PrepareFails,
         SnapshotFails, StepFails, UndoHead, UndoEnv, UndoPin, UndoFails,
         KillActivate, PinV2, Sync, StartSync, SyncPinned, SyncMain,
         SyncFetchFails, SyncDecrypt, SyncKeepsEnv, SyncRender, KillSync,
         Verify, CallVerify, VerifyHead, Watch, watch, vars
    <2>2. ver.matches /\ pin = V1(ver.selection) /\ ver.pc = "pin"
      BY <1>1, <2>1 DEF VerifyPin
    <2>3. QED
      BY <1>1, <2>2 DEF IInv, VerifyInv, Closed
  <1>2. IInv /\ [Next]_vars
          => [verdict' = "verified" /\ verdict = "running" => met]_vars
    BY <1>1
  <1>3. QED
    BY <1>2, Invariant, PTL DEF Spec, VerifiedWasTrue

\* A pin of one kind is never replaced by one of the other.
THEOREM PinKindAlwaysSticks == Spec => PinKindSticks
  <1>1. ASSUME IInv, [Next]_vars, pin.version # 0
        PROVE  pin'.version \in {0, pin.version}
    <2>1. CASE PinV2
      BY <1>1, <2>1 DEF PinV2, V2
    <2>2. CASE WritePin \/ UndoPin \/ StepFails
      <3>1. Held
        BY <2>2 DEF WritePin, UndoPin, StepFails, Held
      <3>2. /\ act.pin.version \in {0, 1}
            /\ V1(act.selection).version = 1
        BY <1>1, <3>1, HeldFacts, TargetFacts
           DEF IInv, ActivationInv, PinOK, Pins
      <3>3. pin \in {act.pin, V1(act.selection)}
        BY <1>1, <2>2
           DEF IInv, SnapshotInv, WritePin, UndoPin, StepFails
      <3>4. pin' \in {act.pin, V1(act.selection)}
        BY <2>2, <3>3 DEF WritePin, UndoPin, StepFails
      <3>5. QED
        BY <1>1, <3>2, <3>3, <3>4
    <2>3. CASE UNCHANGED pin
      BY <2>3
    <2>4. QED
      BY <1>1, <2>1, <2>2, <2>3
         DEF Next, Publish, FetchMain, Prefetch, WritePrefetch,
         Authorize, Activate, CallActivate, Refuse, Begin, Snapshot, Prepare,
         Reset, Install, WriteEvidence, Discard, PrepareFails,
         SnapshotFails, UndoHead, UndoEnv, UndoFails,
         KillActivate, Sync, StartSync, SyncPinned, SyncMain,
         SyncFetchFails, SyncDecrypt, SyncKeepsEnv, SyncRender, KillSync,
         Verify, CallVerify, VerifyHead, VerifyPin, host, vars
  <1>2. IInv /\ [Next]_vars
          => [pin.version # 0 => pin'.version \in {0, pin.version}]_vars
    BY <1>1
  <1>3. QED
    BY <1>2, Invariant, PTL DEF Spec, PinKindSticks

\* A run of servarr-pull that succeeds leaves the checkout at the pin.
THEOREM PullAlwaysServes == Spec => PullServesPin
  <1>1. IInv /\ [Next]_vars
          => [sync.pc = "render" /\ sync'.outcome = "ok" /\ pin # NoPin
                => head = pin.commit]_vars
    BY DEF IInv, PullInv
  <1>2. QED
    BY <1>1, Invariant, PTL DEF Spec, PullServesPin

-----------------------------------------------------------------------------
(* Refinement: an activation selects a revision as a whole or not at all. *)

\* The steps before the evidence, and a recovery that reaches its end, leave
\* what the abstract specification sees as it was.
LEMMA HiddenSteps ==
    ASSUME IInv,
           \/ Refuse \/ Begin \/ Snapshot \/ Prepare \/ Reset \/ Install
           \/ WritePin \/ Discard \/ PrepareFails \/ SnapshotFails \/ StepFails
           \/ UndoHead \/ UndoEnv \/ (UndoPin /\ head = act.head)
    PROVE  UNCHANGED Promise!vars
  <1> USE DEF IInv, ActivationInv, ActOK, SnapshotInv, Promise!vars, Underway
  <1>1. CASE Refuse
    BY <1>1 DEF Refuse, Idle, host
  <1>2. CASE Begin
    BY <1>2 DEF Begin, host
  <1>3. CASE Snapshot
    BY <1>3 DEF Snapshot, host
  <1>4. CASE Prepare
    BY <1>4 DEF Prepare, host
  <1>5. CASE Reset \/ Install \/ WritePin
    BY <1>5 DEF Reset, Install, WritePin
  <1>6. CASE Discard \/ PrepareFails \/ SnapshotFails
    BY <1>6 DEF Discard, PrepareFails, SnapshotFails, EndActivate, Idle, host
  <1>7. CASE StepFails \/ UndoHead \/ UndoEnv
    BY <1>7 DEF StepFails, UndoHead, UndoEnv
  <1>8. CASE UndoPin /\ head = act.head
    BY <1>8 DEF UndoPin, EndActivate, Idle
  <1>9. QED
    BY <1>1, <1>2, <1>3, <1>4, <1>5, <1>6, <1>7, <1>8

\* Writing the evidence is the moment of the selection.
LEMMA EvidenceSelects ==
    ASSUME IInv, WriteEvidence
    PROVE  Promise!Select
  <1>1. Held
    BY DEF WriteEvidence, Held
  <1>2. /\ act.selection \in Selections /\ outcome = "running"
        /\ head = Target(act.selection) /\ env = NewEnv
        /\ pin = V1(act.selection) /\ act.pin.version \in {0, 1}
    BY <1>1, HeldFacts
       DEF IInv, ActivationInv, PinOK, Pins, SnapshotInv, WriteEvidence, Held
  <1>3. /\ Underway /\ ~Underway' /\ UNCHANGED <<head, env, pin, outcome>>
        /\ evidence' = act.selection
    BY DEF IInv, ActivationInv, ActOK, WriteEvidence, Underway, host
  <1>4. QED
    BY <1>2, <1>3
       DEF Promise!Select, Promise!Target, Promise!Pinned, Target, V1,
       NewEnv, Changed, Selections

\* A kill and a recovery that fails leave a mixture, and say so.
LEMMA CutTears ==
    ASSUME IInv, KillActivate \/ UndoFails \/ (UndoPin /\ head # act.head)
    PROVE  Promise!Tear \/ UNCHANGED Promise!vars
  <1>1. /\ Held /\ act' = Idle /\ UNCHANGED <<env, evidence>>
        /\ outcome' \in {"killed", "unrecovered"}
    BY DEF KillActivate, UndoFails, UndoPin, EndActivate, Held, host
  <1>2. act.selection \in Selections /\ outcome = "running" /\ ~Underway'
    BY <1>1, HeldFacts DEF IInv, ActivationInv, Held, Underway, Idle
  <1>3. /\ ~Underway => /\ head' = head /\ pin' = pin
        /\ Underway =>
             /\ head' \in {act.head, Target(act.selection)}
             /\ env \in {act.env, Secret[Target(act.selection)]}
             /\ pin' \in {act.pin, V1(act.selection)}
    BY DEF IInv, SnapshotInv, NewEnv, KillActivate, UndoFails, UndoPin,
       Underway, ActivationInv, ActOK, host
  <1>4. QED
    BY <1>1, <1>2, <1>3
       DEF Promise!Tear, Promise!Target, Promise!Pinned, Target, V1, Selections

\* While the lock is free or servarr-pull holds it, the host is what it is.
LEMMA HostMoves ==
    ASSUME IInv, PinV2 \/ Sync
    PROVE  [Promise!Next]_Promise!vars
  <1>1. /\ UNCHANGED <<act, outcome, evidence>>
    BY DEF PinV2, Sync, StartSync, SyncPinned, SyncMain, SyncFetchFails,
       SyncDecrypt, SyncKeepsEnv, SyncRender, KillSync, activity
  <1>2. CASE PinV2
    <2>1. ~Underway /\ ~Underway'
      BY <1>1, <1>2 DEF IInv, LockInv, PinV2, Held, Underway
    <2>2. Promise!Pin
      BY <1>1, <1>2, <2>1 DEF Promise!Pin, PinV2, V2, Commits
    <2>3. QED
      BY <2>2 DEF Promise!Next
  <1>3. CASE SyncPinned \/ SyncMain
    <2>1. ~Underway /\ ~Underway'
      BY <1>1, <1>3 DEF IInv, LockInv, SyncPinned, SyncMain, Held, Underway
    <2>2. /\ head' \in 1 .. N
          /\ pin.version # 0 => head' = pin.commit
      BY <1>3 DEF IInv, HostInv, DocumentInv, PinOK, Pins, SyncPinned,
         SyncMain, NoPin, None, Commits
    <2>3. Promise!Move
      BY <1>1, <1>3, <2>1, <2>2 DEF Promise!Move, SyncPinned, SyncMain
    <2>4. QED
      BY <2>3 DEF Promise!Next
  <1>4. CASE SyncDecrypt
    <2>1. ~Underway /\ ~Underway'
      BY <1>1, <1>4 DEF IInv, LockInv, SyncDecrypt, Held, Underway
    <2>2. Promise!Decrypt
      BY <1>1, <1>4, <2>1 DEF Promise!Decrypt, SyncDecrypt
    <2>3. QED
      BY <2>2 DEF Promise!Next
  <1>5. CASE StartSync \/ SyncFetchFails \/ SyncKeepsEnv \/ SyncRender
             \/ KillSync
    BY <1>1, <1>5 DEF StartSync, SyncFetchFails, SyncKeepsEnv, SyncRender,
       KillSync, Promise!vars, Underway, host
  <1>6. QED
    BY <1>2, <1>3, <1>4, <1>5 DEF Sync

\* An activation selects a revision as a whole or not at all, whatever command
\* or write fails; only a kill or a failed recovery leaves a mixture.
THEOREM Implements == Spec => SelectsAtomically
  <1>1. Init => Promise!Init
    BY DEF Init, Promise!Init
  <1>2. ASSUME IInv, [Next]_vars
        PROVE  [Promise!Next]_Promise!vars
    <2>1. CASE Activate
      <3>1. CASE CallActivate
        <4>1. Promise!Call
          BY <3>1 DEF Promise!Call, CallActivate, Underway, Idle, host
        <4>2. QED
          BY <4>1 DEF Promise!Next
      <3>2. CASE WriteEvidence
        BY <1>2, <3>2, EvidenceSelects DEF Promise!Next
      <3>3. CASE KillActivate \/ UndoFails \/ (UndoPin /\ head # act.head)
        BY <1>2, <3>3, CutTears DEF Promise!Next
      <3>4. QED
        BY <1>2, <2>1, <3>1, <3>2, <3>3, HiddenSteps DEF Activate
    <2>2. CASE PinV2 \/ Sync
      BY <1>2, <2>2, HostMoves
    <2>3. CASE UNCHANGED vars \/ Publish \/ FetchMain \/ Prefetch
               \/ WritePrefetch \/ Authorize \/ Verify
      BY <2>3 DEF vars, Publish, FetchMain, Prefetch, WritePrefetch,
         Authorize, Verify, CallVerify, VerifyHead, VerifyPin, host, activity,
         Promise!vars, Underway
    <2>4. QED
      BY <1>2, <2>1, <2>2, <2>3 DEF Next
  <1>3. QED
    BY <1>1, <1>2, Invariant, PTL DEF Spec, SelectsAtomically, Promise!Spec
=============================================================================
