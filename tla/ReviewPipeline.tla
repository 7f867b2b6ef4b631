--------------------------- MODULE ReviewPipeline ---------------------------
(***************************************************************************)
(* The PR review pipeline of the discovery host (src/scripts/pr-review):   *)
(* the collector bundles the head of an open pull request and queues it,   *)
(* workers lease a head and write a review packet, the publisher posts the *)
(* review and the gate check, and the operator may ask for a new review.   *)
(* They share the ledger, the bundle and packet directories and the        *)
(* publication markers, and run at the same time: only the collector and   *)
(* the publisher exclude a second run of themselves.                       *)
(*                                                                         *)
(* The model follows one pull request.  What is written about a head is    *)
(* its verdict and the head whose diff it is about.  The summary comment,  *)
(* tokens, drafts and ignored pull requests are left out, and so are       *)
(* ledger rows that no program wrote.                                      *)
(***************************************************************************)
EXTENDS ReviewLedger

CONSTANTS
    None,        \* in place of a head
    Workers,     \* the cron jobs that review
    Verdicts,    \* the verdicts a review may reach
    Diff,        \* Diff[h]: the content of the diff at head h
    FirstHead,   \* the head when the pull request is opened
    Pushes,      \* the pairs of heads between which a push may move the branch
    Reopens,     \* whether a closed pull request may be opened again
    MaxMoves,    \* bounds the pushes and closings
    MaxRequests, \* bounds the operator's requests
    MaxMishaps   \* bounds the cut runs, dead workers and invalid packets

ASSUME PipelineAssumption ==
    /\ None \notin Heads
    /\ FirstHead \in Heads
    /\ Verdicts \subseteq {"success", "failure"}
    /\ Pushes \subseteq Heads \X Heads
    /\ Reopens \in BOOLEAN
    /\ MaxMoves \in Nat /\ MaxRequests \in Nat /\ MaxMishaps \in Nat

Packets == [verdict : Verdicts \cup {"invalid"}, about : Heads]
NoPacket == [verdict |-> "none", about |-> None]

\* review-in/<bundle>: "ready" has .ready, "reuse" has .reuse, "spent" neither.
Boxes == [kind : {"ready", "reuse", "spent"}, about : Heads]
NoBox == [kind |-> "none", about |-> None]

VARIABLES
    open, tip,   \* GitHub: the pull request is open; its head
    reviews,     \* GitHub: the verdicts of the bot's reviews of each head
    newest,      \* GitHub: the verdict of the newest of them
    check,       \* GitHub: the conclusion of each head's gate check
    formed,      \* the head whose diff that conclusion was formed on
    box,         \* review-in
    packet,      \* review-out
    archive,     \* review-done: the packets
    kept,        \* review-done: the heads whose bundle is there
    marker,      \* the heads with a publication marker
    col,         \* the collector
    work,        \* the workers
    pub,         \* the publisher
    ask,         \* the operator's request tool
    moves, requests, mishaps

github == <<open, tip, reviews, newest, check, formed>>
boxes  == <<box, packet, archive, kept>>
files  == <<boxes, marker>>
bounds == <<moves, requests, mishaps>>
vars   == <<ledger, github, files, col, work, pub, ask, bounds>>

CollectorIdle ==
    [pc |-> "idle", listed |-> None, todo |-> {}, at |-> None, seen |-> "absent",
     diff |-> None, copy |-> NoPacket]
WorkerIdle == [pc |-> "idle", head |-> None, about |-> None]
PublisherIdle == [pc |-> "idle", head |-> None, packet |-> NoPacket]
RequestIdle == [pc |-> "idle", head |-> None]

Collectors ==
    [pc : {"idle", "prune", "drop", "remove", "reconcile", "packet", "marker",
           "requeue", "build", "diff", "copy", "mark", "place", "record",
           "supersede", "hand"},
     listed : Heads \cup {None}, todo : SUBSET Heads, at : Heads \cup {None},
     seen : States, diff : Heads \cup {None}, copy : Packets \cup {NoPacket}]
WorkerStates ==
    [pc : {"idle", "vet", "review"}, head : Heads \cup {None},
     about : Heads \cup {None}]
Publishers ==
    [pc : {"idle", "reject", "fail", "look", "discard", "stale", "unready",
           "toss", "review", "check", "marker", "finish", "spend", "file",
           "retire"},
     head : Heads \cup {None}, packet : Packets \cup {NoPacket}]
Requesters ==
    [pc : {"idle", "bundle", "packet", "marker", "requeue"},
     head : Heads \cup {None}]

Init ==
    /\ LedgerInit
    /\ open = TRUE /\ tip = FirstHead
    /\ reviews = [h \in Heads |-> {}]
    /\ newest = [h \in Heads |-> "none"]
    /\ check = [h \in Heads |-> "none"]
    /\ formed = [h \in Heads |-> None]
    /\ box = [h \in Heads |-> NoBox]
    /\ packet = [h \in Heads |-> NoPacket]
    /\ archive = [h \in Heads |-> NoPacket]
    /\ kept = {} /\ marker = {}
    /\ col = CollectorIdle
    /\ work = [w \in Workers |-> WorkerIdle]
    /\ pub = PublisherIdle
    /\ ask = RequestIdle
    /\ moves = 0 /\ requests = 0 /\ mishaps = 0

\* Whatever is interleaved, every row, file and run is in a state the programs
\* handle, and no head is leased more often than its attempts allow (claim).
ReviewTypeOK ==
    /\ LedgerTypeOK
    /\ open \in BOOLEAN /\ tip \in Heads
    /\ reviews \in [Heads -> SUBSET Verdicts]
    /\ newest \in [Heads -> Verdicts \cup {"none"}]
    /\ check \in [Heads -> Verdicts \cup {"none"}]
    /\ formed \in [Heads -> Heads \cup {None}]
    /\ box \in [Heads -> Boxes \cup {NoBox}]
    /\ packet \in [Heads -> Packets \cup {NoPacket}]
    /\ archive \in [Heads -> Packets \cup {NoPacket}]
    /\ kept \subseteq Heads /\ marker \subseteq Heads
    /\ col \in Collectors
    /\ work \in [Workers -> WorkerStates]
    /\ pub \in Publishers
    /\ ask \in Requesters
    /\ moves \in 0 .. MaxMoves /\ requests \in 0 .. MaxRequests
    /\ mishaps \in 0 .. MaxMishaps

Mishap == mishaps < MaxMishaps /\ mishaps' = mishaps + 1
          /\ UNCHANGED <<moves, requests>>

-----------------------------------------------------------------------------
(* GitHub and the clock. *)

Move == moves < MaxMoves /\ moves' = moves + 1 /\ UNCHANGED <<requests, mishaps>>
AuthorOnly == UNCHANGED <<ledger, reviews, newest, check, formed, files, col,
                          work, pub, ask>>

Push(h) ==
    /\ Move
    /\ open /\ <<tip, h>> \in Pushes
    /\ tip' = h
    /\ UNCHANGED open
    /\ AuthorOnly

Close ==
    /\ Move
    /\ open /\ open' = FALSE
    /\ UNCHANGED tip
    /\ AuthorOnly

Reopen ==
    /\ Reopens /\ ~open /\ open' = TRUE
    /\ UNCHANGED <<tip, bounds>>
    /\ AuthorOnly

\* A lease that runs out while the review or its packet is under way counts
\* as a mishap: half an hour is long for either.
InHand(h) ==
    /\ row[h].state = "leased"
    /\ \/ packet[h] # NoPacket \/ pub.head = h
       \/ \E w \in Workers : work[w].head = h

Tick(h) ==
    /\ TimePasses(h)
    /\ IF InHand(h) THEN Mishap ELSE UNCHANGED bounds
    /\ UNCHANGED <<github, files, col, work, pub, ask>>

-----------------------------------------------------------------------------
(* The collector: one run lists the open pull request, prunes bundles,     *)
(* settles a closed one and otherwise bundles the listed head.  A flock    *)
(* makes the runs exclusive.                                               *)

At(pc) == col.pc = pc
Goto(pc) == col' = [col EXCEPT !.pc = pc]
CollectorOnly == UNCHANGED <<github, archive, kept, marker, work, pub, ask,
                             bounds>>

\* Mutant: the list of all pull requests.
ListedAll == tip

\* gh pr list --state open; None when the pull request is not in the answer.
Listed == IF open THEN tip ELSE None

List ==
    /\ At("idle")
    /\ LET head == Listed
       IN  col' = [CollectorIdle EXCEPT
                     !.pc = "prune", !.listed = head,
                     !.todo = {h \in Heads : box[h] # NoBox /\ h # head}]
    /\ UNCHANGED <<ledger, box, packet>>
    /\ CollectorOnly

PruneRead(h) ==
    /\ At("prune") /\ h \in col.todo
    /\ col' = IF LiveLease(row[h]) THEN [col EXCEPT !.todo = @ \ {h}]
              ELSE [col EXCEPT !.todo = @ \ {h}, !.pc = "drop", !.at = h,
                               !.seen = row[h].state]
    /\ UNCHANGED <<ledger, box, packet>>
    /\ CollectorOnly

PruneFinish ==
    /\ At("drop")
    /\ packet' = IF col.seen = "reusing"
                 THEN [packet EXCEPT ![col.at] = NoPacket] ELSE packet
    /\ IF col.seen \in {"published", "stale"} THEN UNCHANGED ledger
       ELSE Finish(col.at, "stale")
    /\ Goto("remove")
    /\ UNCHANGED box
    /\ CollectorOnly

PruneRemove ==
    /\ At("remove")
    /\ box' = [box EXCEPT ![col.at] = NoBox]
    /\ col' = [col EXCEPT !.pc = "prune", !.at = None, !.seen = "absent"]
    /\ UNCHANGED <<ledger, packet>>
    /\ CollectorOnly

Pruned == At("prune") /\ col.todo = {}

\* reconcile_closed reads the rows of closed pull requests in one query.
Settled(h) == ~(row[h].state \in {"queued", "failed"} \/ Expired(row[h]))

ReadClosed ==
    /\ Pruned /\ col.listed = None
    /\ col' = [col EXCEPT !.pc = "reconcile",
                          !.todo = {h \in Heads : ~Settled(h)}]
    /\ UNCHANGED <<ledger, box, packet>>
    /\ CollectorOnly

ReconcileClosed(h) ==
    /\ At("reconcile") /\ h \in col.todo
    /\ Finish(h, "stale")
    /\ col' = [col EXCEPT !.todo = @ \ {h}]
    /\ UNCHANGED <<box, packet>>
    /\ CollectorOnly

ReconcileDone ==
    /\ At("reconcile") /\ col.todo = {}
    /\ col' = CollectorIdle
    /\ UNCHANGED <<ledger, box, packet>>
    /\ CollectorOnly

\* Mutant: a reusing row is left to the publisher.
DecisionTrustsReuse(r) ==
    CASE r.state = "reusing" -> "idle"
      [] r.state = "published" -> "marker"
      [] r.state = "stale" -> "requeue"
      [] r.state = "failed" -> IF r.due THEN "requeue" ELSE "idle"
      [] LiveLease(r) -> "idle"
      [] OTHER -> "build"

\* main's decision about the listed head, from its row.
Decision(r) ==
    CASE r.state = "reusing" -> "packet"
      [] r.state = "published" -> "marker"
      [] r.state = "stale" -> "requeue"
      [] r.state = "failed" -> IF r.due THEN "requeue" ELSE "idle"
      [] LiveLease(r) -> "idle"
      [] OTHER -> "build"

ReadRow ==
    /\ Pruned /\ col.listed # None
    /\ LET next == Decision(row[col.listed])
       IN  col' = IF next = "idle" THEN CollectorIdle
                  ELSE [col EXCEPT !.pc = next, !.seen = row[col.listed].state]
    /\ UNCHANGED <<ledger, box, packet>>
    /\ CollectorOnly

\* A reusing row waits for its packet, a published one for nothing more.
Waits ==
    /\ \/ At("packet") /\ packet[col.listed] # NoPacket
       \/ At("marker") /\ col.listed \in marker
    /\ col' = CollectorIdle
    /\ UNCHANGED <<ledger, box, packet>>
    /\ CollectorOnly

\* The copied packet is gone: its bundle is discarded too.
PacketLost ==
    /\ At("packet") /\ packet[col.listed] = NoPacket
    /\ box' = [box EXCEPT ![col.listed] = NoBox]
    /\ Goto("requeue")
    /\ UNCHANGED <<ledger, packet>>
    /\ CollectorOnly

MarkerLost ==
    /\ At("marker") /\ col.listed \notin marker
    /\ Goto("requeue")
    /\ UNCHANGED <<ledger, box, packet>>
    /\ CollectorOnly

\* main reads a revived row again before build_bundle does, here in one step: a
\* worker may have found no bundle and marked it stale in between.
StaleAgain ==
    row[col.listed].state = "stale" /\ col.seen \in {"reusing", "published"}

Revive ==
    /\ At("requeue") \/ (At("build") /\ StaleAgain)
    /\ Requeue(col.listed)
    /\ col' = [col EXCEPT !.pc = "build",
                          !.seen = IF At("build") THEN "stale" ELSE @]
    /\ UNCHANGED <<box, packet>>
    /\ CollectorOnly

\* build_bundle's early returns, and the live lease that main skips.
NotBuilt(h) ==
    \/ row[h].state \in {"published", "stale", "failed", "reusing"}
    \/ LiveLease(row[h]) /\ col.seen # "failed"
    \/ box[h] # NoBox /\ row[h].state # "absent"

BuildNothing ==
    /\ At("build") /\ NotBuilt(col.listed) /\ ~StaleAgain
    /\ col' = CollectorIdle
    /\ UNCHANGED <<ledger, box, packet>>
    /\ CollectorOnly

\* A bundle that a cut run left behind is queued as it is ...
AdoptBundle ==
    /\ At("build") /\ ~NotBuilt(col.listed)
    /\ box[col.listed].kind \in {"ready", "spent"}
    /\ Record(col.listed)
    /\ col' = CollectorIdle
    /\ UNCHANGED <<box, packet>>
    /\ CollectorOnly

\* ... but not a reuse that never reached the ledger.
StartBuild ==
    /\ At("build") /\ ~NotBuilt(col.listed)
    /\ box[col.listed].kind \in {"none", "reuse"}
    /\ box' = [box EXCEPT ![col.listed] = NoBox]
    /\ col' = [col EXCEPT !.pc = "diff", !.seen = row[col.listed].state]
    /\ UNCHANGED <<ledger, packet>>
    /\ CollectorOnly

\* A published head of an identical diff whose packet and bundle were kept.
Reusable(p, d) ==
    /\ row[p].state = "published"
    /\ p \in kept /\ archive[p] # NoPacket
    /\ Diff[archive[p].about] = Diff[d]

\* gh pr diff answers for the head of the moment.  An identical diff is reused
\* for a head that is new, unless the guidance at its base has changed.
FetchDiff ==
    /\ At("diff")
    /\ \/ \E p \in Heads :
            /\ col.seen = "absent" /\ Reusable(p, tip)
            /\ col' = [col EXCEPT !.pc = "copy", !.copy = archive[p]]
       \/ col' = [col EXCEPT !.pc = "place", !.seen = "absent", !.diff = tip]
    /\ UNCHANGED <<ledger, box, packet>>
    /\ CollectorOnly

\* Mutant: the packet is handed over with the bundle.
CopyAndHand ==
    /\ At("copy")
    /\ box' = [box EXCEPT ![col.listed] =
                 [kind |-> "reuse", about |-> col.copy.about]]
    /\ packet' = [packet EXCEPT ![col.listed] = col.copy]
    /\ Goto("mark")
    /\ UNCHANGED ledger
    /\ CollectorOnly

CopyBundle ==
    /\ At("copy")
    /\ box' = [box EXCEPT ![col.listed] =
                 [kind |-> "reuse", about |-> col.copy.about]]
    /\ Goto("mark")
    /\ UNCHANGED <<ledger, packet>>
    /\ CollectorOnly

MarkRow ==
    /\ At("mark")
    /\ MarkReusing(col.listed)
    /\ Goto("supersede")
    /\ UNCHANGED <<box, packet>>
    /\ CollectorOnly

PlaceBundle ==
    /\ At("place")
    /\ box' = [box EXCEPT ![col.listed] =
                 [kind |-> "ready", about |-> col.diff]]
    /\ Goto("record")
    /\ UNCHANGED <<ledger, packet>>
    /\ CollectorOnly

RecordRow ==
    /\ At("record")
    /\ Record(col.listed)
    /\ col' = [col EXCEPT !.pc = "supersede", !.diff = None]
    /\ UNCHANGED <<box, packet>>
    /\ CollectorOnly

SupersedeOlder ==
    /\ At("supersede")
    /\ Supersede(col.listed)
    /\ col' = IF col.copy = NoPacket THEN CollectorIdle
              ELSE [col EXCEPT !.pc = "hand"]
    /\ UNCHANGED <<box, packet>>
    /\ CollectorOnly

HandPacket ==
    /\ At("hand")
    /\ packet' = [packet EXCEPT ![col.listed] = col.copy]
    /\ col' = CollectorIdle
    /\ UNCHANGED <<ledger, box>>
    /\ CollectorOnly

Collect ==
    \/ List \/ PruneFinish \/ PruneRemove \/ ReadClosed \/ ReconcileDone
    \/ ReadRow \/ Waits \/ PacketLost \/ MarkerLost \/ Revive
    \/ BuildNothing \/ AdoptBundle \/ StartBuild \/ FetchDiff
    \/ CopyBundle \/ MarkRow \/ PlaceBundle \/ RecordRow \/ SupersedeOlder
    \/ HandPacket
    \/ \E h \in Heads : PruneRead(h) \/ ReconcileClosed(h)

\* The run is cut short, or a call to GitHub fails and ends its turn.  What
\* reuse_bundle has copied is removed again only in the second case.
CollectorStops ==
    /\ Mishap
    /\ ~At("idle")
    /\ col' = CollectorIdle
    /\ \/ UNCHANGED box
       \/ /\ col.copy # NoPacket
          /\ box' = [box EXCEPT ![col.listed] = NoBox]
    /\ UNCHANGED <<ledger, packet, github, archive, kept, marker, work, pub, ask>>

-----------------------------------------------------------------------------
(* The workers: claim.py, then the review. *)

WorkersOnly == UNCHANGED <<github, box, archive, kept, marker, col, pub, ask>>

Lease(w, h) ==
    /\ work[w].pc = "idle"
    /\ Claim(h)
    /\ work' = [work EXCEPT ![w] = [pc |-> "vet", head |-> h, about |-> None]]
    /\ UNCHANGED <<packet, bounds>>
    /\ WorkersOnly

LeaseNothing(w) ==
    /\ work[w].pc = "idle"
    /\ ClaimNothing
    /\ UNCHANGED <<work, packet, bounds>>
    /\ WorkersOnly

Obsolete(h) == HasNewerHead(h) \/ box[h].kind # "ready"

Skip(w) ==
    /\ work[w].pc = "vet" /\ Obsolete(work[w].head)
    /\ Finish(work[w].head, "stale")
    /\ work' = [work EXCEPT ![w] = WorkerIdle]
    /\ UNCHANGED <<packet, bounds>>
    /\ WorkersOnly

BeginReview(w) ==
    /\ work[w].pc = "vet" /\ ~Obsolete(work[w].head)
    /\ work' = [work EXCEPT ![w].pc = "review",
                            ![w].about = box[work[w].head].about]
    /\ UNCHANGED <<ledger, packet, bounds>>
    /\ WorkersOnly

Writes(w, v) ==
    /\ work[w].pc = "review"
    /\ packet' = [packet EXCEPT ![work[w].head] =
                    [verdict |-> v, about |-> work[w].about]]
    /\ work' = [work EXCEPT ![w] = WorkerIdle]
    /\ UNCHANGED ledger
    /\ WorkersOnly

WriteReview(w) == (\E v \in Verdicts : Writes(w, v)) /\ UNCHANGED bounds
WriteInvalid(w) == Mishap /\ Writes(w, "invalid")

WorkerDies(w) ==
    /\ Mishap
    /\ work[w].pc # "idle"
    /\ work' = [work EXCEPT ![w] = WorkerIdle]
    /\ UNCHANGED <<ledger, packet>>
    /\ WorkersOnly

Review(w) ==
    \/ \E h \in Heads : Lease(w, h)
    \/ LeaseNothing(w) \/ Skip(w) \/ BeginReview(w) \/ WriteReview(w)

-----------------------------------------------------------------------------
(* The publisher, one packet at a time.  systemd runs one instance of it.  *)

Pub(pc) == pub.pc = pc
PubTo(pc) == pub' = [pub EXCEPT !.pc = pc]
PublisherOnly == UNCHANGED <<open, tip, col, work, ask, bounds>>
Unposted == UNCHANGED <<reviews, newest, check, formed>>

\* The packet is read once; a head without a bundle has its packet rejected.
TakePacket(h) ==
    /\ Pub("idle") /\ packet[h] # NoPacket
    /\ pub' = [pc |-> IF packet[h].verdict = "invalid" \/ box[h] = NoBox
                      THEN "reject" ELSE "look",
               head |-> h, packet |-> packet[h]]
    /\ UNCHANGED <<ledger, files>>
    /\ Unposted /\ PublisherOnly

\* path.replace raises when the packet is gone, and the next packet is tried.
FileGone == packet[pub.head] = NoPacket

RejectPacket ==
    /\ Pub("reject")
    /\ packet' = [packet EXCEPT ![pub.head] = NoPacket]
    /\ IF FileGone THEN pub' = PublisherIdle ELSE PubTo("fail")
    /\ UNCHANGED <<ledger, box, archive, kept, marker>>
    /\ Unposted /\ PublisherOnly

FailRow ==
    /\ Pub("fail")
    /\ Finish(pub.head, "failed")
    /\ pub' = PublisherIdle
    /\ UNCHANGED files
    /\ Unposted /\ PublisherOnly

\* Mutant: any head of a pull request that is still open is published.
IsOpen(h) == open

IsCurrent(h) == open /\ tip = h

\* Mutant: the marker and the row come before what they attest.
LookThenAttest ==
    /\ Pub("look")
    /\ PubTo(IF IsCurrent(pub.head) THEN "marker" ELSE "discard")
    /\ UNCHANGED <<ledger, files>>
    /\ Unposted /\ PublisherOnly

LookAtHead ==
    /\ Pub("look")
    /\ PubTo(IF IsCurrent(pub.head) THEN "review" ELSE "discard")
    /\ UNCHANGED <<ledger, files>>
    /\ Unposted /\ PublisherOnly

DiscardPacket ==
    /\ Pub("discard")
    /\ packet' = [packet EXCEPT ![pub.head] = NoPacket]
    /\ IF FileGone THEN pub' = PublisherIdle ELSE PubTo("stale")
    /\ UNCHANGED <<ledger, box, archive, kept, marker>>
    /\ Unposted /\ PublisherOnly

StaleRow ==
    /\ Pub("stale")
    /\ Finish(pub.head, "stale")
    /\ PubTo("unready")
    /\ UNCHANGED files
    /\ Unposted /\ PublisherOnly

\* mark_bundle, which raises when the bundle is gone
Spent(b) == IF b.kind = "ready" THEN [b EXCEPT !.kind = "spent"] ELSE b
MarkBundle(next) ==
    /\ box' = [box EXCEPT ![pub.head] = Spent(@)]
    /\ IF box[pub.head] = NoBox THEN pub' = PublisherIdle ELSE PubTo(next)

SpendStale ==
    /\ Pub("unready")
    /\ MarkBundle("toss")
    /\ UNCHANGED <<ledger, packet, archive, kept, marker>>
    /\ Unposted /\ PublisherOnly

TossBundle ==
    /\ Pub("toss")
    /\ box' = [box EXCEPT ![pub.head] = NoBox]
    /\ pub' = PublisherIdle
    /\ UNCHANGED <<ledger, packet, archive, kept, marker>>
    /\ Unposted /\ PublisherOnly

\* publish_review posts nothing when the bot has reviewed this head with the
\* same verdict before.
PostReview ==
    /\ Pub("review")
    /\ LET h == pub.head
           v == pub.packet.verdict
       IN  /\ reviews' = [reviews EXCEPT ![h] = @ \cup {v}]
           /\ newest' = IF v \in reviews[h] THEN newest
                        ELSE [newest EXCEPT ![h] = v]
    /\ PubTo("check")
    /\ UNCHANGED <<ledger, files, check, formed>>
    /\ PublisherOnly

PostCheck ==
    /\ Pub("check")
    /\ check' = [check EXCEPT ![pub.head] = pub.packet.verdict]
    /\ formed' = [formed EXCEPT ![pub.head] = pub.packet.about]
    /\ PubTo("marker")
    /\ UNCHANGED <<ledger, files, reviews, newest>>
    /\ PublisherOnly

WriteMarker ==
    /\ Pub("marker")
    /\ marker' = marker \cup {pub.head}
    /\ PubTo("finish")
    /\ UNCHANGED <<ledger, boxes>>
    /\ Unposted /\ PublisherOnly

FinishPublished ==
    /\ Pub("finish")
    /\ Finish(pub.head, "published")
    /\ PubTo("spend")
    /\ UNCHANGED files
    /\ Unposted /\ PublisherOnly

SpendPublished ==
    /\ Pub("spend")
    /\ MarkBundle("file")
    /\ UNCHANGED <<ledger, packet, archive, kept, marker>>
    /\ Unposted /\ PublisherOnly

\* Whatever packet is there by now is moved.
FilePacket ==
    /\ Pub("file")
    /\ packet' = [packet EXCEPT ![pub.head] = NoPacket]
    /\ archive' = IF FileGone THEN archive
                  ELSE [archive EXCEPT ![pub.head] = packet[pub.head]]
    /\ IF FileGone THEN pub' = PublisherIdle ELSE PubTo("retire")
    /\ UNCHANGED <<ledger, box, kept, marker>>
    /\ Unposted /\ PublisherOnly

RetireBundle ==
    /\ Pub("retire")
    /\ kept' = IF box[pub.head] = NoBox THEN kept ELSE kept \cup {pub.head}
    /\ box' = [box EXCEPT ![pub.head] = NoBox]
    /\ pub' = PublisherIdle
    /\ UNCHANGED <<ledger, packet, archive, marker>>
    /\ Unposted /\ PublisherOnly

Publish ==
    \/ \E h \in Heads : TakePacket(h)
    \/ RejectPacket \/ FailRow \/ LookAtHead
    \/ DiscardPacket \/ StaleRow \/ SpendStale \/ TossBundle
    \/ PostReview \/ PostCheck \/ WriteMarker \/ FinishPublished
    \/ SpendPublished \/ FilePacket \/ RetireBundle

\* The run is cut short, or a call to GitHub fails: the packet stays.
PublisherStops ==
    /\ Mishap
    /\ ~Pub("idle")
    /\ pub' = PublisherIdle
    /\ UNCHANGED <<ledger, files, open, tip, col, work, ask>>
    /\ Unposted

-----------------------------------------------------------------------------
(* The operator's request: just pr-review-request passes the live head.    *)

AskTo(pc) == ask' = [ask EXCEPT !.pc = pc]
RequestOnly == UNCHANGED <<github, archive, kept, col, work, pub>>

Ask ==
    /\ ask.pc = "idle"
    /\ requests < MaxRequests /\ requests' = requests + 1
    /\ row[tip].state \in {"published", "stale", "failed"}
    /\ ask' = [pc |-> "bundle", head |-> tip]
    /\ UNCHANGED <<ledger, box, packet, marker, moves, mishaps>>
    /\ RequestOnly

AskDropsBundle ==
    /\ ask.pc = "bundle"
    /\ box' = [box EXCEPT ![ask.head] = NoBox]
    /\ AskTo("packet")
    /\ UNCHANGED <<ledger, packet, marker, bounds>>
    /\ RequestOnly

AskDropsPacket ==
    /\ ask.pc = "packet"
    /\ packet' = [packet EXCEPT ![ask.head] = NoPacket]
    /\ AskTo("marker")
    /\ UNCHANGED <<ledger, box, marker, bounds>>
    /\ RequestOnly

AskDropsMarker ==
    /\ ask.pc = "marker"
    /\ marker' = marker \ {ask.head}
    /\ AskTo("requeue")
    /\ UNCHANGED <<ledger, box, packet, bounds>>
    /\ RequestOnly

AskRequeues ==
    /\ ask.pc = "requeue"
    /\ Requeue(ask.head)
    /\ ask' = RequestIdle
    /\ UNCHANGED <<box, packet, marker, bounds>>
    /\ RequestOnly

Request == AskDropsBundle \/ AskDropsPacket \/ AskDropsMarker \/ AskRequeues

RequestStops ==
    /\ Mishap
    /\ ask.pc # "idle"
    /\ ask' = RequestIdle
    /\ UNCHANGED <<ledger, box, packet, marker>>
    /\ RequestOnly

-----------------------------------------------------------------------------

Next ==
    \/ \E h \in Heads : Push(h) \/ Tick(h)
    \/ Close \/ Reopen
    \/ Collect \/ CollectorStops
    \/ \E w \in Workers : Review(w) \/ WriteInvalid(w) \/ WorkerDies(w)
    \/ Publish \/ PublisherStops
    \/ Ask \/ Request \/ RequestStops

Spec == Init /\ [][Next]_vars

\* Timers start the collector, the publisher and the workers over and over,
\* time passes, and a request that was started goes on.
Fairness ==
    /\ WF_vars(Collect) /\ SF_vars(StartBuild)
    /\ WF_vars(Publish) /\ WF_vars(Request)
    /\ \A w \in Workers : WF_vars(Review(w))
    /\ \A h \in Heads : WF_vars(Tick(h))

FairSpec == Spec /\ Fairness

-----------------------------------------------------------------------------
(* Properties. *)

\* A published row and a publication marker each attest that a review and the
\* gate check of that head were posted (publish.py main posts first), whoever
\* clears the marker or requeues the row in between.
PublishedPosted ==
    \A h \in Heads : row[h].state = "published" \/ h \in marker =>
        check[h] # "none" /\ newest[h] # "none"

\* A packet in review-out belongs to a head of the ledger, so that publish.py's
\* identity mismatch only ever meets a packet no program wrote.
PacketHasRow ==
    \A h \in Heads : packet[h] # NoPacket => row[h].state # "absent"

\* The gate check of a head stands for a review of that head's own diff, or of
\* an identical one (build_bundle fetches it by number, publish.py looks at the
\* head again).
VerdictOfDiff ==
    \A h \in Heads : formed[h] # None => Diff[formed[h]] = Diff[h]

\* When a head's publication is attested, its newest review and its gate check
\* give the same verdict (publish.py's docstring).
GateAgrees == [][\A h \in marker' \ marker : newest[h] = check[h]]_vars

\* A head that stays the head of an open pull request ends up published, with
\* its marker (requeue: it must be reviewable again at the same commit).
HeadPublished ==
    \A h \in Heads : <>[](open /\ tip = h)
        => <>[](row[h].state = "published" /\ h \in marker)

\* A head that is superseded or whose pull request closed takes no worker's
\* turn for ever (supersede, prune_repo_bundles, reconcile_closed, claim.py).
ObsoleteSettles ==
    \A h \in Heads : <>[](~open \/ tip # h)
        => <>[](row[h].state \notin {"queued", "leased"})
=============================================================================
