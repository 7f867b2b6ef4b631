---------------------------- MODULE ReviewProofs ----------------------------
(***************************************************************************)
(* What holds of the PR review pipeline for every number of heads, workers *)
(* and attempts, and however many pushes, requests and mishaps there are.  *)
(***************************************************************************)
EXTENDS ReviewPipeline, TLAPS

-----------------------------------------------------------------------------
(* The inductive invariants. *)

\* The type of each part of the state, and what each program has in hand at the
\* places where it relies on it.
GithubOK ==
    /\ open \in BOOLEAN /\ tip \in Heads
    /\ reviews \in [Heads -> SUBSET Verdicts]
    /\ newest \in [Heads -> Verdicts \cup {"none"}]
    /\ check \in [Heads -> Verdicts \cup {"none"}]
    /\ formed \in [Heads -> Heads \cup {None}]

FilesOK ==
    /\ box \in [Heads -> Boxes \cup {NoBox}]
    /\ packet \in [Heads -> Packets \cup {NoPacket}]
    /\ archive \in [Heads -> Packets \cup {NoPacket}]
    /\ kept \subseteq Heads /\ marker \subseteq Heads

BoundsOK ==
    /\ moves \in 0 .. MaxMoves /\ requests \in 0 .. MaxRequests
    /\ mishaps \in 0 .. MaxMishaps

CollectorOK ==
    /\ col \in Collectors
    /\ col.pc \in {"packet", "marker", "requeue", "build", "diff", "copy",
                   "mark", "place", "record", "supersede", "hand"}
          => col.listed \in Heads
    /\ col.pc \in {"drop", "remove"} => col.at \in Heads
    /\ col.pc = "place" => col.diff \in Heads
    /\ col.pc \in {"copy", "mark", "hand"} => col.copy \in Packets

WorkerOK(s) ==
    /\ s \in WorkerStates
    /\ s.pc # "idle" => s.head \in Heads
    /\ s.pc = "review" => s.about \in Heads

WorkersOK ==
    /\ work \in [Workers -> WorkerStates]
    /\ \A w \in Workers : WorkerOK(work[w])

PublisherOK ==
    /\ pub \in Publishers
    /\ pub.pc # "idle" => pub.head \in Heads /\ pub.packet \in Packets
    /\ pub.pc \in {"look", "review", "check"} => pub.packet.verdict \in Verdicts

RequestOK ==
    /\ ask \in Requesters
    /\ ask.pc # "idle" => ask.head \in Heads

TypeInv ==
    /\ LedgerTypeOK /\ GithubOK /\ FilesOK /\ BoundsOK
    /\ CollectorOK /\ WorkersOK /\ PublisherOK /\ RequestOK

\* The publisher's order: review, check, and only then marker and row.
PostingInv ==
    /\ \A h \in Heads : reviews[h] # {} => newest[h] # "none"
    /\ pub.pc \in {"check", "marker", "finish"} => newest[pub.head] # "none"
    /\ pub.pc \in {"marker", "finish"} => check[pub.head] # "none"

PostedInv == PublishedPosted /\ PostingInv

\* The branch never returns to a head it has left.
NeverBack ==
    /\ \A g \in Heads : <<g, g>> \notin Pushes
    /\ \A f, g, h \in Heads :
          <<f, g>> \in Pushes /\ <<g, h>> \in Pushes => <<f, h>> \in Pushes

\* What is labelled with head h was formed on h's diff, or the branch has left
\* h: whatever names h is then discarded by the publisher.
Left(h) == <<h, tip>> \in Pushes
Fits(h, about) == Diff[about] = Diff[h] \/ Left(h)

CollectorFits ==
    /\ col.listed # None => col.listed = tip \/ Left(col.listed)
    /\ col.pc = "place" => Fits(col.listed, col.diff)
    /\ col.copy # NoPacket =>
          col.listed \in Heads /\ Fits(col.listed, col.copy.about)

FilesFit ==
    \A h \in Heads :
       /\ box[h] # NoBox => Fits(h, box[h].about)
       /\ packet[h] # NoPacket => Fits(h, packet[h].about)

WorkersFit ==
    \A w \in Workers :
       work[w].pc = "review" => Fits(work[w].head, work[w].about)

PublisherFits ==
    /\ pub.pc # "idle" => Fits(pub.head, pub.packet.about)
    /\ pub.pc \in {"review", "check"} =>
          Diff[pub.packet.about] = Diff[pub.head]

DiffInv ==
    CollectorFits /\ FilesFit /\ WorkersFit /\ PublisherFits /\ VerdictOfDiff

-----------------------------------------------------------------------------
(* The ledger's transactions. *)

\* No statement but finish(..., "published") makes a row published.
NoneNewlyPublished ==
    \A h \in Heads : row'[h].state = "published" => row[h].state = "published"

LEMMA EntryOK ==
    ASSUME NEW s \in States
    PROVE  Entry(s) \in Row /\ Entry(s).state = s
  BY LedgerAssumption DEF Entry, Row

LEMMA RequestedNowOK ==
    ASSUME LedgerTypeOK, NEW h \in Heads, RequestedNow(h)
    PROVE  later' \in [Heads -> SUBSET Heads]
<1>1. \A g \in Heads :
         (IF g = h THEN {} ELSE later[g] \cup {h}) \in SUBSET Heads
  BY DEF LedgerTypeOK
<1> QED
  BY <1>1 DEF RequestedNow

LEMMA RecordOK ==
    ASSUME LedgerTypeOK, NEW h \in Heads, Record(h)
    PROVE  LedgerTypeOK' /\ NoneNewlyPublished
<1>1. Entry("queued") \in Row /\ Entry("queued").state = "queued"
  BY EntryOK DEF States
<1>2. RequestedNow(h) => later' \in [Heads -> SUBSET Heads]
  BY RequestedNowOK
<1> QED
  BY <1>1, <1>2 DEF LedgerTypeOK, Record, ledger, NoneNewlyPublished

LEMMA FinishOK ==
    ASSUME LedgerTypeOK, NEW h \in Heads,
           NEW s \in {"failed", "stale", "published"}, Finish(h, s)
    PROVE  /\ LedgerTypeOK'
           /\ s # "published" => NoneNewlyPublished
           /\ \A g \in Heads : row'[g].state = "published" =>
                 row[g].state = "published" \/ g = h
  BY DEF LedgerTypeOK, Finish, Ends, Row, States, NoneNewlyPublished

LEMMA SupersedeOK ==
    ASSUME LedgerTypeOK, NEW h \in Heads, Supersede(h)
    PROVE  LedgerTypeOK' /\ NoneNewlyPublished
  BY DEF LedgerTypeOK, Supersede, Ends, Row, States, NoneNewlyPublished

LEMMA RequeueOK ==
    ASSUME LedgerTypeOK, NEW h \in Heads, Requeue(h)
    PROVE  LedgerTypeOK' /\ NoneNewlyPublished
<1>1. Entry("queued") \in Row /\ Entry("queued").state = "queued"
  BY EntryOK DEF States
<1>2. RequestedNow(h) => later' \in [Heads -> SUBSET Heads]
  BY RequestedNowOK
<1> QED
  BY <1>1, <1>2 DEF LedgerTypeOK, Requeue, ledger, NoneNewlyPublished

LEMMA MarkReusingOK ==
    ASSUME LedgerTypeOK, NEW h \in Heads, MarkReusing(h)
    PROVE  LedgerTypeOK' /\ NoneNewlyPublished
<1>1. Entry("reusing") \in Row /\ Entry("reusing").state = "reusing"
  BY EntryOK DEF States
<1>2. RequestedNow(h) => later' \in [Heads -> SUBSET Heads]
  BY RequestedNowOK
<1> QED
  BY <1>1, <1>2 DEF LedgerTypeOK, MarkReusing, ledger, NoneNewlyPublished

\* A lease never takes more attempts than claim's budget.
LEMMA ClaimOK ==
    ASSUME LedgerTypeOK, NEW h \in Heads, Claim(h)
    PROVE  LedgerTypeOK' /\ NoneNewlyPublished
<1>1. row[h].attempts + 1 \in 0 .. MaxAttempts
  BY LedgerAssumption DEF LedgerTypeOK, Claim, HasBudget, Row
<1> QED
  BY <1>1 DEF LedgerTypeOK, Claim, Ends, Row, States, NoneNewlyPublished

LEMMA ClaimNothingOK ==
    ASSUME LedgerTypeOK, ClaimNothing
    PROVE  LedgerTypeOK' /\ NoneNewlyPublished
  BY DEF LedgerTypeOK, ClaimNothing, Ends, Row, States, NoneNewlyPublished

LEMMA TimePassesOK ==
    ASSUME LedgerTypeOK, NEW h \in Heads, TimePasses(h)
    PROVE  LedgerTypeOK' /\ NoneNewlyPublished
  BY DEF LedgerTypeOK, TimePasses, Row, States, NoneNewlyPublished

\* What a transaction leaves of the ledger, whoever runs it.
LedgerKept ==
    /\ LedgerTypeOK'
    /\ \A h \in Heads : row'[h].state = "published" =>
          row[h].state = "published" \/ (pub.pc = "finish" /\ h = pub.head)

LEMMA Untouched ==
    ASSUME LedgerTypeOK, UNCHANGED ledger
    PROVE  LedgerKept
  BY DEF ledger, LedgerTypeOK, LedgerKept

LEMMA RowState ==
    ASSUME LedgerTypeOK, NEW h \in Heads
    PROVE  row[h].state \in States
  BY DEF LedgerTypeOK, Row

LEMMA CollectorLedger ==
    ASSUME TypeInv, Collect \/ CollectorStops
    PROVE  LedgerKept
<1>0. LedgerTypeOK
  BY DEF TypeInv
<1>1. CASE \/ List \/ PruneRemove \/ ReadClosed \/ ReconcileDone \/ ReadRow
          \/ Waits \/ PacketLost \/ MarkerLost \/ BuildNothing \/ StartBuild
          \/ FetchDiff \/ CopyBundle \/ PlaceBundle \/ HandPacket
          \/ CollectorStops
  BY <1>0, <1>1, Untouched DEF List, PruneRemove, ReadClosed, ReconcileDone,
     ReadRow, Waits, PacketLost, MarkerLost, BuildNothing, StartBuild,
     FetchDiff, CopyBundle, PlaceBundle, HandPacket, CollectorStops, ledger
<1>2. CASE PruneFinish
  BY <1>0, <1>2, Untouched, FinishOK DEF PruneFinish, TypeInv, CollectorOK, At,
     LedgerKept, NoneNewlyPublished, ledger
<1>3. CASE Revive
  BY <1>0, <1>3, RequeueOK DEF Revive, TypeInv, CollectorOK, At, LedgerKept,
     NoneNewlyPublished
<1>4. CASE AdoptBundle
  BY <1>0, <1>4, RecordOK DEF AdoptBundle, TypeInv, CollectorOK, At, LedgerKept,
     NoneNewlyPublished
<1>5. CASE MarkRow
  BY <1>0, <1>5, MarkReusingOK DEF MarkRow, TypeInv, CollectorOK, At,
     LedgerKept,
     NoneNewlyPublished
<1>6. CASE RecordRow
  BY <1>0, <1>6, RecordOK DEF RecordRow, TypeInv, CollectorOK, At, LedgerKept,
     NoneNewlyPublished
<1>7. CASE SupersedeOlder
  BY <1>0, <1>7, SupersedeOK DEF SupersedeOlder, TypeInv, CollectorOK, At,
     LedgerKept,
     NoneNewlyPublished
<1>8. ASSUME NEW h \in Heads, PruneRead(h) \/ ReconcileClosed(h)
      PROVE  LedgerKept
  BY <1>0, <1>8, Untouched, FinishOK DEF PruneRead, ReconcileClosed, LedgerKept,
     NoneNewlyPublished, ledger
<1> QED
  BY <1>1, <1>2, <1>3, <1>4, <1>5, <1>6, <1>7, <1>8 DEF Collect

LEMMA OthersLedger ==
    ASSUME TypeInv,
           \/ \E h \in Heads : Push(h) \/ Tick(h)
           \/ Close \/ Reopen
           \/ \E w \in Workers : Review(w) \/ WriteInvalid(w) \/ WorkerDies(w)
           \/ Publish \/ PublisherStops
           \/ Ask \/ Request \/ RequestStops
           \/ UNCHANGED vars
    PROVE  LedgerKept
<1>0. LedgerTypeOK
  BY DEF TypeInv
<1>1. CASE \/ Close \/ Reopen \/ PublisherStops \/ Ask \/ RequestStops
          \/ UNCHANGED vars \/ \E h \in Heads : Push(h)
  BY <1>0, <1>1, Untouched DEF Close, Reopen, PublisherStops, Ask, RequestStops,
     vars, Push, AuthorOnly
<1>2. ASSUME NEW h \in Heads, Tick(h) PROVE LedgerKept
  BY <1>0, <1>2, TimePassesOK DEF Tick, LedgerKept, NoneNewlyPublished
<1>3. ASSUME NEW w \in Workers, Review(w) \/ WriteInvalid(w) \/ WorkerDies(w)
      PROVE  LedgerKept
  <2>1. CASE BeginReview(w) \/ WriteReview(w) \/ WriteInvalid(w) \/ WorkerDies(w)
    BY <1>0, <2>1, Untouched DEF BeginReview, WriteReview, WriteInvalid, Writes,
       WorkerDies
  <2>2. CASE Skip(w)
    BY <1>0, <2>2, FinishOK DEF Skip, TypeInv, WorkersOK, WorkerOK, LedgerKept,
       NoneNewlyPublished
  <2>3. ASSUME NEW h \in Heads, Lease(w, h) PROVE LedgerKept
    BY <1>0, <2>3, ClaimOK DEF Lease, LedgerKept, NoneNewlyPublished
  <2>4. CASE LeaseNothing(w)
    BY <1>0, <2>4, ClaimNothingOK DEF LeaseNothing, LedgerKept,
       NoneNewlyPublished
  <2> QED
    BY <1>3, <2>1, <2>2, <2>3, <2>4 DEF Review
<1>4. CASE Publish
  <2>1. CASE FailRow \/ StaleRow \/ FinishPublished
    BY <1>0, <2>1, FinishOK DEF FailRow, StaleRow, FinishPublished, Pub,
       TypeInv,
       PublisherOK, LedgerKept, NoneNewlyPublished
  <2>2. CASE ~(FailRow \/ StaleRow \/ FinishPublished)
    BY <1>0, <1>4, <2>2, Untouched DEF Publish, TakePacket, RejectPacket,
       LookAtHead, DiscardPacket, SpendStale, TossBundle, PostReview, PostCheck,
       WriteMarker, SpendPublished, FilePacket, RetireBundle
  <2> QED
    BY <2>1, <2>2
<1>5. CASE Request
  BY <1>0, <1>5, Untouched, RequeueOK DEF Request, AskDropsBundle,
     AskDropsPacket, AskDropsMarker, AskRequeues, TypeInv, RequestOK, LedgerKept,
     NoneNewlyPublished
<1> QED
  BY <1>1, <1>2, <1>3, <1>4, <1>5

-----------------------------------------------------------------------------
(* Types. *)

LEMMA CollectorIdleOK ==
    ASSUME col' = CollectorIdle
    PROVE  CollectorOK'
  BY DEF CollectorIdle, CollectorOK, Collectors, States

LEMMA CollectorType ==
    ASSUME TypeInv, Collect \/ CollectorStops
    PROVE  TypeInv'
<1>1. LedgerTypeOK'
  BY CollectorLedger DEF LedgerKept
<1>2. GithubOK' /\ WorkersOK' /\ PublisherOK' /\ RequestOK'
  <2>1. UNCHANGED <<github, work, pub, ask>>
    BY DEF Collect, CollectorStops, CollectorOnly, PruneRead, ReconcileClosed,
       List, PruneFinish, PruneRemove, ReadClosed, ReconcileDone, ReadRow,
       Waits, PacketLost, MarkerLost, Revive, BuildNothing, AdoptBundle,
       StartBuild, FetchDiff, CopyBundle, MarkRow, PlaceBundle, RecordRow,
       SupersedeOlder, HandPacket
  <2> QED
    BY <2>1 DEF TypeInv, GithubOK, WorkersOK, PublisherOK, RequestOK, github
<1>3. FilesOK' /\ BoundsOK'
  <2> USE DEF TypeInv, FilesOK, BoundsOK, CollectorOnly, bounds, CollectorOK,
          Collectors, At
  <2>1. CASE PruneFinish
    BY <2>1 DEF PruneFinish
  <2>2. CASE PruneRemove \/ PacketLost \/ StartBuild
    BY <2>2 DEF PruneRemove, PacketLost, StartBuild
  <2>3. CASE CopyBundle
    BY <2>3 DEF CopyBundle, Boxes, Packets
  <2>4. CASE PlaceBundle
    BY <2>4 DEF PlaceBundle, Boxes
  <2>5. CASE HandPacket
    BY <2>5 DEF HandPacket
  <2>6. CASE CollectorStops
    BY <2>6, PipelineAssumption DEF CollectorStops, Mishap
  <2>7. CASE UNCHANGED <<box, packet>> /\ CollectorOnly
    BY <2>7
  <2> QED
    BY <2>1, <2>2, <2>3, <2>4, <2>5, <2>6, <2>7 DEF Collect, List, ReadClosed,
       ReconcileDone, ReadRow, Waits, MarkerLost, Revive, BuildNothing,
       AdoptBundle, FetchDiff, MarkRow, RecordRow, SupersedeOlder, PruneRead,
       ReconcileClosed
<1>4. CollectorOK'
  <2> USE PipelineAssumption DEF TypeInv, CollectorOK, Collectors, At
  <2>1. CASE List
    BY <2>1 DEF List, Listed, CollectorIdle, GithubOK, NoPacket, States
  <2>2. CASE PruneFinish
    BY <2>2 DEF PruneFinish, Goto
  <2>3. CASE PruneRemove
    BY <2>3 DEF PruneRemove, States
  <2>4. CASE ReadClosed
    BY <2>4 DEF ReadClosed
  <2>5. CASE ReconcileDone
    BY <2>5, CollectorIdleOK DEF ReconcileDone
  <2>6. CASE ReadRow
    BY <2>6, RowState, CollectorIdleOK DEF ReadRow, Decision
  <2>7. CASE Waits
    BY <2>7, CollectorIdleOK DEF Waits
  <2>8. CASE PacketLost
    BY <2>8 DEF PacketLost, Goto
  <2>9. CASE MarkerLost
    BY <2>9 DEF MarkerLost, Goto
  <2>10. CASE Revive
    BY <2>10 DEF Revive, States
  <2>11. CASE BuildNothing
    BY <2>11, CollectorIdleOK DEF BuildNothing
  <2>12. CASE AdoptBundle
    BY <2>12, CollectorIdleOK DEF AdoptBundle
  <2>13. CASE StartBuild
    BY <2>13, RowState DEF StartBuild
  <2>14. CASE FetchDiff
    <3>1. ASSUME NEW p \in Heads, Reusable(p, tip), At("diff"),
                 col' = [col EXCEPT !.pc = "copy", !.copy = archive[p]]
          PROVE  CollectorOK'
      <4>1. archive[p] \in Packets
        BY <3>1 DEF Reusable, FilesOK
      <4> QED
        BY <3>1, <4>1
    <3>2. CASE /\ At("diff")
               /\ col' = [col EXCEPT !.pc = "place", !.seen = "absent",
                                     !.diff = tip]
      BY <3>2 DEF GithubOK, States
    <3> QED
      BY <2>14, <3>1, <3>2 DEF FetchDiff
  <2>15. CASE CopyBundle
    BY <2>15 DEF CopyBundle, Goto
  <2>16. CASE MarkRow
    BY <2>16 DEF MarkRow, Goto
  <2>17. CASE PlaceBundle
    BY <2>17 DEF PlaceBundle, Goto
  <2>18. CASE RecordRow
    BY <2>18 DEF RecordRow
  <2>19. CASE SupersedeOlder
    BY <2>19, CollectorIdleOK DEF SupersedeOlder
  <2>20. CASE HandPacket
    BY <2>20, CollectorIdleOK DEF HandPacket
  <2>21. ASSUME NEW h \in Heads, PruneRead(h) PROVE CollectorOK'
    BY <2>21, RowState DEF PruneRead
  <2>22. ASSUME NEW h \in Heads, ReconcileClosed(h) PROVE CollectorOK'
    BY <2>22 DEF ReconcileClosed
  <2>23. CASE CollectorStops
    BY <2>23, CollectorIdleOK DEF CollectorStops
  <2> QED
    BY <2>1, <2>2, <2>3, <2>4, <2>5, <2>6, <2>7, <2>8, <2>9, <2>10, <2>11,
    <2>12, <2>13, <2>14, <2>15, <2>16, <2>17, <2>18, <2>19, <2>20, <2>21,
    <2>22, <2>23 DEF Collect
<1> QED
  BY <1>1, <1>2, <1>3, <1>4 DEF TypeInv

LEMMA AuthorType ==
    ASSUME TypeInv, \/ \E h \in Heads : Push(h) \/ Tick(h)
                    \/ Close \/ Reopen
    PROVE  TypeInv'
<1>1. LedgerTypeOK'
  BY OthersLedger DEF LedgerKept
<1>2. FilesOK' /\ CollectorOK' /\ WorkersOK' /\ PublisherOK' /\ RequestOK'
  BY DEF TypeInv, FilesOK, CollectorOK, WorkersOK, PublisherOK, RequestOK, Push,
     Tick, Close, Reopen, AuthorOnly, files, boxes
<1>3. GithubOK'
  BY PipelineAssumption DEF TypeInv, GithubOK, Push, Tick, Close, Reopen,
     AuthorOnly, github
<1>4. BoundsOK'
  <2> USE PipelineAssumption DEF TypeInv, BoundsOK, bounds
  <2>1. CASE Close \/ \E h \in Heads : Push(h)
    <3>1. Move
      BY <2>1 DEF Push, Close
    <3> QED
      BY <3>1 DEF Move
  <2>2. CASE Reopen \/ \E h \in Heads : Tick(h)
    <3>1. Mishap \/ UNCHANGED bounds
      BY <2>2 DEF Reopen, Tick
    <3> QED
      BY <3>1 DEF Mishap
  <2> QED
    BY <2>1, <2>2
<1> QED
  BY <1>1, <1>2, <1>3, <1>4 DEF TypeInv

LEMMA WorkerType ==
    ASSUME TypeInv, NEW w \in Workers,
           Review(w) \/ WriteInvalid(w) \/ WorkerDies(w)
    PROVE  TypeInv'
<1>1. LedgerTypeOK'
  BY OthersLedger DEF LedgerKept
<1>2. GithubOK' /\ CollectorOK' /\ PublisherOK' /\ RequestOK'
  BY DEF TypeInv, GithubOK, CollectorOK, PublisherOK, RequestOK, Review, Lease,
     LeaseNothing, Skip, BeginReview, WriteReview, WriteInvalid, Writes,
     WorkerDies, WorkersOnly, github
<1>3. BoundsOK'
  BY PipelineAssumption DEF TypeInv, BoundsOK, Review, Lease, LeaseNothing,
     Skip,
     BeginReview, WriteReview, WriteInvalid, WorkerDies, Mishap, bounds
<1> DEFINE Step(s) == work' = [work EXCEPT ![w] = s] /\ WorkerOK(s)
<1>4. ASSUME NEW s, Step(s) PROVE WorkersOK'
  BY <1>4 DEF TypeInv, WorkersOK, WorkerOK
<1>5. WorkerOK(WorkerIdle)
  BY DEF WorkerOK, WorkerStates, WorkerIdle
<1>6. ASSUME NEW v \in Verdicts \cup {"invalid"}, Writes(w, v)
      PROVE  FilesOK' /\ WorkersOK'
  <2>1. [verdict |-> v, about |-> work[w].about] \in Packets
    BY <1>6 DEF TypeInv, WorkersOK, WorkerOK, Writes, Packets
  <2>2. FilesOK'
    BY <1>6, <2>1 DEF TypeInv, FilesOK, Writes, WorkersOnly
  <2> QED
    BY <1>4, <1>5, <1>6, <2>2 DEF Writes
<1>7. CASE WriteReview(w) \/ WriteInvalid(w)
  BY <1>1, <1>2, <1>3, <1>6, <1>7 DEF TypeInv, WriteReview, WriteInvalid
<1>8. CASE ~(WriteReview(w) \/ WriteInvalid(w))
  <2>1. FilesOK'
    BY <1>8 DEF TypeInv, FilesOK, Review, Lease, LeaseNothing, Skip,
       BeginReview,
       WorkerDies, WorkersOnly
  <2>2. ASSUME Skip(w) \/ WorkerDies(w) PROVE WorkersOK'
    BY <1>4, <1>5, <2>2 DEF Skip, WorkerDies
  <2>3. ASSUME NEW h \in Heads, Lease(w, h) PROVE WorkersOK'
    <3>1. WorkerOK([pc |-> "vet", head |-> h, about |-> None])
      BY DEF WorkerOK, WorkerStates
    <3> QED
      BY <1>4, <2>3, <3>1 DEF Lease
  <2>4. ASSUME LeaseNothing(w) PROVE WorkersOK'
    BY <2>4 DEF TypeInv, WorkersOK, LeaseNothing
  <2>5. ASSUME BeginReview(w) PROVE WorkersOK'
    <3>1. box[work[w].head].about \in Heads /\ work[w].head \in Heads
      BY <2>5 DEF TypeInv, WorkersOK, WorkerOK, FilesOK, BeginReview, Obsolete,
         Boxes, NoBox
    <3>2. WorkerOK([work[w] EXCEPT !.pc = "review",
                                   !.about = box[work[w].head].about])
      BY <3>1 DEF TypeInv, WorkersOK, WorkerOK, WorkerStates
    <3>3. work' = [work EXCEPT ![w] = [work[w] EXCEPT !.pc = "review",
                                         !.about = box[work[w].head].about]]
      BY <2>5, <3>1 DEF BeginReview, TypeInv, WorkersOK, WorkerStates
    <3> QED
      BY <1>4, <3>2, <3>3
  <2> QED
    BY <1>1, <1>2, <1>3, <1>8, <2>1, <2>2, <2>3, <2>4, <2>5 DEF TypeInv, Review
<1> QED
  BY <1>7, <1>8

LEMMA PublisherIdleOK ==
    ASSUME pub' = PublisherIdle
    PROVE  PublisherOK'
  BY DEF PublisherIdle, PublisherOK, Publishers

LEMMA PublisherType ==
    ASSUME TypeInv, Publish \/ PublisherStops
    PROVE  TypeInv'
<1>1. LedgerTypeOK'
  BY OthersLedger DEF LedgerKept
<1>2. CollectorOK' /\ WorkersOK' /\ RequestOK' /\ tip' = tip /\ open' = open
  <2>1. UNCHANGED <<open, tip, col, work, ask>>
    BY DEF Publish, PublisherStops, TakePacket, RejectPacket, FailRow,
       LookAtHead, DiscardPacket, StaleRow, SpendStale, TossBundle, PostReview,
       PostCheck, WriteMarker, FinishPublished, SpendPublished, FilePacket,
       RetireBundle, PublisherOnly
  <2> QED
    BY <2>1 DEF TypeInv, CollectorOK, WorkersOK, RequestOK
<1>3. BoundsOK'
  BY PipelineAssumption DEF TypeInv, BoundsOK, Mishap, bounds, Publish,
     PublisherStops, TakePacket, RejectPacket, FailRow, LookAtHead,
     DiscardPacket, StaleRow, SpendStale, TossBundle, PostReview, PostCheck,
     WriteMarker, FinishPublished, SpendPublished, FilePacket, RetireBundle,
     PublisherOnly
<1>4. GithubOK'
  <2> USE DEF TypeInv, GithubOK, PublisherOK
  <2>1. CASE PostReview
    BY <1>2, <2>1 DEF PostReview, Pub
  <2>2. CASE PostCheck
    BY <1>2, <2>2 DEF PostCheck, Pub, Packets
  <2>3. CASE Unposted
    BY <1>2, <2>3 DEF Unposted
  <2> QED
    BY <2>1, <2>2, <2>3 DEF Publish, PublisherStops, TakePacket, RejectPacket,
       FailRow, LookAtHead, DiscardPacket, StaleRow, SpendStale, TossBundle,
       WriteMarker, FinishPublished, SpendPublished, FilePacket, RetireBundle
<1>5. FilesOK'
  <2> USE DEF TypeInv, FilesOK, PublisherOK, Pub, boxes, files
  <2>1. CASE RejectPacket \/ DiscardPacket
    BY <2>1 DEF RejectPacket, DiscardPacket
  <2>2. CASE TossBundle \/ RetireBundle
    BY <2>2 DEF TossBundle, RetireBundle
  <2>3. CASE SpendStale \/ SpendPublished
    <3>1. ASSUME NEW b \in Boxes \cup {NoBox}
          PROVE  Spent(b) \in Boxes \cup {NoBox}
      BY DEF Spent, Boxes, NoBox
    <3> QED
      BY <2>3, <3>1 DEF SpendStale, SpendPublished, MarkBundle
  <2>4. CASE WriteMarker
    BY <2>4 DEF WriteMarker
  <2>5. CASE FilePacket
    BY <2>5 DEF FilePacket
  <2>6. CASE UNCHANGED files
    BY <2>6
  <2> QED
    BY <2>1, <2>2, <2>3, <2>4, <2>5, <2>6 DEF Publish, PublisherStops,
       TakePacket,
       FailRow, LookAtHead, StaleRow, PostReview, PostCheck, FinishPublished
<1>6. PublisherOK'
  <2> USE DEF TypeInv, PublisherOK, Publishers, Pub, PubTo
  <2>1. ASSUME NEW h \in Heads, TakePacket(h) PROVE PublisherOK'
    <3>1. packet[h] \in Packets
      BY <2>1 DEF TakePacket, FilesOK
    <3> QED
      BY <2>1, <3>1 DEF TakePacket, Packets
  <2>2. CASE RejectPacket \/ DiscardPacket
    BY <2>2, PublisherIdleOK DEF RejectPacket, DiscardPacket
  <2>3. CASE FailRow \/ TossBundle \/ RetireBundle \/ PublisherStops
    BY <2>3, PublisherIdleOK DEF FailRow, TossBundle, RetireBundle,
       PublisherStops
  <2>4. CASE LookAtHead
    BY <2>4 DEF LookAtHead
  <2>5. CASE SpendStale \/ SpendPublished
    BY <2>5, PublisherIdleOK DEF SpendStale, SpendPublished, MarkBundle
  <2>6. CASE StaleRow \/ PostReview \/ PostCheck
    BY <2>6 DEF StaleRow, PostReview, PostCheck
  <2>7. CASE WriteMarker \/ FinishPublished
    BY <2>7 DEF WriteMarker, FinishPublished
  <2>8. CASE FilePacket
    BY <2>8, PublisherIdleOK DEF FilePacket
  <2> QED
    BY <2>1, <2>2, <2>3, <2>4, <2>5, <2>6, <2>7, <2>8 DEF Publish
<1> QED
  BY <1>1, <1>2, <1>3, <1>4, <1>5, <1>6 DEF TypeInv

LEMMA RequestType ==
    ASSUME TypeInv, Ask \/ Request \/ RequestStops
    PROVE  TypeInv'
<1> USE DEF Request, Ask, AskDropsBundle, AskDropsPacket, AskDropsMarker,
        AskRequeues, RequestStops, RequestOnly, TypeInv
<1>1. LedgerTypeOK'
  BY OthersLedger DEF LedgerKept
<1>2. GithubOK' /\ CollectorOK' /\ WorkersOK' /\ PublisherOK'
  BY DEF GithubOK, CollectorOK, WorkersOK, PublisherOK, github
<1>3. BoundsOK'
  BY PipelineAssumption DEF BoundsOK, Mishap, bounds
<1>4. FilesOK'
  BY DEF FilesOK, RequestOK
<1>5. RequestOK'
  BY DEF RequestOK, Requesters, AskTo, RequestIdle, GithubOK
<1> QED
  BY <1>1, <1>2, <1>3, <1>4, <1>5

LEMMA TypeStep ==
    ASSUME TypeInv, [Next]_vars
    PROVE  TypeInv'
<1>1. CASE UNCHANGED vars
  <2>1. LedgerTypeOK'
    BY <1>1, OthersLedger DEF LedgerKept
  <2> QED
    BY <1>1, <2>1 DEF TypeInv, GithubOK, FilesOK, BoundsOK, CollectorOK,
       WorkersOK, PublisherOK, RequestOK, vars, github, files, boxes, bounds
<1>2. CASE Next
  BY <1>2, CollectorType, AuthorType, WorkerType, PublisherType, RequestType
     DEF Next
<1> QED
  BY <1>1, <1>2

LEMMA TypeInit ==
    ASSUME Init
    PROVE  TypeInv
<1> USE PipelineAssumption DEF Init
<1>1. LedgerTypeOK
  BY EntryOK DEF LedgerInit, LedgerTypeOK, States
<1>2. GithubOK /\ FilesOK /\ BoundsOK
  BY DEF GithubOK, FilesOK, BoundsOK
<1>3. CollectorOK /\ PublisherOK /\ RequestOK
  BY DEF CollectorOK, CollectorIdle, Collectors, States, PublisherOK,
     PublisherIdle, Publishers, RequestOK, RequestIdle, Requesters
<1>4. WorkersOK
  BY DEF WorkersOK, WorkerOK, WorkerStates, WorkerIdle
<1> QED
  BY <1>1, <1>2, <1>3, <1>4 DEF TypeInv

\* The rows, files and runs stay in states the programs handle, and no head is
\* leased more often than claim.py's --max-attempts, whatever is interleaved.
THEOREM ReviewTypeCorrect == Spec => []ReviewTypeOK
<1>1. TypeInv => ReviewTypeOK
  BY DEF TypeInv, ReviewTypeOK, GithubOK, FilesOK, BoundsOK, CollectorOK,
     WorkersOK, PublisherOK, RequestOK
<1> QED
  BY <1>1, TypeInit, TypeStep, PTL DEF Spec

-----------------------------------------------------------------------------
(* What a published row attests. *)

LEMMA PostedStep ==
    ASSUME TypeInv, PostedInv, [Next]_vars
    PROVE  PostedInv'
<1>1. LedgerKept
  BY CollectorLedger, OthersLedger DEF Next
<1>2. ASSUME UNCHANGED <<reviews, newest, check>>,
             pub'.pc \in {"check", "marker", "finish"}
                => pub'.pc = pub.pc /\ pub'.head = pub.head,
             marker' \subseteq marker, marker \subseteq Heads
      PROVE  PostedInv'
  BY <1>1, <1>2 DEF PostedInv, PublishedPosted, PostingInv, LedgerKept
<1>3. marker \subseteq Heads
  BY DEF TypeInv, FilesOK
<1>4. CASE Collect \/ CollectorStops
  <2>1. UNCHANGED <<reviews, newest, check, pub, marker>>
    BY <1>4 DEF Collect, CollectorStops, CollectorOnly, github, PruneRead,
       ReconcileClosed, List, PruneFinish, PruneRemove, ReadClosed,
       ReconcileDone, ReadRow, Waits, PacketLost, MarkerLost, Revive,
       BuildNothing, AdoptBundle, StartBuild, FetchDiff, CopyBundle, MarkRow,
       PlaceBundle, RecordRow, SupersedeOlder, HandPacket
  <2> QED
    BY <1>2, <1>3, <2>1
<1>5. CASE \/ \E h \in Heads : Push(h) \/ Tick(h)
          \/ Close \/ Reopen \/ UNCHANGED vars
  BY <1>2, <1>3, <1>5 DEF Push, Tick, Close, Reopen, AuthorOnly, vars, github,
     files
<1>6. ASSUME NEW w \in Workers, Review(w) \/ WriteInvalid(w) \/ WorkerDies(w)
      PROVE  PostedInv'
  BY <1>2, <1>3, <1>6 DEF Review, Lease, LeaseNothing, Skip, BeginReview,
     WriteReview, WriteInvalid, Writes, WorkerDies, WorkersOnly, github
<1>7. CASE Ask \/ Request \/ RequestStops
  BY <1>2, <1>3, <1>7 DEF Ask, Request, AskDropsBundle, AskDropsPacket,
     AskDropsMarker, AskRequeues, RequestStops, RequestOnly, github
<1>8. CASE Publish \/ PublisherStops
  <2>1. CASE PublisherStops
    BY <1>2, <1>3, <2>1 DEF PublisherStops, PublisherIdle, Unposted, files
  <2>2. CASE PostReview
    BY <1>1, <2>2, PipelineAssumption DEF PostReview, PostedInv,
       PublishedPosted, PostingInv,
       LedgerKept, Pub, PubTo, TypeInv, GithubOK, PublisherOK, Publishers, files,
       Packets
  <2>3. CASE PostCheck
    BY <1>1, <2>3, PipelineAssumption DEF PostCheck, PostedInv,
       PublishedPosted, PostingInv,
       LedgerKept, Pub, PubTo, TypeInv, GithubOK, PublisherOK, Publishers, files,
       Packets
  <2>4. CASE WriteMarker
    BY <1>1, <2>4 DEF WriteMarker, PostedInv, PublishedPosted, PostingInv,
       LedgerKept, Pub, PubTo, Unposted, TypeInv, PublisherOK, Publishers
  <2>5. CASE FinishPublished
    BY <1>1, <2>5 DEF FinishPublished, PostedInv, PublishedPosted, PostingInv,
       LedgerKept, Pub, PubTo, Unposted, TypeInv, PublisherOK, Publishers, files
  <2>6. ASSUME NEW h \in Heads, TakePacket(h) PROVE PostedInv'
    BY <1>2, <1>3, <2>6 DEF TakePacket, Unposted, files
  <2>7. CASE \/ RejectPacket \/ FailRow \/ LookAtHead \/ DiscardPacket \/ StaleRow
            \/ SpendStale \/ TossBundle \/ SpendPublished \/ FilePacket
            \/ RetireBundle
    <3>1. UNCHANGED <<reviews, newest, check, marker>>
      BY <2>7 DEF RejectPacket, FailRow, LookAtHead, DiscardPacket, StaleRow,
         SpendStale, TossBundle, SpendPublished, FilePacket, RetireBundle,
         Unposted, files
    <3>2. pub'.pc \notin {"check", "marker", "finish"}
      BY <2>7 DEF TypeInv, PublisherOK, Publishers, PublisherIdle, PubTo,
         MarkBundle, RejectPacket, FailRow, LookAtHead, DiscardPacket, StaleRow,
         SpendStale, TossBundle, SpendPublished, FilePacket, RetireBundle
    <3> QED
      BY <1>2, <1>3, <3>1, <3>2
  <2> QED
    BY <1>8, <2>1, <2>2, <2>3, <2>4, <2>5, <2>6, <2>7 DEF Publish
<1> QED
  BY <1>4, <1>5, <1>6, <1>7, <1>8 DEF Next

\* Whatever the collector, the workers and the operator do meanwhile, a row is
\* published and a marker written only for a head with a review and a check.
THEOREM PublishedAlwaysPosted == Spec => []PublishedPosted
<1>1. Init => PostedInv
  BY DEF Init, LedgerInit, Entry, PostedInv, PublishedPosted, PostingInv,
     PublisherIdle
<1>2. PostedInv => PublishedPosted
  BY DEF PostedInv
<1> QED
  BY <1>1, <1>2, TypeInit, TypeStep, PostedStep, PTL DEF Spec

-----------------------------------------------------------------------------
(* Whose diff the gate check is about. *)

\* A push leaves the head it moves from, and no head it left before is back.
LEMMA PushFits ==
    ASSUME NeverBack, TypeInv, DiffInv, NEW h \in Heads, Push(h)
    PROVE  DiffInv'
<1>1. \A g \in Heads : g = tip \/ Left(g) => Left(g)'
  BY DEF NeverBack, Push, Left, TypeInv, GithubOK
<1>2. \A g \in Heads : \A a : Fits(g, a) => Fits(g, a)'
  BY <1>1 DEF Fits
<1>3. UNCHANGED <<col, box, packet, work, pub, formed>>
  BY DEF Push, AuthorOnly, files, boxes
<1>4. CollectorFits'
  <2>1. col.listed \in Heads \cup {None}
    BY DEF TypeInv, CollectorOK, Collectors
  <2>2. col.pc = "place" => col.listed \in Heads
    BY DEF TypeInv, CollectorOK
  <2> QED
    BY <1>1, <1>2, <1>3, <2>1, <2>2 DEF DiffInv, CollectorFits
<1>5. FilesFit' /\ WorkersFit'
  BY <1>2, <1>3 DEF DiffInv, FilesFit, WorkersFit, TypeInv, WorkersOK, WorkerOK
<1>6. PublisherFits' /\ VerdictOfDiff'
  BY <1>2, <1>3 DEF DiffInv, PublisherFits, VerdictOfDiff, TypeInv, PublisherOK
<1> QED
  BY <1>4, <1>5, <1>6 DEF DiffInv

LEMMA CollectorStepFits ==
    ASSUME TypeInv, DiffInv, Collect \/ CollectorStops
    PROVE  DiffInv'
<1>1. UNCHANGED <<tip, formed, work, pub>>
  BY DEF Collect, CollectorStops, CollectorOnly, github, PruneRead,
     ReconcileClosed, List, PruneFinish, PruneRemove, ReadClosed, ReconcileDone,
     ReadRow, Waits, PacketLost, MarkerLost, Revive, BuildNothing, AdoptBundle,
     StartBuild, FetchDiff, CopyBundle, MarkRow, PlaceBundle, RecordRow,
     SupersedeOlder, HandPacket
<1>2. \A g, a : Fits(g, a)' <=> Fits(g, a)
  BY <1>1 DEF Fits, Left
<1>3. \A g : Left(g)' <=> Left(g)
  BY <1>1 DEF Left
<1>4. WorkersFit' /\ PublisherFits' /\ VerdictOfDiff'
  BY <1>1, <1>2 DEF DiffInv, WorkersFit, PublisherFits, VerdictOfDiff
<1>5. FilesFit'
  <2> USE DEF DiffInv, FilesFit, TypeInv, FilesOK, CollectorOK, At
  <2>1. CASE CopyBundle
    BY <1>2, <2>1, PipelineAssumption DEF CopyBundle, CollectorFits, Packets,
       NoPacket
  <2>2. CASE PlaceBundle
    BY <1>2, <2>2 DEF PlaceBundle, CollectorFits
  <2>3. CASE HandPacket
    BY <1>2, <2>3, PipelineAssumption DEF HandPacket, CollectorFits, Packets,
       NoPacket
  <2>4. CASE /\ \A h \in Heads : box'[h] \in {box[h], NoBox}
             /\ \A h \in Heads : packet'[h] \in {packet[h], NoPacket}
    BY <1>2, <2>4
  <2>5. CASE \/ PruneFinish \/ PruneRemove \/ PacketLost \/ StartBuild
            \/ CollectorStops
    BY <2>4, <2>5 DEF PruneFinish, PruneRemove, PacketLost, StartBuild,
       CollectorStops
  <2> QED
    BY <2>1, <2>2, <2>3, <2>4, <2>5 DEF Collect, List, ReadClosed,
       ReconcileDone,
       ReadRow, Waits, MarkerLost, Revive, BuildNothing, AdoptBundle, FetchDiff,
       MarkRow, RecordRow, SupersedeOlder, PruneRead, ReconcileClosed
<1>6. CollectorFits'
  <2> USE DEF DiffInv, CollectorFits, TypeInv, CollectorOK, Collectors, At, Goto
  <2>1. ASSUME col' = CollectorIdle PROVE CollectorFits'
    BY <2>1 DEF CollectorIdle
  <2>2. CASE List
    BY <1>1, <2>2 DEF List, Listed, CollectorIdle
  <2>3. CASE FetchDiff
    <3>1. ASSUME NEW p \in Heads, Reusable(p, tip), At("diff"),
                 col' = [col EXCEPT !.pc = "copy", !.copy = archive[p]]
          PROVE  CollectorFits'
      <4>1. col.listed \in Heads /\ Fits(col.listed, archive[p].about)
        BY <3>1, PipelineAssumption DEF Reusable, Fits
      <4> QED
        BY <1>2, <1>3, <1>1, <3>1, <4>1
    <3>2. CASE /\ At("diff")
               /\ col' = [col EXCEPT !.pc = "place", !.seen = "absent",
                                     !.diff = tip]
      <4>1. Fits(col.listed, tip)
        BY <3>2, PipelineAssumption DEF Fits
      <4> QED
        BY <1>2, <1>3, <1>1, <3>2, <4>1
    <3> QED
      BY <2>3, <3>1, <3>2 DEF FetchDiff
  <2>4. CASE ReadRow
    BY <1>1, <1>2, <1>3, <2>1, <2>4 DEF ReadRow, Decision
  <2>5. CASE PruneFinish \/ PruneRemove \/ ReadClosed \/ StartBuild
    BY <1>1, <1>2, <1>3, <2>5 DEF PruneFinish, PruneRemove, ReadClosed,
       StartBuild
  <2>6. CASE PacketLost \/ MarkerLost \/ Revive
    BY <1>1, <1>2, <1>3, <2>6 DEF PacketLost, MarkerLost, Revive
  <2>7. CASE CopyBundle \/ MarkRow \/ PlaceBundle
    BY <1>1, <1>2, <1>3, <2>7 DEF CopyBundle, MarkRow, PlaceBundle
  <2>8. CASE RecordRow
    BY <1>1, <1>2, <1>3, <2>8 DEF RecordRow
  <2>9. CASE SupersedeOlder
    BY <1>1, <1>2, <1>3, <2>1, <2>9 DEF SupersedeOlder
  <2>10. CASE \/ ReconcileDone \/ Waits \/ BuildNothing \/ AdoptBundle
             \/ HandPacket \/ CollectorStops
    BY <2>1, <2>10 DEF ReconcileDone, Waits, BuildNothing, AdoptBundle,
       HandPacket, CollectorStops
  <2>11. ASSUME NEW h \in Heads, PruneRead(h) \/ ReconcileClosed(h)
         PROVE  CollectorFits'
    BY <1>1, <1>2, <1>3, <2>11 DEF PruneRead, ReconcileClosed
  <2> QED
    BY <2>2, <2>3, <2>4, <2>5, <2>6, <2>7, <2>8, <2>9, <2>10, <2>11 DEF Collect
<1> QED
  BY <1>4, <1>5, <1>6 DEF DiffInv

LEMMA OthersFit ==
    ASSUME NeverBack, TypeInv, DiffInv,
           \/ \E h \in Heads : Tick(h)
           \/ Close \/ Reopen
           \/ \E w \in Workers : Review(w) \/ WriteInvalid(w) \/ WorkerDies(w)
           \/ Publish \/ PublisherStops
           \/ Ask \/ Request \/ RequestStops
           \/ UNCHANGED vars
    PROVE  DiffInv'
<1> USE DEF DiffInv
<1>1. tip' = tip
  BY DEF Tick, Close, Reopen, AuthorOnly, Review, Lease, LeaseNothing, Skip,
     BeginReview, WriteReview, WriteInvalid, Writes, WorkerDies, WorkersOnly,
     Publish, PublisherStops, TakePacket, RejectPacket, FailRow, LookAtHead,
     DiscardPacket, StaleRow, SpendStale, TossBundle, PostReview, PostCheck,
     WriteMarker, FinishPublished, SpendPublished, FilePacket, RetireBundle,
     PublisherOnly, Ask, Request, AskDropsBundle, AskDropsPacket,
     AskDropsMarker, AskRequeues, RequestStops, RequestOnly, vars, github
<1>2. \A g, a : Fits(g, a)' <=> Fits(g, a)
  BY <1>1 DEF Fits, Left
<1>3. col' = col => CollectorFits'
  BY <1>1, <1>2 DEF CollectorFits, Left
<1>4. UNCHANGED <<work>> => WorkersFit'
  BY <1>2 DEF WorkersFit
<1>5. UNCHANGED <<pub, formed>> => PublisherFits' /\ VerdictOfDiff'
  BY <1>2 DEF PublisherFits, VerdictOfDiff
<1>6. UNCHANGED <<box, packet>> => FilesFit'
  BY <1>2 DEF FilesFit
<1>7. CASE \/ \E h \in Heads : Tick(h)
          \/ Close \/ Reopen \/ UNCHANGED vars
  BY <1>3, <1>4, <1>5, <1>6, <1>7 DEF Tick, Close, Reopen, AuthorOnly, github,
     files, boxes, vars
<1>8. ASSUME NEW w \in Workers, Review(w) \/ WriteInvalid(w) \/ WorkerDies(w)
      PROVE  DiffInv'
  <2>1. CollectorFits' /\ PublisherFits' /\ VerdictOfDiff' /\ UNCHANGED box
    BY <1>3, <1>5, <1>8 DEF Review, Lease, LeaseNothing, Skip, BeginReview,
       WriteReview, WriteInvalid, Writes, WorkerDies, WorkersOnly, github
  <2>2. WorkersFit'
    <3>1. CASE BeginReview(w)
      BY <1>2, <3>1 DEF BeginReview, Obsolete, NoBox, WorkersFit, FilesFit,
         TypeInv, WorkersOK, WorkerOK, WorkerStates
    <3>2. CASE ~BeginReview(w)
      <4>1. \/ work' = work
            \/ \E s : s.pc # "review" /\ work' = [work EXCEPT ![w] = s]
        <5>1. ASSUME NEW h \in Heads, Lease(w, h)
              PROVE  \E s : s.pc # "review" /\ work' = [work EXCEPT ![w] = s]
          <6> DEFINE s == [pc |-> "vet", head |-> h, about |-> None]
          <6>1. s.pc # "review" /\ work' = [work EXCEPT ![w] = s]
            BY <5>1 DEF Lease
          <6> QED
            BY <6>1
        <5>2. WorkerIdle.pc # "review"
          BY DEF WorkerIdle
        <5> QED
          BY <1>8, <3>2, <5>1, <5>2 DEF Review, LeaseNothing, Skip, WriteReview,
             WriteInvalid, Writes, WorkerDies
      <4> QED
        BY <1>2, <4>1 DEF WorkersFit, TypeInv, WorkersOK
    <3> QED
      BY <3>1, <3>2
  <2>3. FilesFit'
    <3>1. ASSUME NEW v, Writes(w, v) PROVE FilesFit'
      BY <1>2, <2>1, <3>1 DEF Writes, FilesFit, WorkersFit, TypeInv, FilesOK
    <3>2. CASE UNCHANGED packet
      BY <1>6, <2>1, <3>2
    <3> QED
      BY <1>8, <3>1, <3>2 DEF Review, Lease, LeaseNothing, Skip, BeginReview,
         WriteReview, WriteInvalid, WorkerDies
  <2> QED
    BY <2>1, <2>2, <2>3
<1>9. CASE Ask \/ Request \/ RequestStops
  <2>1. UNCHANGED <<col, work, pub, formed>>
    BY <1>9 DEF Ask, Request, AskDropsBundle, AskDropsPacket, AskDropsMarker,
       AskRequeues, RequestStops, RequestOnly, github
  <2>2. FilesFit'
    BY <1>2, <1>9 DEF Ask, Request, AskDropsBundle, AskDropsPacket,
       AskDropsMarker, AskRequeues, RequestStops, FilesFit, TypeInv, FilesOK
  <2> QED
    BY <1>3, <1>4, <1>5, <2>1, <2>2
<1>10. CASE Publish \/ PublisherStops
  <2>1. CollectorFits' /\ WorkersFit'
    BY <1>3, <1>4, <1>10 DEF Publish, PublisherStops, TakePacket, RejectPacket,
       FailRow, LookAtHead, DiscardPacket, StaleRow, SpendStale, TossBundle,
       PostReview, PostCheck, WriteMarker, FinishPublished, SpendPublished,
       FilePacket, RetireBundle, PublisherOnly
  <2>2. FilesFit'
    <3> USE DEF FilesFit, TypeInv, FilesOK, files, boxes
    <3>1. CASE SpendStale \/ SpendPublished
      BY <1>2, <3>1 DEF SpendStale, SpendPublished, MarkBundle, Spent, Boxes,
         NoBox
    <3>2. CASE ~(SpendStale \/ SpendPublished)
      BY <1>2, <1>10, <3>2 DEF Publish, PublisherStops, TakePacket,
         RejectPacket,
         FailRow, LookAtHead, DiscardPacket, StaleRow, TossBundle, PostReview,
         PostCheck, WriteMarker, FinishPublished, FilePacket, RetireBundle
    <3> QED
      BY <3>1, <3>2
  <2>3. VerdictOfDiff'
    <3>1. CASE PostCheck
      BY <3>1 DEF PostCheck, Pub, PublisherFits, VerdictOfDiff, TypeInv,
         GithubOK
    <3>2. CASE ~PostCheck
      <4>1. formed' = formed
        BY <1>10, <3>2 DEF Publish, PublisherStops, TakePacket, RejectPacket,
           FailRow, LookAtHead, DiscardPacket, StaleRow, SpendStale, TossBundle,
           PostReview, WriteMarker, FinishPublished, SpendPublished, FilePacket,
           RetireBundle, Unposted
      <4> QED
        BY <4>1 DEF VerdictOfDiff
    <3> QED
      BY <3>1, <3>2
  <2>4. PublisherFits'
    <3> USE DEF PublisherFits, TypeInv, PublisherOK, Publishers, Pub, PubTo
    <3>1. ASSUME NEW h \in Heads, TakePacket(h) PROVE PublisherFits'
      BY <1>2, <3>1 DEF TakePacket, FilesFit
    <3>2. CASE LookAtHead
      BY <1>2, <3>2 DEF LookAtHead, IsCurrent, NeverBack, Fits, Left
    <3>3. CASE pub' = PublisherIdle
      BY <3>3 DEF PublisherIdle
    <3>4. CASE PostReview
      BY <1>2, <3>4 DEF PostReview
    <3>5. ASSUME pub'.head = pub.head, pub'.packet = pub.packet,
                 pub.pc # "idle", pub'.pc \notin {"review", "check"}
          PROVE  PublisherFits'
      BY <1>2, <3>5
    <3>6. CASE \/ RejectPacket \/ FailRow \/ DiscardPacket \/ StaleRow
              \/ SpendStale \/ TossBundle \/ PostCheck \/ WriteMarker
              \/ FinishPublished \/ SpendPublished \/ FilePacket \/ RetireBundle
              \/ PublisherStops
      BY <3>3, <3>5, <3>6 DEF RejectPacket, FailRow, DiscardPacket, StaleRow,
         SpendStale, TossBundle, PostCheck, WriteMarker, FinishPublished,
         SpendPublished, FilePacket, RetireBundle, PublisherStops, MarkBundle
    <3> QED
      BY <1>10, <3>1, <3>2, <3>4, <3>6 DEF Publish
  <2> QED
    BY <2>1, <2>2, <2>3, <2>4
<1> QED
  BY <1>7, <1>8, <1>9, <1>10

\* As long as no push brings an earlier head back, the gate check of a head is
\* always about that head's own diff or an identical one, whatever the races
\* between gh pr diff, the reviews and publish.py's look at the head.
THEOREM NeverBackMeansOwnDiff ==
    ASSUME NeverBack
    PROVE  Spec => []VerdictOfDiff
<1>1. Init => DiffInv
  BY DEF Init, DiffInv, CollectorFits, FilesFit, WorkersFit, PublisherFits,
     VerdictOfDiff, CollectorIdle, WorkerIdle, PublisherIdle
<1>2. ASSUME TypeInv, DiffInv, [Next]_vars PROVE DiffInv'
  BY <1>2, PushFits, CollectorStepFits, OthersFit DEF Next
<1>3. DiffInv => VerdictOfDiff
  BY DEF DiffInv
<1> QED
  BY <1>1, <1>2, <1>3, TypeInit, TypeStep, PTL DEF Spec

-----------------------------------------------------------------------------
(* Which heads are in the ledger. *)

\* No transaction removes a row.
RowsStay ==
    \A h \in Heads : row[h].state # "absent" => row'[h].state # "absent"

\* Whoever is about to write a packet has a head with a row.
RowInv ==
    /\ PacketHasRow
    /\ \A w \in Workers :
          work[w].pc # "idle" => row[work[w].head].state # "absent"
    /\ col.pc \in {"supersede", "hand"} => row[col.listed].state # "absent"

LEMMA TransactionsKeepRows ==
    ASSUME LedgerTypeOK, NEW h \in Heads
    PROVE  /\ UNCHANGED ledger => RowsStay
           /\ Record(h) => RowsStay /\ row'[h].state # "absent"
           /\ MarkReusing(h) => RowsStay /\ row'[h].state # "absent"
           /\ Requeue(h) => RowsStay
           /\ \A s \in {"failed", "stale", "published"} :
                 Finish(h, s) => RowsStay
           /\ Supersede(h) => RowsStay
           /\ Claim(h) => RowsStay /\ row'[h].state # "absent"
           /\ ClaimNothing => RowsStay
           /\ TimePasses(h) => RowsStay
<1>1. UNCHANGED ledger => RowsStay
  BY DEF ledger, RowsStay
<1>2. Record(h) => RowsStay /\ row'[h].state # "absent"
  BY <1>1, EntryOK DEF Record, RowsStay, LedgerTypeOK, States, ledger, Entry
<1>3. MarkReusing(h) => RowsStay /\ row'[h].state # "absent"
  BY <1>1, EntryOK DEF MarkReusing, RowsStay, LedgerTypeOK, States, ledger, Entry,
     Row
<1>4. Requeue(h) => RowsStay
  BY <1>1, EntryOK DEF Requeue, RowsStay, LedgerTypeOK, States, ledger, Entry
<1>5. \A s \in {"failed", "stale", "published"} : Finish(h, s) => RowsStay
  BY DEF Finish, RowsStay, LedgerTypeOK, Ends, Row
<1>6. Supersede(h) => RowsStay
  BY DEF Supersede, RowsStay, LedgerTypeOK, Ends, Row
<1>7. Claim(h) => RowsStay /\ row'[h].state # "absent"
  <2>1. ASSUME NEW g \in Heads
        PROVE  Ends(row[g], "failed").state = "failed"
    BY DEF LedgerTypeOK, Ends, Row
  <2>2. ASSUME NEW g \in Heads, Claim(h)
        PROVE  \/ g = h /\ row'[g].state = "leased"
               \/ row'[g] = Ends(row[g], "failed")
               \/ g # h /\ row'[g] = row[g]
    BY <2>2 DEF Claim
  <2> QED
    BY <2>1, <2>2 DEF RowsStay
<1>8. ClaimNothing => RowsStay
  BY DEF ClaimNothing, RowsStay, LedgerTypeOK, Ends, Row
<1>9. TimePasses(h) => RowsStay
  BY DEF TimePasses, RowsStay, LedgerTypeOK, Row
<1> QED
  BY <1>1, <1>2, <1>3, <1>4, <1>5, <1>6, <1>7, <1>8, <1>9

\* Nobody who had no row writes a packet.
LEMMA PacketsWithRows ==
    ASSUME TypeInv, RowInv, RowsStay, UNCHANGED <<col, work>>,
           \A h \in Heads : packet'[h] # NoPacket => packet[h] # NoPacket
    PROVE  RowInv'
<1>1. \A w \in Workers : work[w].pc # "idle" => work[w].head \in Heads
  BY DEF TypeInv, WorkersOK, WorkerOK
<1>2. col.pc \in {"supersede", "hand"} => col.listed \in Heads
  BY DEF TypeInv, CollectorOK
<1> QED
  BY <1>1, <1>2 DEF RowInv, RowsStay, PacketHasRow

LEMMA CollectorRows ==
    ASSUME TypeInv, RowInv, Collect \/ CollectorStops
    PROVE  RowInv'
<1>1. LedgerTypeOK /\ packet \in [Heads -> Packets \cup {NoPacket}]
      /\ col \in Collectors /\ work' = work
  BY DEF TypeInv, FilesOK, CollectorOK, Collect, CollectorStops, CollectorOnly,
     PruneRead,
     ReconcileClosed, List, PruneFinish, PruneRemove, ReadClosed,
     ReconcileDone, ReadRow, Waits, PacketLost, MarkerLost, Revive,
     BuildNothing, AdoptBundle, StartBuild, FetchDiff, CopyBundle, MarkRow,
     PlaceBundle, RecordRow, SupersedeOlder, HandPacket
<1>2. \A w \in Workers : work[w].pc # "idle" => work[w].head \in Heads
  BY DEF TypeInv, WorkersOK, WorkerOK
<1>3. col.pc # "idle" /\ col.pc \notin {"prune", "drop", "remove", "reconcile"}
         => col.listed \in Heads
  BY DEF TypeInv, CollectorOK, Collectors
<1>4. ASSUME RowsStay,
             \A h \in Heads : packet'[h] # NoPacket =>
                packet[h] # NoPacket \/ row'[h].state # "absent",
             col'.pc \in {"supersede", "hand"} =>
                col'.listed \in Heads /\ row'[col'.listed].state # "absent"
      PROVE  RowInv'
  BY <1>1, <1>2, <1>4 DEF RowInv, RowsStay, PacketHasRow
<1>5. CASE \/ List \/ PruneRemove \/ ReadClosed \/ ReconcileDone \/ ReadRow
          \/ Waits \/ PacketLost \/ MarkerLost \/ BuildNothing \/ StartBuild
          \/ FetchDiff \/ CopyBundle \/ PlaceBundle \/ CollectorStops
          \/ \E h \in Heads : PruneRead(h)
  <2>1. UNCHANGED ledger /\ packet' = packet
    BY <1>5 DEF List, PruneRemove, ReadClosed, ReconcileDone, ReadRow, Waits,
       PacketLost, MarkerLost, BuildNothing, StartBuild, FetchDiff, CopyBundle,
       PlaceBundle, CollectorStops, PruneRead
  <2>2. col'.pc \notin {"supersede", "hand"}
    <3>1. CollectorIdle.pc = "idle" /\ CollectorIdle \in Collectors
      BY DEF CollectorIdle, Collectors, States
    <3>2. \A r : Decision(r) \notin {"supersede", "hand"}
      BY DEF Decision
    <3>3. CASE ReadRow
      BY <1>1, <3>1, <3>2, <3>3 DEF ReadRow, Collectors
    <3>4. CASE \/ List \/ ReconcileDone \/ Waits \/ BuildNothing
              \/ CollectorStops
      BY <3>1, <3>4 DEF List, ReconcileDone, Waits, BuildNothing,
         CollectorStops, Collectors
    <3>5. CASE \/ PruneRemove \/ ReadClosed \/ PacketLost \/ MarkerLost
              \/ StartBuild \/ FetchDiff \/ CopyBundle \/ PlaceBundle
      BY <1>1, <3>5 DEF PruneRemove, ReadClosed, PacketLost, MarkerLost,
         StartBuild, FetchDiff, CopyBundle, PlaceBundle, Goto, Collectors
    <3>6. CASE \E h \in Heads : PruneRead(h)
      BY <1>1, <3>6 DEF PruneRead, At, Collectors
    <3> QED
      BY <1>5, <3>3, <3>4, <3>5, <3>6
  <2> QED
    BY <1>1, <1>4, <2>1, <2>2 DEF RowsStay, ledger
<1>6. CASE PruneFinish \/ (\E h \in Heads : ReconcileClosed(h))
          \/ Revive \/ AdoptBundle
  <2>1. RowsStay
    BY <1>1, <1>6, TransactionsKeepRows
       DEF PruneFinish, ReconcileClosed, Revive, AdoptBundle, TypeInv,
           CollectorOK, At
  <2>2. col'.pc \notin {"supersede", "hand"}
    <3>1. CASE PruneFinish
      BY <1>1, <3>1 DEF PruneFinish, Goto, Collectors
    <3>2. CASE \E h \in Heads : ReconcileClosed(h)
      BY <1>1, <3>2 DEF ReconcileClosed, At, Collectors
    <3>3. CASE Revive
      <4>1. \E s : col' = [col EXCEPT !.pc = "build", !.seen = s]
        BY <3>3 DEF Revive
      <4> QED
        BY <1>1, <4>1 DEF Collectors
    <3>4. CASE AdoptBundle
      BY <3>4 DEF AdoptBundle, CollectorIdle
    <3> QED
      BY <1>6, <3>1, <3>2, <3>3, <3>4
  <2>3. \A h \in Heads : packet'[h] # NoPacket => packet[h] # NoPacket
    BY <1>1, <1>6 DEF PruneFinish, ReconcileClosed, Revive, AdoptBundle
  <2> QED
    BY <1>4, <2>1, <2>2, <2>3
<1>7. CASE MarkRow \/ RecordRow
  <2>1. /\ col.listed \in Heads /\ col'.listed = col.listed /\ packet' = packet
        /\ MarkReusing(col.listed) \/ Record(col.listed)
    BY <1>1, <1>3, <1>7 DEF MarkRow, RecordRow, At, Goto, Collectors
  <2>2. RowsStay /\ row'[col.listed].state # "absent"
    BY <1>1, <2>1, TransactionsKeepRows
  <2> QED
    BY <1>4, <2>1, <2>2
<1>8. CASE SupersedeOlder
  <2>1. /\ col.listed \in Heads /\ row[col.listed].state # "absent"
        /\ packet' = packet /\ Supersede(col.listed)
        /\ col'.pc \in {"supersede", "hand"} => col'.listed = col.listed
    BY <1>1, <1>3, <1>8 DEF SupersedeOlder, At, RowInv, CollectorIdle,
       Collectors
  <2>2. RowsStay
    BY <1>1, <2>1, TransactionsKeepRows
  <2> QED
    BY <1>4, <2>1, <2>2 DEF RowsStay
<1>9. CASE HandPacket
  <2>1. /\ col.listed \in Heads /\ row[col.listed].state # "absent"
        /\ packet' = [packet EXCEPT ![col.listed] = col.copy]
        /\ UNCHANGED ledger /\ col'.pc = "idle"
    BY <1>3, <1>9 DEF HandPacket, At, RowInv, CollectorIdle
  <2> QED
    BY <1>1, <1>4, <2>1 DEF RowsStay, ledger
<1> QED
  BY <1>5, <1>6, <1>7, <1>8, <1>9 DEF Collect

LEMMA WorkerRows ==
    ASSUME TypeInv, RowInv, NEW w \in Workers,
           Review(w) \/ WriteInvalid(w) \/ WorkerDies(w)
    PROVE  RowInv'
<1>1. LedgerTypeOK /\ packet \in [Heads -> Packets \cup {NoPacket}]
      /\ work \in [Workers -> WorkerStates] /\ col' = col
  BY DEF TypeInv, FilesOK, WorkersOK, Review, WriteInvalid, WorkerDies, Lease,
     LeaseNothing, Skip, BeginReview, WriteReview, Writes, WorkersOnly
<1>2. \A v \in Workers : work[v].pc # "idle" => work[v].head \in Heads
  BY DEF TypeInv, WorkersOK, WorkerOK
<1>3. col.pc \in {"supersede", "hand"} => col.listed \in Heads
  BY DEF TypeInv, CollectorOK
<1>4. ASSUME RowsStay,
             \A h \in Heads : packet'[h] # NoPacket =>
                packet[h] # NoPacket \/ row'[h].state # "absent",
             \A v \in Workers : v # w => work'[v] = work[v],
             work'[w].pc # "idle" => work'[w].head \in Heads
                                     /\ row'[work'[w].head].state # "absent"
      PROVE  RowInv'
  BY <1>1, <1>2, <1>3, <1>4 DEF RowInv, RowsStay, PacketHasRow
<1>5. ASSUME NEW h \in Heads, Lease(w, h)
      PROVE  RowInv'
  <2>1. RowsStay /\ row'[h].state # "absent"
    BY <1>1, <1>5, TransactionsKeepRows DEF Lease
  <2> QED
    BY <1>1, <1>4, <1>5, <2>1 DEF Lease
<1>6. CASE LeaseNothing(w)
  <2>1. \E h \in Heads : Claimable(h)
    BY <1>6 DEF LeaseNothing, ClaimNothing
  <2>2. RowsStay
    BY <1>1, <1>6, <2>1, TransactionsKeepRows DEF LeaseNothing
  <2> QED
    BY <1>2, <1>4, <1>6, <2>2 DEF LeaseNothing, RowInv, RowsStay
<1>7. CASE Skip(w)
  <2>1. RowsStay
    BY <1>1, <1>2, <1>7, TransactionsKeepRows DEF Skip
  <2> QED
    BY <1>1, <1>4, <1>7, <2>1 DEF Skip, WorkerIdle
<1>8. CASE BeginReview(w)
  BY <1>1, <1>2, <1>4, <1>8 DEF BeginReview, WorkerStates, RowInv, RowsStay,
     ledger
<1>9. ASSUME NEW v, Writes(w, v)
      PROVE  RowInv'
  <2>1. work[w].head \in Heads /\ row[work[w].head].state # "absent"
    BY <1>2, <1>9 DEF Writes, RowInv
  <2> QED
    BY <1>1, <1>4, <1>9, <2>1 DEF Writes, WorkerIdle, RowsStay, ledger
<1>10. CASE WorkerDies(w)
  BY <1>1, <1>4, <1>10 DEF WorkerDies, WorkerIdle, RowsStay, ledger
<1> QED
  BY <1>5, <1>6, <1>7, <1>8, <1>9, <1>10 DEF Review, WriteReview, WriteInvalid

LEMMA RowStep ==
    ASSUME TypeInv, RowInv, [Next]_vars
    PROVE  RowInv'
<1>1. LedgerTypeOK /\ packet \in [Heads -> Packets \cup {NoPacket}]
      /\ Heads # {}
  BY DEF TypeInv, FilesOK, GithubOK
<1>2. UNCHANGED ledger => RowsStay
  BY <1>1, TransactionsKeepRows
<1>3. CASE \/ Close \/ Reopen \/ Ask \/ RequestStops \/ PublisherStops
          \/ UNCHANGED vars \/ \E h \in Heads : Push(h)
  BY <1>2, <1>3, PacketsWithRows DEF Close, Reopen, Ask, RequestStops,
     PublisherStops, Push, AuthorOnly, RequestOnly, vars, files, boxes
<1>4. ASSUME NEW h \in Heads, Tick(h)
      PROVE  RowInv'
  BY <1>1, <1>4, TransactionsKeepRows, PacketsWithRows DEF Tick, files, boxes
<1>5. CASE Publish
  <2>1. RowsStay
    <3>1. CASE FailRow \/ StaleRow \/ FinishPublished
      BY <1>1, <3>1, TransactionsKeepRows DEF FailRow, StaleRow,
         FinishPublished, Pub, TypeInv, PublisherOK
    <3>2. CASE ~(FailRow \/ StaleRow \/ FinishPublished)
      BY <1>2, <1>5, <3>2 DEF Publish, TakePacket, RejectPacket, LookAtHead,
         DiscardPacket, SpendStale, TossBundle, PostReview, PostCheck,
         WriteMarker, SpendPublished, FilePacket, RetireBundle
    <3> QED
      BY <3>1, <3>2
  <2>2. /\ UNCHANGED <<col, work>>
        /\ packet' = packet \/ packet' = [packet EXCEPT ![pub.head] = NoPacket]
    BY <1>5 DEF Publish, TakePacket, RejectPacket, FailRow, LookAtHead,
       DiscardPacket, StaleRow, SpendStale, TossBundle, PostReview, PostCheck,
       WriteMarker, FinishPublished, SpendPublished, FilePacket, RetireBundle,
       PublisherOnly, files, boxes
  <2> QED
    BY <1>1, <2>1, <2>2, PacketsWithRows
<1>6. CASE Request
  <2>1. RowsStay
    BY <1>1, <1>2, <1>6, TransactionsKeepRows DEF Request, AskDropsBundle,
       AskDropsPacket, AskDropsMarker, AskRequeues, TypeInv, RequestOK
  <2>2. /\ UNCHANGED <<col, work>>
        /\ packet' = packet \/ packet' = [packet EXCEPT ![ask.head] = NoPacket]
    BY <1>6 DEF Request, AskDropsBundle, AskDropsPacket, AskDropsMarker,
       AskRequeues, RequestOnly
  <2> QED
    BY <1>1, <2>1, <2>2, PacketsWithRows
<1> QED
  BY <1>3, <1>4, <1>5, <1>6, CollectorRows, WorkerRows DEF Next

\* Whatever the programs and the operator do meanwhile, a packet that any of them
\* has left in review-out is of a head that the ledger knows.
THEOREM PacketAlwaysHasRow == Spec => []PacketHasRow
<1>1. Init => RowInv
  BY DEF Init, RowInv, PacketHasRow, WorkerIdle, CollectorIdle
<1>2. RowInv => PacketHasRow
  BY DEF RowInv
<1> QED
  BY <1>1, <1>2, TypeInit, TypeStep, RowStep, PTL DEF Spec
=============================================================================
