----------------------------- MODULE AlertLedger -----------------------------
(***************************************************************************)
(* The ledger of the alert-dedupe plugin and what it says of a notice:     *)
(* the pure part of hermes-plugins/alert-dedupe/__init__.py.               *)
(*                                                                         *)
(* A ledger maps the alert families it knows to their episodes, the oldest *)
(* first; a missing file loads as the empty ledger, and a file that cannot *)
(* be read as Corrupt.  A notice is a sequence of alert instances; a       *)
(* message that holds no alert is the empty one.  Threads, labels and the  *)
(* wording of the notes are left out.                                      *)
(***************************************************************************)
EXTENDS Integers, Sequences, SequencesExt, FiniteSetsExt

CONSTANTS
    Corrupt,        \* a ledger file that cannot be read
    MaxEpisodes,    \* MAX_EPISODES_PER_FAMILY
    MaxFamilies,    \* MAX_FAMILIES
    MaxAge          \* MAX_AGE_SECONDS, in commits

Empty == [f \in {} |-> <<>>]

Episodes(ledger, f) == IF f \in DOMAIN ledger THEN ledger[f] ELSE <<>>

Places(ledger, f, since) ==
    {i \in DOMAIN Episodes(ledger, f) : Episodes(ledger, f)[i].since = since}

Find(ledger, f, since) == Episodes(ledger, f)[Max(Places(ledger, f, since))]

Open(ledger, f, since) ==
    /\ Places(ledger, f, since) # {}
    /\ ~Find(ledger, f, since).resolved

\* The elements of a finite set of numbers, in order.
Ascending(S) ==
    CHOOSE s \in [1 .. Cardinality(S) -> S] :
        \A m, n \in 1 .. Cardinality(S) : m < n => s[m] < s[n]

\* What a comprehension over a list keeps of it: the elements at some places.
Keeping(s, places) ==
    [n \in 1 .. Cardinality(places) |-> s[Ascending(places)[n]]]

-----------------------------------------------------------------------------
(* What the ledger says of a notice. *)

\* An episode that starts again after its resolved notice is new; another
\* start of a known family is a new episode.
InstanceKind(ledger, i) ==
    IF Open(ledger, i.family, i.since) THEN "repeat"
    ELSE IF Places(ledger, i.family, i.since) # {} THEN "new"
    ELSE IF Episodes(ledger, i.family) # <<>> THEN "new_episode"
    ELSE "new"

InstanceCount(ledger, i) ==
    IF Open(ledger, i.family, i.since)
    THEN Find(ledger, i.family, i.since).count + 1 ELSE 1

\* Mutant: one alert that was seen makes the notice a repeat.
FiringKindOfAny(kinds) ==
    IF "repeat" \in kinds THEN "repeat"
    ELSE IF "new" \in kinds THEN "new" ELSE "new_episode"

FiringKind(kinds) ==
    IF "new" \in kinds THEN "new"
    ELSE IF "new_episode" \in kinds THEN "new_episode" ELSE "repeat"

Verdict(kind, notice, count) ==
    [kind |-> kind, family |-> notice[1].family, since |-> notice[1].since,
     count |-> count]

NoVerdict == [kind |-> "none", family |-> 0, since |-> 0, count |-> 0]

Classify(ledger, notice) ==
    IF notice = <<>> THEN NoVerdict
    ELSE IF ledger = Corrupt THEN Verdict("unknown", notice, 0)
    ELSE IF \A n \in DOMAIN notice : notice[n].resolved
    THEN Verdict("resolved", notice, 0)
    ELSE Verdict(FiringKind({InstanceKind(ledger, i) : i \in Range(notice)}),
                 notice,
                 Max({InstanceCount(ledger, i) : i \in Range(notice)}))

-----------------------------------------------------------------------------
(* What a commit writes.  Only the first instance of a notice is counted.  *)

Resolved(ledger, v, now) ==
    IF Places(ledger, v.family, v.since) = {} THEN ledger
    ELSE LET p == Max(Places(ledger, v.family, v.since))
         IN  [ledger EXCEPT ![v.family][p].resolved = TRUE,
                            ![v.family][p].seen = now]

Newest(episodes) ==
    SubSeq(episodes, Max({1, Len(episodes) - MaxEpisodes + 1}), Len(episodes))

\* Mutant: the count that was announced is written.
CountedAsAnnounced(ledger, v, now) ==
    LET old == Episodes(ledger, v.family)
        at == Places(ledger, v.family, v.since)
    IN  IF at = {}
        THEN Append(old, [since |-> v.since, count |-> v.count,
                          resolved |-> FALSE, seen |-> now])
        ELSE [old EXCEPT ![Max(at)].count = v.count,
                         ![Max(at)].resolved = FALSE,
                         ![Max(at)].seen = now]

\* Mutant: an episode that was resolved is not found again.
CountedUnlessResolved(ledger, v, now) ==
    LET old == Episodes(ledger, v.family)
        at == Places(ledger, v.family, v.since)
    IN  IF ~Open(ledger, v.family, v.since)
        THEN Append(old, [since |-> v.since, count |-> 1,
                          resolved |-> FALSE, seen |-> now])
        ELSE [old EXCEPT ![Max(at)].count = @ + 1, ![Max(at)].seen = now]

\* The episodes of the family, with this one counted again or added.
Counted(ledger, v, now) ==
    LET old == Episodes(ledger, v.family)
        at == Places(ledger, v.family, v.since)
    IN  IF at = {}
        THEN Append(old, [since |-> v.since, count |-> 1,
                          resolved |-> FALSE, seen |-> now])
        ELSE [old EXCEPT ![Max(at)].count = @ + 1,
                         ![Max(at)].resolved = FALSE,
                         ![Max(at)].seen = now]

Sighted(ledger, v, now) ==
    [f \in DOMAIN ledger \cup {v.family} |->
        IF f = v.family THEN Newest(Counted(ledger, v, now)) ELSE ledger[f]]

LastSeen(episodes) == Max({e.seen : e \in Range(episodes)})

Young(episodes, now) ==
    Newest(Keeping(episodes, {i \in DOMAIN episodes :
                                 now - episodes[i].seen <= MaxAge}))

Pruned(ledger, now) ==
    LET young == [f \in DOMAIN ledger |-> Young(ledger[f], now)]
        kept == {f \in DOMAIN ledger : young[f] # <<>>}
        Later(f) == {g \in kept : LastSeen(young[g]) > LastSeen(young[f])}
    IN  [f \in {g \in kept : Cardinality(Later(g)) < MaxFamilies} |-> young[f]]

Commit(ledger, v, now) ==
    Pruned(IF v.kind = "resolved" THEN Resolved(ledger, v, now)
                                  ELSE Sighted(ledger, v, now), now)
=============================================================================
