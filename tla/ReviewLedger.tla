---------------------------- MODULE ReviewLedger ----------------------------
(***************************************************************************)
(* The SQLite ledger of the PR review queue (src/scripts/pr-review/        *)
(* ledger.py): the rows of one pull request, one per head, and the         *)
(* statements that move them.  Every definition below is one transaction.  *)
(*                                                                         *)
(* requested_at is kept as the order it induces: later[h] are the heads    *)
(* requested after h.  A lease's expiry and the age of a failure are kept  *)
(* as one flag, due, that the passage of time sets.  The owner of a lease  *)
(* is left out: no statement ever reads it.                                *)
(***************************************************************************)
EXTENDS Naturals

CONSTANTS
    Heads,       \* the commits the pull request's branch may point to
    MaxAttempts  \* claim.py's --max-attempts

ASSUME LedgerAssumption == MaxAttempts \in Nat \ {0}

VARIABLES
    row,         \* the ledger's row of each head
    later        \* the heads requested after each head

ledger == <<row, later>>

States == {"absent", "queued", "leased", "published", "stale", "failed",
           "reusing"}
Row ==
    [state    : States,
     attempts : 0 .. MaxAttempts,
     due      : BOOLEAN]

Entry(s) == [state |-> s, attempts |-> 0, due |-> FALSE]
Ends(r, s) == [r EXCEPT !.state = s, !.due = FALSE]

LedgerTypeOK == row \in [Heads -> Row] /\ later \in [Heads -> SUBSET Heads]
LedgerInit ==
    /\ row = [h \in Heads |-> Entry("absent")]
    /\ later = [h \in Heads |-> {}]

Expired(r) == r.state = "leased" /\ r.due
LiveLease(r) == r.state = "leased" /\ ~r.due
Claimable(h) == row[h].state = "queued" \/ Expired(row[h])
\* Mutant: the attempts are counted and never compared.
AnyBudget(h) == TRUE
HasBudget(h) == row[h].attempts < MaxAttempts

\* requested_at = now
RequestedNow(h) ==
    later' = [g \in Heads |-> IF g = h THEN {} ELSE later[g] \cup {h}]

\* record: the base and the bundle of a row that is already queued are updated.
Record(h) ==
    IF row[h].state = "absent"
    THEN row' = [row EXCEPT ![h] = Entry("queued")] /\ RequestedNow(h)
    ELSE UNCHANGED ledger

\* finish, finish_bundle: published is terminal here.
Finish(h, s) ==
    /\ row' = IF row[h].state \in {"absent", "published"} THEN row
              ELSE [row EXCEPT ![h] = Ends(@, s)]
    /\ UNCHANGED later

Supersede(h) ==
    /\ row' = [g \in Heads |->
                 IF g # h /\ (row[g].state \in {"queued", "failed"}
                                \/ Expired(row[g]))
                 THEN Ends(row[g], "stale") ELSE row[g]]
    /\ UNCHANGED later

Requeue(h) ==
    IF row[h].state \in {"failed", "stale", "published", "reusing"}
    THEN row' = [row EXCEPT ![h] = Entry("queued")] /\ RequestedNow(h)
    ELSE UNCHANGED ledger

MarkReusing(h) ==
    CASE row[h].state = "absent" ->
            row' = [row EXCEPT ![h] = Entry("reusing")] /\ RequestedNow(h)
      [] row[h].state \in {"queued", "failed", "stale"} ->
            row' = [row EXCEPT ![h] = Entry("reusing")] /\ UNCHANGED later
      [] OTHER -> UNCHANGED ledger

\* claim's loop fails the exhausted rows it meets on its way to the oldest
\* claimable row with attempts left, and leases that one.
Claim(h) ==
    /\ Claimable(h) /\ HasBudget(h)
    /\ \A g \in Heads : Claimable(g) /\ HasBudget(g) => h \notin later[g]
    /\ row' = [g \in Heads |->
                 IF g = h THEN [state |-> "leased", due |-> FALSE,
                                attempts |-> row[h].attempts + 1]
                 ELSE IF Claimable(g) /\ h \in later[g]
                 THEN Ends(row[g], "failed") ELSE row[g]]
    /\ UNCHANGED later

\* It finds only exhausted rows.
ClaimNothing ==
    /\ \E h \in Heads : Claimable(h)
    /\ \A h \in Heads : Claimable(h) => ~HasBudget(h)
    /\ row' = [h \in Heads |-> IF Claimable(h) THEN Ends(row[h], "failed")
                               ELSE row[h]]
    /\ UNCHANGED later

HasNewerHead(h) ==
    \E g \in later[h] : row[g].state \in {"queued", "leased", "published"}

\* A lease expires, or a failure is older than --retry-after-minutes.
TimePasses(h) ==
    /\ row[h].state \in {"leased", "failed"} /\ ~row[h].due
    /\ row' = [row EXCEPT ![h].due = TRUE]
    /\ UNCHANGED later
=============================================================================
