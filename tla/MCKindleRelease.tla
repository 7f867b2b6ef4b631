--------------------------- MODULE MCKindleRelease ---------------------------
(* The Kindle release agent on small histories of origin/main. *)
EXTENDS KindleRelease

CONSTANTS r1, r2, r3

\* Commit 2 changes something else; commits 3 and 4 each pin a new release.
PinnedWithUnrelated == <<r1, r1, r2, r3>>

\* Each commit pins another release than the one before; commit 4 goes back to
\* an earlier one.
PinnedEachCommit == <<r1, r2, r3, r2>>
=============================================================================
