------------------------------ MODULE MCServarr ------------------------------
(* The revision of one host on a short history of origin/main. *)
EXTENDS ServarrRevision

CONSTANTS s1, s2

\* The rollback commit 1 and the forward commit 2 have different secrets;
\* commit 3 has none.
DifferentSecrets == <<s1, s2, NoSecret>>
=============================================================================
