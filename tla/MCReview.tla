------------------------------ MODULE MCReview ------------------------------
(***************************************************************************)
(* Small instances of ReviewPipeline for TLC: a pull request whose branch  *)
(* points to head 1 and may be pushed to head 2, or back.                  *)
(***************************************************************************)
EXTENDS ReviewPipeline

PushOnce == {<<1, 2>>}
PushBack == {<<1, 2>>, <<2, 1>>}

\* The two heads differ, or the second is a rebase of the first.
EachItsDiff == [h \in Heads |-> h]
OneDiff == [h \in Heads |-> 1]

Clean == {"success"}
Either == {"success", "failure"}
=============================================================================
