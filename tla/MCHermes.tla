------------------------------ MODULE MCHermes ------------------------------
(* The agent, the runner and the backups on a host with two alerts. *)
EXTENDS HermesHost

\* Notices and the ledger, requests and the runner, one backup with what goes wrong
\* beside it, two backups one after the other or at a time, with a notice or with a
\* message and a mishap, and all of it together.
Alerts == [notices |-> 3, chats |-> 0, asks |-> 0, mishaps |-> 1, pauses |-> 1,
           backups |-> 0]
Requests == [notices |-> 0, chats |-> 2, asks |-> 2, mishaps |-> 1,
             pauses |-> 0, backups |-> 0]
Backup == [notices |-> 1, chats |-> 1, asks |-> 0, mishaps |-> 2,
           pauses |-> 0, backups |-> 1]
Overlap == [notices |-> 1, chats |-> 0, asks |-> 0, mishaps |-> 0,
            pauses |-> 0, backups |-> 2]
CutOverlap == [notices |-> 0, chats |-> 1, asks |-> 0, mishaps |-> 1,
               pauses |-> 0, backups |-> 2]
Together == [notices |-> 1, chats |-> 0, asks |-> 1, mishaps |-> 1,
             pauses |-> 0, backups |-> 1]
SmallWorlds == {Alerts, Requests, Backup, Overlap, CutOverlap, Together}

\* The backups differ in nothing but their name.
Symmetry == Permutations(Supervisors)
=============================================================================
