--------------------------- MODULE KindlePromotion ---------------------------
(***************************************************************************)
(* What the Kindle release agent promises, without phases, files or        *)
(* crashes: one release of origin/main is the baseline; one attempt at a   *)
(* time is made to replace it, always at the next release in history       *)
(* order; the attempt becomes the baseline only while its verified release *)
(* serves, and is given up only while the baseline's release serves again. *)
(***************************************************************************)
EXTENDS Integers

CONSTANTS N, Pinned, Signed, Healthy

Commits == 1 .. N
None == 0

VARIABLES
    main,      \* the newest commit of origin/main
    serving,   \* the release that runs, or something that is no release
    baseline,  \* the commit the agent stands by, or None
    attempt    \* the commit it tries to promote, or None

vars == <<main, serving, baseline, attempt>>

Serves(c) == serving = Pinned[c] /\ serving \in Healthy

\* d is the next release after c: none in between differs from c's.
NextRelease(d, c) ==
    /\ c < d /\ d <= main
    /\ Pinned[d] # Pinned[c]
    /\ \A e \in Commits : c < e /\ e < d => Pinned[e] = Pinned[c]

Init == baseline = None /\ attempt = None

Adopt == \E c \in Commits :
    /\ baseline = None
    /\ Pinned[c] \in Signed /\ Serves(c)
    /\ baseline' = c
    /\ UNCHANGED <<main, serving, attempt>>

Begin == \E d \in Commits :
    /\ baseline # None /\ attempt = None
    /\ NextRelease(d, baseline)
    /\ attempt' = d
    /\ UNCHANGED <<main, serving, baseline>>

Promote ==
    /\ attempt # None
    /\ Pinned[attempt] \in Signed /\ Serves(attempt)
    /\ baseline' = attempt /\ attempt' = None
    /\ UNCHANGED <<main, serving>>

GiveUp ==
    /\ attempt # None
    /\ Serves(baseline)
    /\ attempt' = None
    /\ UNCHANGED <<main, serving, baseline>>

\* origin/main grows, and what runs changes, for any reason.
Environment ==
    /\ main' >= main
    /\ UNCHANGED <<baseline, attempt>>

Next == Adopt \/ Begin \/ Promote \/ GiveUp \/ Environment

Spec == Init /\ [][Next]_vars
=============================================================================
