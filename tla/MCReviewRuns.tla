---------------------------- MODULE MCReviewRuns ----------------------------
\* Two claims, of which the Routing Rule selects one or both, and two or three Runs.
EXTENDS ReviewRuns, TLC
CONSTANTS c1, c2
NoClaims     == {}
OneClaim     == {c1}
TwoClaims    == {c1, c2}
MCReportRank == [c \in Claims |-> IF c = c1 THEN 2 ELSE 1]
MCSymmetry   == Permutations(Runs)
=============================================================================
