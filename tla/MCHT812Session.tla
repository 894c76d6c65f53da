--------------------------- MODULE MCHT812Session ---------------------------
(* Instances of HT812Session for TLC.                                      *)
EXTENDS HT812Session, TLC

CONSTANTS h1, h2, poller

\* Two API handlers and the poller; only handlers are interchangeable.
MCCallers    == {h1, h2, poller}
MCSmallCallers == {h1, poller}
MCBackground == {poller}
Symmetry     == Permutations({h1, h2})
=============================================================================
