------------------------------ MODULE MCIVRApp ------------------------------
(* Instances of IVRApp for TLC.                                            *)
EXTENDS IVRApp, TLC

\* The channel of one call, and of one leg it may dial.
CONSTANTS a, out

\* Two digits of the caller, of which the order can be confused, and one of the leg.
TwoAndOne  == [c \in {a, out} |-> IF c = a THEN 2 ELSE 1]
OneForEach == [c \in {a, out} |-> 1]
=============================================================================
