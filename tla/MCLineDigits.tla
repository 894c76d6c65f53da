---------------------------- MODULE MCLineDigits ----------------------------
(* Instances of LineDigits for TLC.                                        *)
EXTENDS LineDigits

\* A call of line 1, the leg a menu dials to line 2 for it, and the two halves of
\* the script's channel.
CONSTANTS a, leg, near, far

MCHandset == [c \in {a, leg, near, far} |->
                 IF c = a THEN "1" ELSE IF c = leg THEN "2" ELSE NoLine]
LineOne   == [c \in {a, leg, near, far} |-> "1"]
\* The script calls for line 2 (--caller 1002).
ScriptTwo == [c \in {a, leg, near, far} |-> IF c \in {a, leg} THEN "1" ELSE "2"]
OneDialled == [c \in {a, leg, near, far} |-> IF c = a THEN 1 ELSE 0]
OneKey     == [c \in {a, leg, near, far} |-> 1]
NoneDialled == [c \in {a, leg, near, far} |-> 0]
=============================================================================
