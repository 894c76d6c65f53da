---------------------------- MODULE MCFXSPoller ----------------------------
(* Instances of FXSPoller for TLC.                                         *)
EXTENDS FXSPoller

\* A firmware that writes hook states in words.
InWords == [h \in Hooks |-> IF h = "0" THEN "on hook" ELSE "off hook"]
=============================================================================
