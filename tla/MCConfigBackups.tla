-------------------------- MODULE MCConfigBackups --------------------------
(* Instances of ConfigBackups for TLC.                                     *)
EXTENDS ConfigBackups

CONSTANTS r1, r2, job, script, poller
=============================================================================
