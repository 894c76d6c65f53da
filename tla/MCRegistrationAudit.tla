------------------------ MODULE MCRegistrationAudit ------------------------
(* Instances of RegistrationAudit for TLC.                                 *)
EXTENDS RegistrationAudit, TLC

CONSTANTS r1, r2, tcp, tls

Symmetry == Permutations({r1, r2}) \union Permutations({tcp, tls})

=============================================================================
