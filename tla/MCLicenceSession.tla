-------------------------- MODULE MCLicenceSession --------------------------
(* LicenceSession on a small instance, for TLC.                              *)
EXTENDS LicenceSession, TLC

Sym == Permutations(Tasks)
=============================================================================
