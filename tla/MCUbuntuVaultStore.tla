-------------------------- MODULE MCUbuntuVaultStore --------------------------
(* Instance of the store for TLC: two wrapping keys and three generations,   *)
(* enough for a commit on top of a retained slot and for a rollback over it. *)
EXTENDS UbuntuVaultStore

CONSTANTS k1, k2

MCKeys == {k1, k2}
=============================================================================
