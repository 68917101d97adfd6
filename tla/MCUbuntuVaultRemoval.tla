------------------------- MODULE MCUbuntuVaultRemoval -------------------------
(* Instance of UbuntuVaultRemoval: one wrapping key, two generations (a       *)
(* rollback slot and one commit over it), two faults.                        *)
EXTENDS UbuntuVaultRemoval

CONSTANT k1

MCKeys == {k1}
=============================================================================
