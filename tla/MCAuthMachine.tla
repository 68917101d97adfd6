---------------------------- MODULE MCAuthMachine ----------------------------
(* Two accesses and more of one machine, any number of machines, one         *)
(* election query each; connectivity and the other tabs are unbounded.       *)
EXTENDS AuthMachine
=============================================================================
