---------------------------- MODULE MCOnboarding -----------------------------
(* Any number of flows one after the other, each with three candidates (one  *)
(* and then two derived ones, or three generated), two files, two lookups, a *)
(* revocation by another tab, and one thing the flow before left behind.     *)
EXTENDS Onboarding
=============================================================================
