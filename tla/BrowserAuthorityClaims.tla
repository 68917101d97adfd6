------------------------ MODULE BrowserAuthorityClaims ------------------------
(* What comments of the authority and the engine say, and what revoked       *)
(* operations that keep running make of it.                                  *)
EXTENDS MCBrowserAuthority

\* authority.ts:209: "Lock revokes any in-flight result immediately."  No
\* operation of an earlier epoch gives the engine a session.
LockRevokes ==
    [][ session.kind = "none" /\ session'.kind # "none"
        => \A t \in Tasks : task'[t] # task[t] => ~task[t].stale ]_vars
=============================================================================
