------------------------ MODULE LicenceSessionClaims ------------------------
(* A statement of the licence code's own documentation that LicenceSession   *)
(* does not satisfy.                                                         *)
EXTENDS LicenceSession

Unresolved(r) == r \in ingress /\ r.id \notin indexed

\* "Lock/logout/removal/epoch invalidation tears the session down through
\* stop(); a submitted encrypted pending transaction survives in the durable
\* journal for query-first reconciliation after the next authentication"
\* (licence-session.ts:16).  So once the session is gone no continuation begins
\* to clear a journal that holds a submitted transaction not indexed yet.
JournalSurvivesLock ==
    [][~authenticated /\ Unresolved(journal) =>
         \A t \in Tasks : task'[t].at = "clear" => task[t].at = "clear"]_vars
=============================================================================
