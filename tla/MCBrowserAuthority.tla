------------------------- MODULE MCBrowserAuthority -------------------------
(* Model values of the BrowserAuthority runs.                                *)
EXTENDS BrowserAuthority, TLC

CONSTANTS c1, t1, t2, alice, bob

MCClients    == {c1}
MCTasks      == {t1, t2}
MCIdentities == {alice, bob}
MCIdentity   == {alice}
TaskSymmetry == Permutations(MCTasks)
Symmetry     == TaskSymmetry \cup Permutations(MCIdentities)

\* Where the properties about users promise something: `late` never shrinks.
SessionUntouched == "session" \notin late

\* A tab that has disconnected does nothing a connected one could not do, and
\* nothing else reads the channels: the tab leaves only with a revocation, and
\* comes back before anything else happens.
Connected ==
    /\ channels = {} => channels' # {}
    /\ channels' = {} => <<engine, task>>' # <<engine, task>>
=============================================================================
