--------------------------- MODULE LicenceSession ---------------------------
(* The licence bootstrap of the browser authority: LicenceBootstrapSession   *)
(* (browser-vault/production/licence-session.ts) hosts one                   *)
(* LicenceEntitlementCoordinator (licensing/coordinator.ts), which asks the  *)
(* network which licence is active, builds the free baseline when there is   *)
(* none, and seals one confirmed upgrade on request.  Pending transactions   *)
(* live in an in-memory mirror that every step flushes to the encrypted      *)
(* journal of the vault.                                                     *)
(*                                                                           *)
(* The worker has one thread.  Two kinds of task run on it, interleaved at   *)
(* their awaits: the operation the authority's lane admits, and the pumps of *)
(* the one-second loop (production/worker-env.ts).  A task that a lock or a  *)
(* cancel overtakes is not stopped; its continuation runs on, on a session   *)
(* that has been torn down.                                                  *)
(*                                                                           *)
(* A journal write or clear is one atomic storage operation here, in any     *)
(* order with the others.  Time only enables: a poll that is due, a window   *)
(* that has run out, a boundary that has passed are choices.  One identity,  *)
(* one network.                                                              *)
EXTENDS Naturals

CONSTANTS
    Tasks,           \* continuations alive at once
    MaxTx,           \* bound on the transactions minted
    MaxSessions,     \* bound on the session objects alive at once
    MaxFaults,       \* bound on locks, worker deaths, storage failures, and index
                     \* changes made by others
    MaxOperations    \* bound on the operations the pages send

ASSUME LicenceAssumption ==
    /\ MaxTx \in Nat
    /\ MaxSessions \in Nat \ {0}
    /\ MaxFaults \in Nat
    /\ MaxOperations \in Nat

VARIABLES
    authenticated,  \* the engine holds an authenticated session
    journal,        \* the committed licence journal
    current,        \* licenceSession: the session object, if any
    loop,           \* licenceLoopTimer: the chain of the loop it names, if any
    sess,           \* [Sessions -> session object and its coordinator]
    task,           \* [Tasks -> state of the continuation]
    minted,         \* number of transaction identities minted
    index,          \* the active licence reference in the network's index
    indexed,        \* the references that have been active at some time
    ingress,        \* transactions the network has received
    faults, operations  \* counters of what the bounds cap

worker  == <<authenticated, current, loop>>
network == <<index, indexed, ingress>>
vars    == <<worker, journal, sess, task, minted, network, faults, operations>>

NoLicence == 0
Tx        == 1 .. MaxTx
Foreign   == MaxTx + 1             \* a licence some other device activated
Ref       == 0 .. MaxTx + 1
NoSession == 0
Sessions  == 1 .. MaxSessions

(* A pending record: its transaction, and the licence a confirmed upgrade    *)
(* expects to replace (NoLicence: a baseline).                               *)
Pending   == [id : Tx, expects : Ref]
None      == [id |-> 0, expects |-> NoLicence]
Corrupt   == [id |-> 0, expects |-> Foreign]
IsUpgrade(r) == r # None /\ r.expects # NoLicence

(* entitlementRepair stands for entitlementUnsupported too: neither is polled *)
(* and no step tells them apart.                                             *)
Phases == {"resolving", "baselineSubmitting", "awaitingIndex", "confirmationDelayed",
           "entitlementUnavailable", "entitlementRepair", "entitlementReady",
           "lockedOut"}

Session == [bound : BOOLEAN,           \* coordinator # null
            actor : BOOLEAN,           \* actorSigningAddress # null
            phase : Phases, projection : Ref,
            pendId : 0 .. MaxTx, pendRec : Pending \cup {None},
            inFlight : BOOLEAN, refreshOnly : BOOLEAN,
            success : Pending \cup {None},   \* a retained local-success outcome
            mirror : SUBSET Pending, healthy : BOOLEAN,
            reachable : BOOLEAN,
            waiting : SUBSET Tx]       \* history: built or loaded, and no active
                                       \* licence seen since
NewSession == [bound |-> FALSE, actor |-> FALSE, phase |-> "resolving",
               projection |-> NoLicence, pendId |-> 0, pendRec |-> None,
               inFlight |-> FALSE, refreshOnly |-> FALSE, success |-> None,
               mirror |-> {}, healthy |-> TRUE, reachable |-> TRUE,
               waiting |-> {}]

(* A task is an operation of the lane, an operation overtaken by a lock, or a *)
(* chain of the loop, which waits on its timer between pumps.                *)
Kinds  == {"op", "overtaken", "pump"}
Points == {"idle", "timer", "hydrate", "query", "unsent", "persist", "submit",
           "write", "clear"}

Task == [kind : Kinds, at : Points, s : 0 .. MaxSessions,
         poll : BOOLEAN, retried : BOOLEAN,      \* of the query
         seen : Ref,                             \* the index when the query was sent
         rec : Pending \cup {None},              \* of the submission or the write
         reply : {"none", "accepted", "alreadyExists", "unsaved", "refused"},
         then : {"flush", "pump", "confirm", "review"},
         shown : Ref]                            \* the truth the page displayed
Idle == [kind |-> "overtaken", at |-> "idle", s |-> NoSession, poll |-> FALSE,
         retried |-> FALSE, seen |-> NoLicence, rec |-> None, reply |-> "none",
         then |-> "flush", shown |-> NoLicence]

Chain == [Idle EXCEPT !.kind = "pump", !.at = "timer"]

TypeOK ==
    /\ authenticated \in BOOLEAN
    /\ journal \in Pending \cup {None, Corrupt}
    /\ current \in 0 .. MaxSessions
    /\ loop \subseteq Tasks
    /\ sess \in [Sessions -> Session]
    /\ task \in [Tasks -> Task]
    /\ minted \in 0 .. MaxTx
    /\ index \in Ref /\ indexed \subseteq Ref /\ ingress \subseteq Pending
    /\ faults \in 0 .. MaxFaults /\ operations \in 0 .. MaxOperations

Init ==
    /\ authenticated = FALSE /\ journal = None
    /\ current = NoSession /\ loop = {}
    /\ sess = [s \in Sessions |-> NewSession]
    /\ task = [t \in Tasks |-> Idle]
    /\ minted = 0
    /\ index \in {NoLicence, Foreign} /\ indexed = {index} \ {NoLicence} /\ ingress = {}
    /\ faults = 0 /\ operations = 0

-----------------------------------------------------------------------------
(* What the code does between two awaits.  c is the session and w the task   *)
(* as the synchronous code so far has left them.                             *)

Active(s) == s # NoSession /\ sess[s].bound /\ authenticated
HasPending(c) == c.pendRec # None /\ c.pendId # 0
LiveUpgrade(c) == HasPending(c) /\ IsUpgrade(c.pendRec)
Ready(c) == c.phase = "entitlementReady" /\ c.projection # NoLicence

\* LicenceBootstrapSession.teardown.  Continuations still hold the coordinator.
TornDown(c) == [c EXCEPT !.bound = FALSE, !.actor = FALSE, !.mirror = {},
                         !.healthy = TRUE, !.reachable = TRUE]

\* retirePending, and the two assignments its callers make after it.
RetiredKeepingId(c) == [c EXCEPT !.mirror = {r \in @ : r.id # c.pendId},
                                 !.pendRec = None]
Retired(c) == [c EXCEPT !.mirror = {r \in @ : r.id # c.pendId},
                        !.pendId = 0, !.pendRec = None]

\* findBoundPending: by transaction, else by identity.
BoundById(c) == {r \in c.mirror : r.id = c.pendId}
Bound(c) == LET direct == {r \in c.mirror : r.id = c.pendId}
            IN IF direct # {} THEN direct ELSE c.mirror

\* mirrorSave
Saved(c, r) == IF c.healthy THEN [c EXCEPT !.mirror = @ \cup {r}] ELSE c

\* The task waits at an await of session w.s.
Await(t, c, w) == /\ sess' = [sess EXCEPT ![w.s] = c]
                  /\ task' = [task EXCEPT ![t] = w]
                  /\ UNCHANGED worker

\* stopLicenceLoop: the timer licenceLoopTimer names is cleared, and so is
\* licenceSession.
StopLoop(ts) ==
    /\ loop' = {} /\ current' = NoSession
    /\ task' = [u \in Tasks |-> IF u \in loop /\ ts[u].at = "timer" THEN Idle ELSE ts[u]]

\* Nothing but the task refers to its session any more: it is collected.
Collected(t, c, s) == IF s = current \/ \E u \in Tasks \ {t} : task[u].s = s
                      THEN c ELSE NewSession

\* The task ends.  A pump sets a timer again, which licenceLoopTimer then names,
\* or stops the loop when the session is not active.
Finish(t, c, w) ==
    /\ sess' = [sess EXCEPT ![w.s] = Collected(t, c, w.s)]
    /\ UNCHANGED authenticated
    /\ \/ /\ w.kind # "pump"
          /\ task' = [task EXCEPT ![t] = Idle]
          /\ UNCHANGED <<loop, current>>
       \/ /\ w.kind = "pump" /\ current # NoSession /\ authenticated /\ sess'[current].bound
          /\ task' = [task EXCEPT ![t] = Chain]
          /\ loop' = {t} /\ UNCHANGED current
       \/ /\ w.kind = "pump" /\ ~(current # NoSession /\ authenticated /\ sess'[current].bound)
          /\ StopLoop([task EXCEPT ![t] = Idle])

\* flushDurable: an empty mirror clears the journal.
Flush(t, c, w) ==
    LET f == [Idle EXCEPT !.kind = w.kind, !.s = w.s]
    IN
    \/ c.mirror = {} /\ Await(t, c, [f EXCEPT !.at = "clear"])
    \/ /\ authenticated
       /\ \E r \in c.mirror : Await(t, c, [f EXCEPT !.at = "write", !.rec = r])
    \/ /\ c.mirror # {} /\ ~authenticated
       /\ Finish(t, [c EXCEPT !.healthy = FALSE], w)

\* The first await of runFreshQuery: one freshly signed query.  The network
\* reads its index at once or when the answer arrives: see QueryAnswered.
Asking(w)    == [w EXCEPT !.at = IF authenticated THEN "query" ELSE "unsent",
                          !.seen = index, !.rec = None, !.reply = "none"]
Ask(t, c, w) == Await(t, [c EXCEPT !.inFlight = TRUE], Asking(w))

\* submitPending and submitBaseline up to the journal write.  Without a session
\* an unsigned record is refused and a signed one is not saved.
Submit(t, c, w, r) ==
    LET d == [c EXCEPT !.inFlight = TRUE, !.phase = "baselineSubmitting"]
        v == [w EXCEPT !.rec = r, !.reply = "none", !.seen = NoLicence,
                       !.retried = FALSE, !.poll = FALSE]
    IN \/ authenticated /\ Await(t, d, [v EXCEPT !.at = "persist"])
       \/ /\ ~authenticated
          /\ \/ Await(t, d, [v EXCEPT !.at = "submit", !.reply = "refused"])
             \/ Await(t, [d EXCEPT !.healthy = FALSE],
                      [v EXCEPT !.at = "submit", !.reply = "unsaved"])

\* tick and pumpOnce.  The delay window may have run out; a poll or an expiry
\* recheck may be due.
Delayed(c) == IF LiveUpgrade(c) /\ c.projection # NoLicence THEN c
              ELSE [c EXCEPT !.phase = "confirmationDelayed"]
Polls(c) == \/ c.phase \in {"awaitingIndex", "confirmationDelayed", "entitlementUnavailable"}
            \/ c.phase = "entitlementReady" /\ LiveUpgrade(c)
Tick(t, c, w) ==
    LET free == c.reachable /\ ~c.inFlight
        f    == [w EXCEPT !.then = "flush", !.retried = FALSE]
    IN \/ Flush(t, c, f)
       \/ free /\ Polls(c) /\ Ask(t, c, [f EXCEPT !.poll = TRUE])
       \/ free /\ Ready(c) /\ Ask(t, [c EXCEPT !.phase = "resolving", !.projection = NoLicence],
                                  [f EXCEPT !.poll = FALSE])
Pump(t, c, w) ==
    \/ ~c.bound /\ Finish(t, c, w)
    \/ c.bound /\ ~authenticated /\ Finish(t, TornDown(c), w)
    \/ c.bound /\ authenticated /\ Tick(t, c, w)
    \/ /\ c.bound /\ authenticated /\ c.reachable
       /\ c.phase \in {"awaitingIndex", "baselineSubmitting"}
       /\ Tick(t, Delayed(c), w)

\* confirmUpgrade after its query: the truth the page displayed must still be
\* current and the target still offered.
Confirmed(t, c, w) ==
    LET f == [w EXCEPT !.then = "flush"]
    IN \/ Flush(t, c, f) /\ UNCHANGED minted
       \/ /\ ~LiveUpgrade(c) /\ Ready(c) /\ c.projection = w.shown
          /\ IF ~c.healthy
             THEN Flush(t, [c EXCEPT !.phase = "entitlementRepair"], f) /\ UNCHANGED minted
             ELSE LET r == [id |-> minted + 1, expects |-> c.projection]
                  IN /\ minted < MaxTx /\ minted' = minted + 1
                     /\ Submit(t, [c EXCEPT !.mirror = @ \cup {r}, !.pendRec = r,
                                            !.pendId = r.id, !.waiting = @ \cup {r.id}], f, r)

\* reconcileRejectedUpgrade after its query.
Reviewed(t, c, w) ==
    Flush(t, IF LiveUpgrade(c) /\ Ready(c)
             THEN [Retired(c) EXCEPT !.success = None] ELSE c, w)

\* runFreshQuery has returned: its caller goes on.
Return(t, c, w) ==
    \/ w.then = "flush" /\ Flush(t, c, w) /\ UNCHANGED minted
    \/ w.then = "confirm" /\ Confirmed(t, c, w)
    \/ w.then = "review" /\ Reviewed(t, c, w) /\ UNCHANGED minted
    \/ /\ w.then = "pump" /\ UNCHANGED minted       \* updateEligibility, online
       /\ Pump(t, [c EXCEPT !.reachable = TRUE], w)

FreshQuery(t, c, w) ==
    IF c.inFlight THEN Return(t, c, w)
                  ELSE Ask(t, c, [w EXCEPT !.retried = FALSE]) /\ UNCHANGED minted

\* coordinator.start
Restarted(c) == [c EXCEPT !.projection = NoLicence, !.success = None, !.phase = "resolving"]

\* retryExact
RetryExact(t, c, w) ==
    IF HasPending(c) THEN Submit(t, c, w, c.pendRec) /\ UNCHANGED minted
                     ELSE FreshQuery(t, Restarted(c), w)

\* reconcilePendingAgainstActive, after attachBoundPendingRecordForReconciliation.
ReconciledByAny(c, ref) ==
    IF c.pendId = 0 \/ (IsUpgrade(c.pendRec) /\ ref = c.pendRec.expects) THEN c
    ELSE [Retired(c) EXCEPT !.success = c.pendRec]
Reconciled(c, ref) ==
    IF c.pendId = 0 \/ (IsUpgrade(c.pendRec) /\ ref = c.pendRec.expects) THEN c
    ELSE IF IsUpgrade(c.pendRec)
         THEN [Retired(c) EXCEPT !.success = IF ref = c.pendRec.id THEN c.pendRec ELSE None]
         ELSE Retired(c)
Attached(c) == IF c.pendRec = None /\ c.pendId = 0 /\ Bound(c) # {}
               THEN {[c EXCEPT !.pendRec = r, !.pendId = r.id] : r \in Bound(c)}
               ELSE {c}

\* applyQueryOutcome, ready.
ApplyReady(t, c, w, ref) == \E a \in Attached(c) :
    Return(t, [Reconciled(a, ref) EXCEPT !.inFlight = FALSE, !.refreshOnly = FALSE,
                 !.projection = ref, !.phase = "entitlementReady", !.waiting = {}], w)

\* handleNoActive: a bound record is resubmitted, except by a poll and except a
\* confirmed upgrade; without one a baseline is built, journaled and submitted.
HandleNoActive(t, n, w) ==
    LET c == [n EXCEPT !.projection = NoLicence, !.inFlight = FALSE]
        keep(k) == Return(t, k, w)
    IN IF c.refreshOnly THEN keep([c EXCEPT !.phase = "entitlementUnavailable"])
       ELSE \/ \E r \in Bound(c) :
                 LET b == [c EXCEPT !.pendRec = r, !.pendId = r.id]
                 IN IF IsUpgrade(r) \/ (w.poll /\ b.phase # "confirmationDelayed")
                    THEN keep([b EXCEPT !.phase = "awaitingIndex"])
                    ELSE IF w.poll THEN keep(b)
                    ELSE Submit(t, b, w, r) /\ UNCHANGED minted
            \/ /\ Bound(c) = {} /\ ~c.healthy
               /\ keep([c EXCEPT !.phase = "entitlementRepair"])
            \/ /\ Bound(c) = {} /\ c.healthy /\ minted < MaxTx
               /\ minted' = minted + 1
               /\ LET r == [id |-> minted', expects |-> NoLicence]
                  IN Submit(t, [c EXCEPT !.mirror = @ \cup {r}, !.pendRec = r,
                                         !.pendId = r.id, !.waiting = @ \cup {r.id}], w, r)

\* The answers other than an active licence and no licence.  A first
\* UNAUTHENTICATED is asked again in a fresh envelope.
ApplyFailure(t, n, w) ==
    LET c == [n EXCEPT !.projection = NoLicence, !.inFlight = FALSE]
    IN \/ \E p \in {"entitlementUnavailable", "entitlementRepair"} :
            Return(t, [c EXCEPT !.phase = p], w)
       \/ Return(t, [c EXCEPT !.phase = IF HasPending(c) THEN "awaitingIndex"
                                        ELSE "entitlementUnavailable"], w)
       \/ IF w.retried
          THEN Return(t, [c EXCEPT !.pendRec = None, !.pendId = 0, !.phase = "lockedOut"], w)
          ELSE Await(t, n, Asking([w EXCEPT !.retried = TRUE])) /\ UNCHANGED minted

\* The phase after an answer that decides nothing: an upgrade waits under the old
\* licence while that is projected.
WaitingReady(c, r) == IF IsUpgrade(r) THEN "entitlementReady" ELSE "awaitingIndex"
Waiting(c, r) == IF IsUpgrade(r) /\ c.projection # NoLicence
                 THEN "entitlementReady" ELSE "awaitingIndex"

\* submitPending after its await: recordAttempt, then the decision.
Admitted(t, n, w, admission) ==
    LET c == [Saved(n, w.rec) EXCEPT !.pendRec = w.rec, !.inFlight = FALSE]
        r == w.rec
        v == [w EXCEPT !.poll = FALSE, !.retried = FALSE]
    IN \/ /\ admission \in {"accepted", "uncertain"}
          /\ Return(t, [c EXCEPT !.phase = Waiting(c, r)], w)
       \/ /\ admission = "alreadyExists"
          /\ Ask(t, [c EXCEPT !.phase = "resolving"], v) /\ UNCHANGED minted
       \/ /\ admission = "terminalRejected" /\ ~IsUpgrade(r)
          /\ Return(t, [c EXCEPT !.phase = "entitlementRepair"], w)
       \/ /\ admission = "terminalRejected" /\ IsUpgrade(r)
          /\ Ask(t, c, [v EXCEPT !.then = IF c.pendId = 0 THEN "flush" ELSE "review"])
          /\ UNCHANGED minted

-----------------------------------------------------------------------------
(* The awaits complete.                                                      *)

Fault == faults < MaxFaults /\ faults' = faults + 1

\* licenceJournalRead, and the record's parse
ReadUnparsed == authenticated
Readable     == authenticated /\ journal # Corrupt

\* hydrateDurable, and the coordinator's query-first start.  A record is taken
\* only when the session still names the identity it is bound to.
Hydrated(t) ==
    LET w == task[t]  c == sess[w.s]
        start(d) == FreshQuery(t, Restarted([d EXCEPT !.bound = TRUE]), w)
        load(r)  == [c EXCEPT !.mirror = @ \cup {r}, !.healthy = TRUE,
                              !.waiting = @ \cup {r.id}]
    IN /\ w.at = "hydrate"
       /\ \/ /\ Readable
             /\ start(IF journal # None /\ c.actor THEN load(journal) ELSE c)
             /\ UNCHANGED faults
          \/ /\ ~Readable
             /\ start([c EXCEPT !.healthy = FALSE]) /\ UNCHANGED faults
          \/ Fault /\ start([c EXCEPT !.healthy = FALSE])
       /\ UNCHANGED <<journal, network, operations>>

\* The answer tells the index as it was when the query was sent or as it is now.
QueryAnswered(t) ==
    LET w == task[t]  c == sess[w.s]
    IN /\ \/ /\ w.at = "unsent"
             /\ Return(t, [c EXCEPT !.projection = NoLicence, !.inFlight = FALSE,
                                    !.phase = "entitlementUnavailable"], w)
          \/ /\ w.at = "query"
             /\ \/ \E ref \in {w.seen, index} \ {NoLicence} : ApplyReady(t, c, w, ref)
                \/ NoLicence \in {w.seen, index} /\ HandleNoActive(t, c, w)
                \/ ApplyFailure(t, c, w)
       /\ UNCHANGED <<journal, network, faults, operations>>

\* writeDurable ends; only then is the exact transaction handed to the network,
\* which may or may not receive it.
Persisted(t) ==
    LET w == task[t]  c == sess[w.s]
        kept == [c EXCEPT !.mirror = @ \cup {w.rec}, !.healthy = TRUE]
    IN /\ w.at = "persist"
       /\ \/ /\ journal' = w.rec /\ UNCHANGED <<minted, faults>>
             /\ \/ /\ Await(t, kept, [w EXCEPT !.at = "submit"])
                   /\ UNCHANGED ingress
                \/ /\ Await(t, kept, [w EXCEPT !.at = "submit", !.reply =
                        IF w.rec \in ingress THEN "alreadyExists" ELSE "accepted"])
                   /\ ingress' = ingress \cup {w.rec}
          \/ /\ Admitted(t, [c EXCEPT !.healthy = FALSE], w, "uncertain")
             /\ Fault /\ UNCHANGED <<journal, ingress>>
       /\ UNCHANGED <<index, indexed, operations>>

\* transactionSubmit ends: any answer may be lost on the way.
SubmitAnswered(t) ==
    LET w == task[t]
        outcomes == CASE w.reply = "none"    -> {"terminalRejected", "uncertain"}
                      [] w.reply = "refused" -> {"terminalRejected"}
                      [] w.reply = "unsaved" -> {"uncertain"}
                      [] OTHER               -> {w.reply, "uncertain"}
    IN /\ w.at = "submit"
       /\ \E a \in outcomes : Admitted(t, sess[w.s], w, a)
       /\ UNCHANGED <<journal, network, faults, operations>>

\* The storage operation of flushDurable ends.  A clear deletes three keys and
\* may stop between them.
Flushed(t) ==
    LET w == task[t]  c == sess[w.s]
    IN /\ \/ /\ w.at = "write" /\ journal' = w.rec
             /\ Finish(t, [c EXCEPT !.healthy = TRUE, !.mirror = @ \cup {w.rec}], w)
             /\ UNCHANGED faults
          \/ /\ w.at = "clear" /\ journal' = None
             /\ Finish(t, c, w) /\ UNCHANGED faults
          \/ /\ w.at \in {"write", "clear"} /\ Fault
             /\ Finish(t, [c EXCEPT !.healthy = FALSE], w)
             /\ journal' \in IF w.at = "write" \/ journal = None THEN {journal}
                             ELSE {journal, Corrupt}
       /\ UNCHANGED <<minted, network, operations>>

Step(t) == Hydrated(t) \/ QueryAnswered(t) \/ Persisted(t)
              \/ SubmitAnswered(t) \/ Flushed(t)

-----------------------------------------------------------------------------
(* Operations of the pages, which the lane admits one at a time.             *)

NewOp(s) == [Idle EXCEPT !.kind = "op", !.s = s]
Admit(t) == task[t].at = "idle" /\ \A u \in Tasks : task[u].kind # "op"
Keep     == UNCHANGED <<journal, network, faults>>

\* licenceBootstrapStart without a session: a session object, its loop, and
\* the hydration of its journal.
Start(t) ==
    /\ Admit(t) /\ current = NoSession /\ authenticated
    /\ \E s \in Sessions :
         /\ \A u \in Tasks : task[u].s # s
         /\ sess' = [sess EXCEPT ![s] = [NewSession EXCEPT !.actor = TRUE]]
         /\ current' = s
         /\ LET h == [task EXCEPT ![t] = [NewOp(s) EXCEPT !.at = "hydrate"]]
            IN \E u \in Tasks \ {t} :
                 /\ task[u].at = "idle"
                 /\ task' = [h EXCEPT ![u] = Chain] /\ loop' = {u}
    /\ UNCHANGED <<authenticated, minted>> /\ Keep

\* licenceBootstrapStart again
Resume(t) ==
    /\ Admit(t) /\ Active(current)
    /\ Pump(t, sess[current], NewOp(current))
    /\ UNCHANGED minted /\ Keep

\* updateEligibility.  The code ignores connectivity equal to the last it was
\* given; the page gets the same effect by reporting `paused' in between, so the
\* last value is not kept here.
GoOnline(t) ==
    LET c == sess[current]  w == [NewOp(current) EXCEPT !.then = "pump"]
    IN /\ Admit(t) /\ Active(current)
       /\ IF c.phase \in {"resolving", "confirmationDelayed", "entitlementUnavailable"}
          THEN FreshQuery(t, c, w)
          ELSE Pump(t, [c EXCEPT !.reachable = TRUE], w) /\ UNCHANGED minted
       /\ Keep

GoOffline(t) ==
    /\ Admit(t) /\ Active(current)
    /\ Pump(t, [sess[current] EXCEPT
                  !.reachable = FALSE, !.projection = NoLicence,
                  !.phase = IF @ = "lockedOut" THEN @ ELSE "resolving"], NewOp(current))
    /\ UNCHANGED minted /\ Keep

PauseChain(t) ==
    LET c == sess[current]
    IN /\ Admit(t) /\ Active(current)
       /\ Pump(t, [c EXCEPT !.reachable = TRUE, !.phase =
                      IF @ = "awaitingIndex" /\ ~(LiveUpgrade(c) /\ c.projection # NoLicence)
                      THEN "confirmationDelayed" ELSE @], NewOp(current))
       /\ UNCHANGED minted /\ Keep

Retry(t) ==
    /\ Admit(t) /\ Active(current)
    /\ RetryExact(t, sess[current], NewOp(current)) /\ Keep

\* recoverFromError
Recover(t) ==
    LET c == [sess[current] EXCEPT !.refreshOnly = FALSE]
    IN /\ Admit(t) /\ Active(current)
       /\ IF HasPending(c) THEN RetryExact(t, c, NewOp(current))
                           ELSE FreshQuery(t, c, NewOp(current))
       /\ Keep

Revalidate(t) ==
    /\ Admit(t) /\ Active(current)
    /\ \E rejection \in BOOLEAN :
         FreshQuery(t, [sess[current] EXCEPT !.refreshOnly = @ \/ rejection,
                          !.phase = "resolving", !.projection = NoLicence], NewOp(current))
    /\ Keep

ConfirmUpgrade(t) ==
    LET c == [sess[current] EXCEPT !.success = None]
        w == NewOp(current)
    IN /\ Admit(t) /\ Active(current)
       /\ IF c.pendRec # None \/ c.pendId # 0 \/ ~Ready(c)
          THEN Flush(t, c, w) /\ UNCHANGED minted
          ELSE FreshQuery(t, c, [w EXCEPT !.then = "confirm", !.shown = c.projection])
       /\ Keep

Acknowledge(t) ==
    /\ Admit(t) /\ Active(current)
    /\ Flush(t, [sess[current] EXCEPT !.success = None], NewOp(current))
    /\ UNCHANGED minted /\ Keep

\* The loop's timer fires.
LoopFires(t) ==
    /\ task[t].at = "timer"
    /\ \/ /\ Active(current)
          /\ Pump(t, sess[current], [Chain EXCEPT !.s = current])
       \/ /\ ~Active(current)
          /\ StopLoop([task EXCEPT ![t] = Idle])
          /\ UNCHANGED <<sess, authenticated>>
    /\ UNCHANGED <<minted, operations>> /\ Keep

Operation(t) ==
    /\ operations < MaxOperations /\ operations' = operations + 1
    /\ \/ Start(t) \/ Resume(t) \/ GoOnline(t) \/ GoOffline(t) \/ PauseChain(t)
       \/ Retry(t) \/ Recover(t) \/ Revalidate(t) \/ ConfirmUpgrade(t) \/ Acknowledge(t)

-----------------------------------------------------------------------------
(* Locks, crashes and the network.                                           *)

Authenticate ==
    /\ ~authenticated /\ \A u \in Tasks : task[u].kind # "op"
    /\ authenticated' = TRUE
    /\ UNCHANGED <<current, loop, journal, sess, task, minted, network, faults,
                   operations>>

\* A lock or a cancel: the secrets are wiped, the session is torn down and the
\* loop stopped; the operation in the lane and a running pump go on.
Revoke ==
    /\ authenticated /\ Fault
    /\ authenticated' = FALSE
    /\ sess' = [s \in Sessions |->
          IF s # current THEN sess[s]
          ELSE IF \E u \in Tasks : task[u].s = s THEN TornDown(sess[s]) ELSE NewSession]
    /\ StopLoop([u \in Tasks |-> IF task[u].kind = "op"
                                 THEN [task[u] EXCEPT !.kind = "overtaken"] ELSE task[u]])
    /\ UNCHANGED <<journal, minted, network, operations>>

\* The worker dies.  A clear under way may have deleted some of its keys.
Die ==
    /\ Fault
    /\ authenticated' = FALSE /\ current' = NoSession /\ loop' = {}
    /\ sess' = [s \in Sessions |-> NewSession]
    /\ task' = [t \in Tasks |-> Idle]
    /\ journal' \in IF journal # None /\ \E t \in Tasks : task[t].at = "clear"
                    THEN {journal, Corrupt} ELSE {journal}
    /\ UNCHANGED <<minted, network, operations>>

\* The network indexes a transaction it received.
Index ==
    /\ \E r \in ingress :
         /\ r.id \notin indexed /\ r.expects = index
         /\ index' = r.id /\ indexed' = indexed \cup {r.id}
    /\ UNCHANGED <<worker, journal, sess, task, minted, ingress, faults,
                   operations>>

\* The licence expires, or another device activates one.  Bounded with the faults.
Shift ==
    /\ Fault
    /\ index' \in {NoLicence, Foreign} \ {index}
    /\ indexed' = indexed \cup ({index'} \ {NoLicence})
    /\ UNCHANGED <<worker, journal, sess, task, minted, ingress, operations>>

Next == \/ \E t \in Tasks : Operation(t) \/ LoopFires(t) \/ Step(t)
        \/ Authenticate \/ Revoke \/ Die \/ Index \/ Shift

Spec == Init /\ [][Next]_vars

-----------------------------------------------------------------------------
(* Properties.                                                               *)

\* The pending operation a live coordinator holds can be found again in the
\* mirror its session flushes from: a flush never clears the journal under an
\* operation the coordinator still waits for.
PendingIsMirrored == \A s \in Sessions :
    sess[s].bound /\ sess[s].pendId # 0 => \E r \in sess[s].mirror : r.id = sess[s].pendId

\* Access is granted only by a licence the network has had active, never by an
\* admission answer: no interleaving of answers makes the phase ready without
\* a projection, or projects a transaction that was only accepted.
AccessIsIndexed == \A s \in Sessions :
    /\ sess[s].projection # NoLicence => sess[s].projection \in indexed
    /\ sess[s].phase = "entitlementReady" => sess[s].projection # NoLicence

\* Local success is claimed only for an upgrade whose own transaction the
\* network has had active.
SuccessIsOwnUpgrade == \A s \in Sessions :
    sess[s].success # None => IsUpgrade(sess[s].success) /\ sess[s].success.id \in indexed

\* A session never has two transactions of which it does not know the outcome:
\* it builds another only after it has seen an active licence.
NoSecondTransaction == \A s \in Sessions :
    sess[s].bound => \A i, j \in sess[s].waiting : i = j
=============================================================================
