--------------------------- MODULE OnboardingRoot ---------------------------
(* What the three onboarding flows of the browser share: the root machine's  *)
(* onboarding states (auth/state/machine.ts), the ports between the machine  *)
(* and a child runtime (auth/web/child-bridge.ts, createWebOnboardingPorts), *)
(* the page's client of the vault worker (browser-vault/production/client.ts)*)
(* and the part of the worker a flow touches: the candidates it holds, its   *)
(* unlocked session, the durable vault, the one operation it admits.         *)
(*                                                                           *)
(* A page is one thread.  An async function that has called the worker or    *)
(* the network is a call in `calls`; the answer gives the call its `out`,    *)
(* and the function then runs on to its next await in one step.  Functions   *)
(* whose answers are in run before any other event (they are microtasks):    *)
(* every event of the user, a timer or the worker waits for Quiet.           *)
(*                                                                           *)
(* BrowserAuthority has the worker in detail; here it does at once what it   *)
(* does between admitting an operation and answering it.  Other tabs keep    *)
(* the worker busy and revoke it; what else they do is left out.             *)
EXTENDS Naturals, FiniteSets, FiniteSetsExt

CONSTANTS
    MaxCandidates,     \* bound on the candidates one flow derives
    MaxInterruptions   \* bound on the revocations that come from other tabs

ASSUME OnboardingAssumption ==
    /\ MaxCandidates \in Nat \ {0}
    /\ MaxInterruptions \in Nat

VARIABLES
    live,           \* SealedVaultEngine.candidates: the refs the worker holds
    made,           \* the number of refs it has handed out
    session,        \* its phase with an open session, or "none"
    owner,          \* whose session that is: of the flow's record in the "vault",
                    \* of the flow's keys in "memory", or "stray"
    vault,          \* the durable record: "absent", "pending" or "active"
    active,         \* activeOperationId: the call being run, or Idle
    ghost,          \* a provision goes on after its revocation
    profile,        \* what the network answers for these keys
    posted,         \* registration transactions handed to the network
    interruptions,  \* revocations by other tabs, or by a lock of the flow before
    calls,          \* promises this page waits for
    lost,           \* pendingCapabilityResolvers of flows before, oldest of all
    root,           \* state of the root machine
    cleanup         \* the runtime's cleanupPromise

worker      == <<live, made, session, owner, vault, active, ghost>>
network     == <<profile, posted>>
sharedVars  == <<worker, network, interruptions, calls, lost, root, cleanup>>

Refs == 1 .. MaxCandidates
NoRef == 0

Idle == [op |-> "none"]

AsyncOps == {"inspect", "provision", "provisionSession", "verify", "submit", "promote", "import"}
SyncOps  == {"create", "reveal", "destroy", "derive", "discard", "capability"}
OffWorker == {"lookup", "read"}

(* The worker's port delivers in the order the page posts: a call's turn     *)
(* comes after those of the calls the worker has not taken yet.              *)
InPort == {c \in calls : c.out = "sent" /\ c.op \notin OffWorker}
NextTurn(cs) == 1 + Max({c.turn : c \in {d \in cs : d.out = "sent"}} \cup {0})
IsFirst(c) == c \in InPort /\ \A d \in InPort : c.turn <= d.turn

(* One awaited promise: the function that waits (its n-th instance), the     *)
(* operation it asked for, and what that operation names.                    *)
Posted(fn, n, op, ref, turn) ==
    [fn |-> fn, n |-> n, op |-> op, ref |-> ref, out |-> "sent",
     turn |-> IF op \in OffWorker THEN 0 ELSE turn]
CallAfter(cs, fn, n, op, ref) == Posted(fn, n, op, ref, NextTurn(cs))
Call(fn, n, op, ref) == CallAfter(calls, fn, n, op, ref)

(* A capability's answer carries no id: it goes to the oldest resolver, and  *)
(* a function whose answer went to another waits on, `unanswered`; its turn  *)
(* is then its place among the resolvers.                                    *)
Unanswered == {c \in calls : c.out = "unanswered"}

Waiting(c) == c.out \in {"sent", "running", "unanswered"}
Quiet      == \A c \in calls : Waiting(c)
Pending(fn) == \E c \in calls : c.fn = fn

Resolved(c, out)   == [c EXCEPT !.out = out, !.turn = 0]
Others(c)          == IF c \in InPort
                      THEN {[d EXCEPT !.turn = IF d \in InPort THEN @ - 1 ELSE @] : d \in calls \ {c}}
                      ELSE calls \ {c}
Answer(c, out)     == calls' = Others(c) \cup {Resolved(c, out)}

-----------------------------------------------------------------------------
(* The worker.                                                               *)

(* Authority.handleOperation: one operation at a time; a second one is       *)
(* turned away with a typed rejection, a lock pre-empts.  The one under way  *)
(* may be another tab's, at any moment.                                      *)
TurnedAway(c) ==
    /\ IsFirst(c) /\ c.op \in (AsyncOps \cup SyncOps) \ {"capability"}
    /\ Answer(c, "AUTHORITY_BUSY")
    /\ UNCHANGED <<worker, network, interruptions, lost, root, cleanup>>

Admitted(c) == /\ IsFirst(c)
               /\ active = Idle \/ c.op = "capability"

CreateCandidate(c) ==
    \/ /\ made < MaxCandidates
       /\ made' = made + 1 /\ live' = live \cup {made + 1}
       /\ calls' = Others(c) \cup {[Resolved(c, "OK") EXCEPT !.ref = made + 1]}
    \/ Answer(c, "UNKNOWN_FAILURE") /\ UNCHANGED <<live, made>>

(* deriveRecoveryCandidates: one candidate from 12 words, two from 24 (of    *)
(* the three producers two derive the same keys); the answer's ref is how    *)
(* many.                                                                     *)
DeriveCandidates(c) ==
    \/ \E k \in 1 .. 2 :
          /\ made + k <= MaxCandidates
          /\ made' = made + k /\ live' = live \cup (made + 1 .. made + k)
          /\ calls' = Others(c) \cup {[Resolved(c, "OK") EXCEPT !.ref = k]}
    \/ Answer(c, "INVALID_INPUT") /\ UNCHANGED <<live, made>>

DestroyCandidate(c) ==
    /\ live' = live \ {c.ref}
    /\ Answer(c, IF c.ref \in live THEN "OK" ELSE "INVALID_INPUT")
    /\ UNCHANGED made

RevealWords(c) ==
    /\ Answer(c, IF c.ref \in live THEN "OK" ELSE "INVALID_INPUT")
    /\ UNCHANGED <<live, made>>

(* capability-issued: the oldest resolver has it.                            *)
IssueCapability(c) ==
    /\ UNCHANGED <<live, made>>
    /\ CASE lost > 0 ->
              /\ lost' = lost - 1
              /\ calls' = Others(c) \cup
                    {[c EXCEPT !.out = "unanswered", !.turn = Cardinality(Unanswered) + 1]}
         [] lost = 0 /\ Unanswered # {} ->
              /\ calls' = {IF d \notin Unanswered THEN d ELSE IF d.turn = 1 THEN Resolved(d, "OK")
                           ELSE [d EXCEPT !.turn = @ - 1] : d \in Others(c)}
                          \cup {[c EXCEPT !.out = "unanswered", !.turn = Cardinality(Unanswered)]}
              /\ UNCHANGED lost
         [] OTHER -> Answer(c, "OK") /\ UNCHANGED lost

ServeSync(c) ==
    /\ Admitted(c) /\ c.op \in SyncOps
    /\ \/ c.op = "capability" /\ IssueCapability(c)
       \/ /\ \/ c.op = "create" /\ CreateCandidate(c)
             \/ c.op = "derive" /\ DeriveCandidates(c)
             \/ c.op = "destroy" /\ DestroyCandidate(c)
             \/ c.op = "reveal" /\ RevealWords(c)
             \/ c.op = "discard" /\ Answer(c, "OK") /\ UNCHANGED <<live, made>>
          /\ UNCHANGED lost
    /\ UNCHANGED <<session, owner, vault, active, ghost, network, interruptions, root, cleanup>>

(* An operation with an await inside; the ones that want a candidate or a    *)
(* session look for it first.                                                *)
StartAsync(c) ==
    /\ Admitted(c) /\ c.op \in AsyncOps
    /\ LET refused == \/ c.op \in {"provision", "provisionSession"} /\ c.ref \notin live
                      \/ c.op = "provisionSession" /\ session # "none"
                      \/ c.op \in {"verify", "submit"} /\ session = "none"
                      \/ c.op = "promote" /\ session # "authenticated"
           run == Resolved(c, "running")
       IN IF refused
          THEN Answer(c, "UNKNOWN_FAILURE") /\ UNCHANGED active
          ELSE calls' = Others(c) \cup {run} /\ active' = run
    /\ UNCHANGED <<live, made, session, owner, vault, ghost, network, interruptions, lost, root, cleanup>>

(* Empty storage is not "absent" while the worker holds a candidate or a     *)
(* session: it refuses to say, and destroys nothing.                         *)
InspectEnds(c) ==
    /\ \/ /\ vault = "absent" => live = {} /\ session = "none"
          /\ Answer(c, vault)
       \/ Answer(c, "UNKNOWN_FAILURE")
    /\ UNCHANGED <<live, made, session, owner, vault, posted>>

ProvisionEnds(c) ==
    \/ /\ vault = "absent" /\ vault' = "pending"
       /\ session' = "verificationOnly" /\ owner' = "vault" /\ live' = live \ {c.ref}
       /\ Answer(c, "OK") /\ UNCHANGED <<made, posted>>
    \/ Answer(c, "UNKNOWN_FAILURE") /\ UNCHANGED <<live, made, session, owner, vault, posted>>

(* A session without a vault: every candidate goes.  Storage was found empty *)
(* before; a stray provision may have filled it since.                       *)
ProvisionSessionEnds(c) ==
    \/ /\ vault = "absent" \/ owner = "stray"
       /\ c.ref \in live
       /\ session' = "verificationOnly" /\ owner' = "memory" /\ live' = {} /\ Answer(c, "OK")
       /\ UNCHANGED <<made, vault, posted>>
    \/ Answer(c, "INVALID_INPUT") /\ UNCHANGED <<live, made, session, owner, vault, posted>>

(* What the network answers for the keys of a stray session is free.         *)
Profiles == IF owner = "stray" THEN {"absent", "ours", "foreign"} ELSE {profile}

VerifyEnds(c) ==
    /\ \/ "ours" \in Profiles /\ Answer(c, "OK") /\ session' = "authenticated"
       \/ "foreign" \in Profiles /\ Answer(c, "KEY_MISMATCH") /\ UNCHANGED session
       \/ "absent" \in Profiles /\ Answer(c, "PROFILE_MISSING") /\ UNCHANGED session
       \/ Answer(c, "NETWORK_UNAVAILABLE") /\ UNCHANGED session
    /\ UNCHANGED <<live, made, owner, vault, posted>>

SubmitEnds(c) ==
    /\ \/ "ours" \in Profiles /\ Answer(c, "alreadyExists") /\ UNCHANGED posted
       \/ posted' = posted + 1 /\ \E out \in {"accepted", "transportFailure"} : Answer(c, out)
       \/ \E out \in {"terminalRejection", "transportFailure", "UNKNOWN_FAILURE"} : Answer(c, out)
          /\ UNCHANGED posted
    /\ UNCHANGED <<live, made, session, owner, vault>>

(* The record of a session in memory is in no vault; a stray session that    *)
(* has taken its place since is not authenticated.                           *)
PromoteEnds(c) ==
    /\ \/ /\ Answer(c, "OK")
          /\ vault' = IF owner # "memory" /\ session = "authenticated" THEN "active" ELSE vault
       \/ Answer(c, "UNKNOWN_FAILURE") /\ UNCHANGED vault
    /\ UNCHANGED <<live, made, session, owner, posted>>

ImportEnds(c) ==
    /\ \/ /\ made < MaxCandidates /\ made' = made + 1 /\ live' = live \cup {made + 1}
          /\ calls' = Others(c) \cup {[Resolved(c, "OK") EXCEPT !.ref = made + 1]}
       \/ \E out \in {"WRONG_PASSWORD_OR_DAMAGED", "INVALID_INPUT"} : Answer(c, out)
          /\ UNCHANGED <<live, made>>
    /\ UNCHANGED <<session, owner, vault, posted>>

FinishAsync(c) ==
    /\ c.out = "running"
    /\ \/ c.op = "inspect" /\ InspectEnds(c)
       \/ c.op = "provision" /\ ProvisionEnds(c)
       \/ c.op = "provisionSession" /\ ProvisionSessionEnds(c)
       \/ c.op = "verify" /\ VerifyEnds(c)
       \/ c.op = "submit" /\ SubmitEnds(c)
       \/ c.op = "promote" /\ PromoteEnds(c)
       \/ c.op = "import" /\ ImportEnds(c)
    /\ active' = Idle
    /\ UNCHANGED <<ghost, profile, interruptions, lost, root, cleanup>>

(* The same-origin BFF lookup of the page.                                   *)
LookupEnds(c, answers) ==
    /\ c.out = "sent" /\ c.op = "lookup"
    /\ \E out \in answers \cup {"transportFailure"} : Answer(c, out)
    /\ UNCHANGED <<worker, network, interruptions, lost, root, cleanup>>

(* provision reads no generation after its key derivation: a revoked one     *)
(* still commits the record and installs the session, whatever flow is then  *)
(* running.                                                                  *)
GhostProvision ==
    /\ Quiet /\ ghost /\ ghost' = FALSE
    /\ \/ /\ vault = "absent" /\ vault' = "pending"
          /\ session' = "verificationOnly" /\ owner' = "stray"
       \/ UNCHANGED <<session, owner, vault>>
    /\ UNCHANGED <<live, made, active, network, interruptions, calls, lost, root, cleanup>>

(* A posted registration is indexed in the end.                              *)
NetworkConfirms ==
    /\ Quiet /\ posted > 0 /\ profile = "absent" /\ profile' = "ours"
    /\ UNCHANGED <<worker, posted, interruptions, calls, lost, root, cleanup>>

-----------------------------------------------------------------------------
(* Revocation.                                                               *)

WipeSecrets ==
    /\ live' = {} /\ session' = "none" /\ owner' = "none" /\ active' = Idle
    /\ ghost' = (ghost \/ active.op = "provision")
    /\ UNCHANGED <<made, vault>>

(* client.handleWorkerEvent, global-invalidation: every pending operation is *)
(* resolved, a lock with its acknowledgement; the resolvers of capabilities  *)
(* stay in their queue, those the worker has not seen behind the others.     *)
RevokedCalls(locks) ==
    LET asked == {c \in InPort : c.op = "capability"}
        Place(c) == Cardinality(Unanswered) + Cardinality({d \in asked : d.turn <= c.turn})
    IN {IF c \in asked THEN [c EXCEPT !.out = "unanswered", !.turn = Place(c)]
        ELSE IF c.op \in OffWorker \cup {"capability"} \/ ~Waiting(c) THEN c
        ELSE Resolved(c, IF c \in locks THEN "OK" ELSE "AUTHORITY_INVALIDATED") : c \in calls}

(* A lock the flow before had left on its way is not one of this flow.       *)
LockInterrupts(c) ==
    IF c.fn = "left" THEN interruptions' = interruptions + 1 ELSE UNCHANGED interruptions

(* The root's next state; entering a state that inspects custody asks for    *)
(* it, after whatever the runtime it has just cancelled posted.              *)
RootBecomes(next, cs) ==
    /\ root' = next
    /\ calls' = IF next \in {"initializing", "recheck"} /\ root # next
                THEN cs \cup {CallAfter(cs, "root", 1, "inspect", NoRef)} ELSE cs

(* SESSION.AUTHORITY_LOST in the root: an onboarding child is cancelled and  *)
(* custody inspected afresh; losing the authority again meanwhile ends in    *)
(* blockedError.                                                             *)
RootLost ==
    IF root \in {"running", "cleaning", "recheck"} THEN "initializing"
    ELSE IF root = "initializing" THEN "custodyLost" ELSE root

(* What a finished inspection makes of the root; one it has left behind is   *)
(* not the current operation.                                                *)
RootContinues(c) ==
    /\ c.fn = "root" /\ ~Waiting(c) /\ root # "recheck"
    /\ calls' = calls \ {c}
    /\ root' = IF root # "initializing" THEN root
               ELSE CASE c.out = "absent" -> "choices"
                      [] c.out \in {"pending", "active"} -> "locked"
                      [] OTHER -> "storageUnavailable"
    /\ UNCHANGED <<worker, network, interruptions, lost, cleanup>>

(* INTENT.RETRY at an error that is not a failed cleanup.                    *)
RootRetry ==
    /\ Quiet /\ root \in {"storageUnavailable", "custodyLost"}
    /\ RootBecomes("initializing", calls)
    /\ UNCHANGED <<worker, network, interruptions, lost, cleanup>>

RootStates == {"running", "cleaning", "cleanupFailed", "recheck", "initializing", "choices",
               "locked", "storageUnavailable", "custodyLost", "verifying"}
CleanupStates == {"idle", "provisioning", "failedStage", "destroy", "discard", "lock", "complete",
                  "failed"}

SharedInit ==
    /\ live = {} /\ made = 0 /\ session = "none" /\ owner = "none" /\ vault = "absent"
    /\ active = Idle /\ ghost = FALSE /\ lost = 0 /\ posted = 0 /\ interruptions = 0
    /\ root = "running" /\ cleanup = "idle"

SharedTypeOK ==
    /\ live \subseteq Refs /\ made \in 0 .. MaxCandidates /\ ghost \in BOOLEAN
    /\ session \in {"none", "verificationOnly", "authenticated"}
    /\ owner \in {"none", "vault", "memory", "stray"} /\ (owner = "none") = (session = "none")
    /\ lost \in Nat
    /\ vault \in {"absent", "pending", "active"}
    /\ active = Idle \/ \E c \in calls : c.out = "running" /\ c.op = active.op
    /\ profile \in {"absent", "ours", "foreign"} /\ posted \in Nat
    /\ interruptions \in Nat
    /\ root \in RootStates /\ cleanup \in CleanupStates
=============================================================================
