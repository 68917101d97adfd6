----------------------------- MODULE AuthMachine -----------------------------
(* The root of the browser page: the authentication machine of               *)
(* auth/state/machine.ts, the web adapters its actors call                   *)
(* (auth/web/web-actors.ts), the Lock and the rebuild of app/auth/AuthRoot,  *)
(* and the election queries of auth/web/entitlement-bridge.ts.  Below it is  *)
(* the vault worker, which other tabs use as well: here it is an open        *)
(* session, a durable vault and the notice of a revocation on its way.       *)
(*                                                                           *)
(* XState runs an event to completion, and a state that invokes an actor has *)
(* asked its port before the next event: the machine is a record, an event a *)
(* function of it, and what one message makes the page do is a composition.  *)
(* The worker's answer and the event it becomes are one step; a revocation   *)
(* reaches the page later, and until then nothing is answered, for what the  *)
(* page posts is of the epoch before.                                        *)
(*                                                                           *)
(* Abstracted: an onboarding flow is one call (OnboardingRoot has it), a     *)
(* revoked operation does not run on (BrowserAuthority has that), the        *)
(* entitlement stages inside `authenticated` are one state.                  *)
EXTENDS Naturals, Sequences

CONSTANTS
    MaxEpoch,     \* bound on the epoch in which the user still acts
    MaxRequests,  \* bound on the election queries of one machine
    MaxResolvers  \* bound on the capabilities still awaited in vain

ASSUME AuthAssumption == MaxEpoch \in Nat /\ MaxRequests \in Nat /\ MaxResolvers \in Nat

VARIABLES
    m,          \* the machine's state and context
    locking,    \* lockSession: not called, sent, acknowledged, or of a former machine
    left,       \* an operation under way that no machine waits for
    resolvers,  \* pendingCapabilityResolvers whose answers are gone, oldest first
    connectivity,            \* the parallel region
    request, access,         \* electionAccessRequest's id, electionAccess
    queries,    \* election queries the bridge waits for, and whether the
                \* connectivity has been the same since they were asked
    asked,      \* electionRequestId of the bridge
    session,    \* the worker's session, as in OnboardingRoot
    vault,      \* the durable record: absent, pending, active or half removed
    notice,     \* a global invalidation is on its way to this page
    orphaned,   \* another tab has removed the user under this page's access
    hadAccess,  \* this epoch of the machine has had its access
    restored    \* the onboarding flow it completed last was a restoration

elections  == <<request, access, queries, asked>>
custody    == <<session, vault>>
histories  == <<orphaned, hadAccess, restored>>
waits      == <<locking, left, resolvers>>
vars == <<m, waits, connectivity, elections, custody, notice, histories>>

Kinds == {"createUser", "restoreRecoveryWords", "restoreCredentialFile"}
Restorations == Kinds \ {"createUser"}
NoKind == "none"

NoOp   == 0
NoCall == [op |-> "none", id |-> NoOp]
NoRequest == 0
None   == [id |-> NoRequest]
Nothing == [op |-> "none", cancel |-> FALSE]

Onboarding == {"running", "cleanup", "recheck"}
Busy       == {"initializing", "running", "cleanup", "recheck", "unlocking", "verifying", "removing"}
Settled    == {"noLocalUser", "locked", "authenticated", "recoverable", "blocked"}

NewMachine ==
    [auth |-> "initializing", epoch |-> 1, activeOp |-> 1, call |-> [op |-> "inspect", id |-> 1],
     outcome |-> "none", kind |-> NoKind, cleanupFailed |-> FALSE, receipt |-> 0]

-----------------------------------------------------------------------------
(* Transitions.                                                              *)

Clear(s) == [s EXCEPT !.activeOp = NoOp]

(* outcomeCode: what a later event reads of it.                              *)
Outcomes == {"unavailable", "failure", "throttled", "offline"}
Outcome(s, code) ==
    [s EXCEPT !.outcome = IF code \in Outcomes \cup {"none"} THEN code ELSE "other"]

\* mutant: the restoration of an epoch is not forgotten with it
EpochKeepsReceipt(s) == [s EXCEPT !.epoch = @ + 1, !.activeOp = NoOp]

(* incrementEpoch.                                                           *)
Epoch(s) == [s EXCEPT !.epoch = @ + 1, !.activeOp = NoOp, !.receipt = 0]

(* The invoked actor asks its port under a new operation id, which           *)
(* OPERATION.STARTED makes the active one unless there is one already.       *)
Invoke(s, auth, op) ==
    LET id == IF s.activeOp = 1 THEN 2 ELSE 1
    IN [s EXCEPT !.auth = auth, !.call = [op |-> op, id |-> id],
                 !.activeOp = IF @ = NoOp THEN id ELSE @]

Enter(s, auth) ==
    CASE auth \in Settled ->
           [s EXCEPT !.auth = auth, !.call = NoCall, !.activeOp = NoOp,
                     !.outcome = IF auth \in {"noLocalUser", "authenticated"} THEN "none" ELSE @,
                     !.kind = IF auth = "noLocalUser" THEN NoKind ELSE @,
                     !.cleanupFailed = IF auth \in {"locked", "authenticated"} THEN FALSE ELSE @]
      [] auth = "missing" -> [s EXCEPT !.auth = auth, !.call = NoCall, !.outcome = "none"]
      [] auth \in {"initializing", "recheck"} -> Invoke(s, auth, "inspect")
      [] auth = "running" -> Invoke(s, auth, "onboard")
      [] auth = "cleanup" -> Invoke(s, auth, "clean")
      [] auth = "unlocking" -> Invoke(s, auth, "unlock")
      [] auth = "verifying" -> Invoke(s, auth, "verify")
      [] auth = "removing" -> Invoke(s, auth, "capability")

\* mutant: a result leaves the active operation behind
AfterKept(s, code, auth) == Enter(Outcome(s, code), auth)

(* clearActiveOperation, assignOutcome, target.                              *)
After(s, code, auth) == Enter(Outcome(Clear(s), code), auth)

Failed(s, code, auth) == [After(s, code, auth) EXCEPT !.cleanupFailed = FALSE]

InspectResult(s, code) ==
    IF s.auth = "recheck"
    THEN IF code = "absent" THEN After(s, "none", "running")
         ELSE [Enter(Clear(s), "initializing") EXCEPT !.kind = NoKind]
    ELSE CASE code = "absent" -> After(s, code, "noLocalUser")
           [] code = "locked" -> After(s, code, "locked")
           [] code = "unavailable" -> After(s, code, "recoverable")
           [] code = "corrupt" -> After(s, code, "blocked")

UnlockResult(s, code) ==
    CASE code = "success" -> After(s, code, "verifying")
      [] code = "wrong" -> After(s, code, "locked")
      [] code = "throttled" -> Failed(s, code, "recoverable")
      [] code = "failure" -> Failed(s, code, "recoverable")

(* A network that was not reached leaves the machine where it is, with no    *)
(* operation and no actor to ask again.                                      *)
VerifyResult(s, code) ==
    CASE code = "success" -> After(s, code, "authenticated")
      [] code = "missing" -> After(s, code, "missing")
      [] code = "mismatch" -> After(s, code, "blocked")
      [] code = "failure" -> Failed(s, code, "recoverable")
      [] code = "offline" -> [Outcome(Clear(s), code) EXCEPT !.call = NoCall]

(* The state of a missing profile has no transition for a network that was   *)
(* not reached: the operation stays the active one.                          *)
ConfirmResult(s, code) ==
    CASE code = "success" -> After(s, code, "authenticated")
      [] code = "mismatch" -> After(s, code, "blocked")
      [] code = "failure" -> Failed(s, code, "recoverable")
      [] code = "missing" -> [Outcome(Clear(s), code) EXCEPT !.call = NoCall]
      [] code = "offline" -> [s EXCEPT !.call = NoCall]

OnboardResult(s) ==
    [After(s, "completed", "verifying") EXCEPT
        !.receipt = IF s.kind \in Restorations THEN s.epoch ELSE 0]

CleanResult(s, code) ==
    CASE code = "picker" /\ s.kind = "restoreCredentialFile" -> After(s, "none", "recheck")
      [] code = "failed" -> [After(s, "failure", "blocked") EXCEPT !.cleanupFailed = TRUE]
      [] OTHER -> [After(s, "none", "initializing") EXCEPT !.kind = NoKind]

RemoveResult(s, code) ==
    CASE code = "removed" -> After(s, "none", "noLocalUser")
      [] code = "remediation" -> After(s, code, "blocked")
      [] code = "failure" -> Failed(s, code, "recoverable")

(* isCurrentOperation: a result of another operation is ignored, and its     *)
(* actor has nothing more to say.                                            *)
Current(s) == s.call.id = s.activeOp

Result(s, code) ==
    IF ~Current(s) THEN [s EXCEPT !.call = NoCall]
    ELSE CASE s.call.op = "inspect" -> InspectResult(s, code)
           [] s.call.op = "unlock" -> UnlockResult(s, code)
           [] s.call.op \in {"verify", "promote"} -> VerifyResult(s, code)
           [] s.call.op = "confirm" -> ConfirmResult(s, code)
           [] s.call.op = "onboard" -> OnboardResult(s)
           [] s.call.op = "clean" -> CleanResult(s, code)
           [] s.call.op = "remove" -> RemoveResult(s, code)

(* SESSION.AUTHORITY_LOST.                                                   *)
Lost(s) ==
    CASE s.auth = "initializing" -> Enter(s, "blocked")
      [] s.auth \in Onboarding ->
           [Enter(Outcome(Epoch(s), "none"), "initializing") EXCEPT !.kind = NoKind]
      [] s.auth = "authenticated" -> Enter(Outcome(Epoch(s), "none"), "locked")
      [] OTHER -> s

\* mutant: a removal is not told that its operation was revoked
InvalidatedButRemoval(s) ==
    CASE s.call.op = "inspect" -> Result(s, "unavailable")
      [] s.call.op = "verify" -> Result(s, "offline")
      [] s.call.op \in {"unlock", "promote", "confirm"} -> Result(s, "failure")
      [] OTHER -> s

(* What AUTHORITY_INVALIDATED, the answer to every operation under way, is   *)
(* to the actor that waits for it.  A capability is no operation: whoever    *)
(* waits for one is not answered, and is `robbed` of nothing any more.       *)
Invalidated(s) ==
    CASE s.call.op = "inspect" -> Result(s, "unavailable")
      [] s.call.op = "verify" -> Result(s, "offline")
      [] s.call.op \in {"unlock", "promote", "confirm", "remove"} -> Result(s, "failure")
      [] s.call.op \in {"capability", "robbed"} -> [s EXCEPT !.call.op = "unheard"]
      [] OTHER -> s

(* INTENT.LOCK, and SESSION.CUSTODY_RECHECK after it.                        *)
Lock(s) ==
    CASE s.auth = "missing" ->
           [Enter(Outcome(Epoch(s), "none"), "initializing") EXCEPT !.kind = NoKind]
      [] s.auth \in {"authenticated", "recoverable"} -> Enter(Outcome(Epoch(s), "none"), "locked")
      [] OTHER -> s

Recheck(s) == IF s.auth = "locked" THEN After(s, "none", "initializing") ELSE s

(* The machine moves; its histories, and what leaving the access clears.     *)
Become(s) ==
    /\ m' = s
    /\ hadAccess' = (s.auth = "authenticated" \/ (hadAccess /\ s.epoch = m.epoch))
    /\ orphaned' = (orphaned /\ s.auth = "authenticated")
    /\ IF s.auth = "authenticated" THEN UNCHANGED <<request, access>>
       ELSE request' = NoRequest /\ access' = None
Stays == UNCHANGED <<m, hadAccess, orphaned, request, access>>

-----------------------------------------------------------------------------
(* The user.                                                                 *)

UserActs(s) ==
    /\ m.epoch <= MaxEpoch /\ Become(s)
    /\ UNCHANGED <<waits, connectivity, queries, asked, custody, notice, restored>>

ChooseFlow ==
    /\ m.auth = "noLocalUser"
    /\ \E kind \in Kinds : UserActs(Enter([m EXCEPT !.kind = kind, !.receipt = 0], "running"))

Back == m.auth = "running" /\ UserActs(Enter(Clear(m), "cleanup"))

Unlock == m.auth = "locked" /\ UserActs(Enter(Outcome(m, "none"), "unlocking"))

ConfirmMissingProfile ==
    /\ m.auth = "missing" /\ m.activeOp = NoOp
    /\ UserActs(Invoke(m, "missing", "confirm"))

(* The bound on the resolvers: no revocation meets a removal while as many   *)
(* are awaited in vain.                                                      *)
Room == Len(resolvers) < MaxResolvers
NoRevocation == ~notice /\ locking = "no" /\ left = Nothing

\* mutant: an access that ends with a removal keeps its epoch
RemoveLocalUserSameEpoch ==
    /\ Room \/ NoRevocation
    /\ m.auth \in {"locked", "authenticated", "recoverable", "blocked"}
    /\ UserActs(Enter(m, "removing"))

RemoveLocalUser ==
    /\ Room \/ NoRevocation
    /\ \/ m.auth = "locked" /\ UserActs(Enter(m, "removing"))
       \/ m.auth \in {"authenticated", "recoverable", "blocked"} /\ UserActs(Enter(Epoch(m), "removing"))

(* The intents and timers that end an access without the worker.             *)
EndAccess == m.auth = "authenticated" /\ UserActs(Enter(Outcome(Epoch(m), "none"), "locked"))

Retry ==
    \/ m.auth = "recoverable"
       /\ \E auth \in CASE m.outcome \in {"unavailable", "failure"} -> {"initializing"}
                       [] m.outcome = "throttled" -> {"unlocking"}
                       [] m.outcome \in {"none", "offline"} -> {"verifying"}
                       [] OTHER -> {} : UserActs(Enter(m, auth))
    \/ m.auth = "blocked"
       /\ UserActs(IF m.kind # NoKind /\ m.cleanupFailed
                   THEN Enter(Outcome(m, "none"), "cleanup") ELSE Enter(m, "initializing"))

PressLock ==
    /\ m.auth \in {"authenticated", "missing", "recoverable"} /\ m.epoch <= MaxEpoch
    /\ locking = "no" /\ locking' = "sent"
    /\ Stays /\ UNCHANGED <<left, resolvers, connectivity, queries, asked, custody, notice, restored>>

(* What stopping leaves: the operation under way is cancelled, except the    *)
(* one of the missing profile and one that has been rejected.  The client    *)
(* cancels nothing while it has no connection, after a revocation and until  *)
(* the call that follows has made one: that it has is not part of the state. *)
LeftBy(op) ==
    CASE op \in {"none", "rejected", "unheard"} -> {Nothing}
      [] op = "robbed"  -> {[op |-> "cancel", cancel |-> TRUE]}
      [] op = "confirm" -> {[op |-> op, cancel |-> FALSE]}
      [] OTHER -> {[op |-> op, cancel |-> sent] : sent \in BOOLEAN}

(* Browser Back outside of a flow and of an access: the machine is stopped   *)
(* and another built; the bridge is new as well, the client is not.          *)
Rebuild ==
    /\ m.auth \notin Onboarding \cup {"authenticated", "stopped"} /\ left = Nothing
    /\ m' = [NewMachine EXCEPT !.auth = "stopped", !.call = NoCall, !.activeOp = NoOp]
    /\ left' \in LeftBy(m.call.op)
    /\ locking' = IF locking = "sent" THEN "former" ELSE "no"
    /\ connectivity' = "offline"
    /\ request' = NoRequest /\ access' = None /\ queries' = {} /\ asked' = 0
    /\ orphaned' = FALSE /\ hadAccess' = FALSE /\ restored' = FALSE
    /\ UNCHANGED <<custody, notice, resolvers>>

Compose ==
    /\ m.auth = "stopped" /\ m' = NewMachine
    /\ UNCHANGED <<waits, connectivity, elections, custody, notice, histories>>

\* mutant: the region forgets the access and not the request
ConnectivityKeepsRequest(state) ==
    /\ m.auth # "stopped" /\ state # connectivity /\ connectivity' = state
    /\ UNCHANGED request /\ access' = None
    /\ queries' = {[q EXCEPT !.fresh = FALSE] : q \in queries}
    /\ UNCHANGED <<m, waits, asked, custody, notice, histories>>

(* The poll of the chain's height: every state of the region forgets the     *)
(* election access on entry.  "offline" stands for the four in which nothing *)
(* is asked: unknown, paused, offline and reconnecting.                      *)
Connectivity(state) ==
    /\ m.auth # "stopped" /\ state # connectivity /\ connectivity' = state
    /\ request' = NoRequest /\ access' = None
    /\ queries' = {[q EXCEPT !.fresh = FALSE] : q \in queries}
    /\ UNCHANGED <<m, waits, asked, custody, notice, histories>>

(* refreshElectionAccess, and ELECTION.ACCESS.REQUEST in the machine.        *)
RequestElection ==
    /\ m.auth = "authenticated" /\ connectivity = "online" /\ asked < MaxRequests
    /\ ~\E q \in queries : q.id = asked /\ q.epoch = m.epoch
    /\ asked' = asked + 1 /\ request' = asked' /\ access' = None
    /\ queries' = queries \cup {[id |-> asked', epoch |-> m.epoch, fresh |-> TRUE]}
    /\ UNCHANGED <<m, waits, connectivity, custody, notice, histories>>

-----------------------------------------------------------------------------
(* The worker, for this page.                                                *)

(* What an operation may answer, and what it makes of session and vault.     *)
Served(op, code) ==
    CASE op = "inspect" ->
           /\ \/ code = "absent" /\ vault = "absent" /\ session = "none"
              \/ code = "locked" /\ vault \in {"pending", "active"}
              \/ code = "corrupt" /\ vault # "absent"
              \/ code = "unavailable"
           /\ UNCHANGED custody
      [] op = "unlock" ->
           /\ \/ code = "success" /\ vault \in {"pending", "active"} /\ session' = "verificationOnly"
              \/ code \in {"wrong", "throttled", "failure"} /\ UNCHANGED session
           /\ UNCHANGED vault
      [] op \in {"verify", "confirm"} ->
           /\ \/ code = "success" /\ session # "none" /\ session' = "authenticated"
              \/ code \in {"missing", "mismatch", "offline"} /\ session # "none" /\ UNCHANGED session
              \/ code \in {"failure", "offline"} /\ UNCHANGED session
           /\ UNCHANGED vault
      [] op = "promote" ->
           /\ \/ code = "success" /\ session = "authenticated" /\ vault' = "active"
              \/ code = "failure" /\ UNCHANGED vault
           /\ UNCHANGED session
      [] op = "onboard" ->
           /\ code = "completed" /\ vault = "absent" /\ session = "none"
           /\ session' = "authenticated" /\ vault' \in {"absent", "active"}
      [] op = "clean" ->
           /\ code \in {"complete", "picker", "failed"}
           /\ session' \in (IF code = "failed" THEN {"none", "verificationOnly"} ELSE {"none"})
           /\ vault' \in {vault} \cup (IF vault = "absent" THEN {"pending"} ELSE {})
      [] op = "remove" ->
           \/ /\ session' = "none"
              /\ \/ code = "removed" /\ vault' = "absent"
                 \/ code \in {"failure", "remediation"}
                    /\ vault' \in {vault} \cup (IF vault = "absent" THEN {} ELSE {"halfRemoved"})
           \/ code = "failure" /\ UNCHANGED custody   \* turned away

Codes == {"absent", "locked", "corrupt", "unavailable", "success", "wrong", "throttled", "failure",
          "missing", "mismatch", "offline", "completed", "complete", "picker", "failed", "removed",
          "remediation"}

\* mutant: an adapter that takes the verification for the activation
AnsweredUnpromoted(op, code) == Result(m, code)

(* A verified identity that is still pending is promoted by the same         *)
(* adapter before it answers.                                                *)
ToPromote(op, code) == op = "verify" /\ code = "success" /\ vault = "pending"

Answered(op, code) ==
    IF ToPromote(op, code) THEN [m EXCEPT !.call.op = "promote"] ELSE Result(m, code)

AnswerTo(ops) ==
    /\ ~notice /\ left = Nothing /\ m.call.op \in ops
    /\ \E code \in Codes :
          /\ Served(m.call.op, code)
          /\ Become(Answered(m.call.op, code))
          /\ restored' = IF code = "completed" THEN m.kind \in Restorations ELSE restored
    /\ UNCHANGED <<waits, connectivity, queries, asked, notice>>

WorkerAnswers == AnswerTo({"inspect", "unlock", "verify", "promote", "confirm", "clean", "remove"})
FlowCompletes == AnswerTo({"onboard"})

(* capability-issued carries no id: the oldest resolver has it, and the one  *)
(* that asked waits behind the others.                                       *)
QueueAfter(asker) == IF resolvers = <<>> THEN resolvers ELSE Append(Tail(resolvers), asker)

(* Of those who get the capability of a removal, only a removal goes on.     *)
Removes == resolvers = <<>> \/ Head(resolvers) = "removal"

(* A removal asks for its capability first: a worker it cannot reach rejects *)
(* that, and no one hears it.  A removal before it that is still waiting     *)
(* removes the user in its place.                                            *)
CapabilityAnswered ==
    /\ ~notice /\ left = Nothing /\ m.call.op = "capability"
    /\ \/ Become([m EXCEPT !.call.op = "rejected"]) /\ UNCHANGED <<left, resolvers>>
       \/ /\ Become([m EXCEPT !.call.op = IF resolvers = <<>> THEN "remove" ELSE "robbed"])
          /\ resolvers' = QueueAfter("removal")
          /\ left' = IF resolvers # <<>> /\ Removes THEN [op |-> "remove", cancel |-> FALSE] ELSE left
    /\ UNCHANGED <<locking, connectivity, queries, asked, custody, notice, restored>>

(* A flow is robbed in the same way, by functions that are of no use for its *)
(* capability: it can only be left.                                          *)
FlowRobbed ==
    /\ ~notice /\ left = Nothing /\ m.call.op = "onboard" /\ resolvers # <<>>
    /\ Become([m EXCEPT !.call.op = "robbed"]) /\ resolvers' = QueueAfter("flow")
    /\ UNCHANGED <<locking, left, connectivity, queries, asked, custody, notice, restored>>

(* What a stopped machine has left: it may still end, and then the worker    *)
(* takes the cancellation for a revocation; its adapter goes on unless it    *)
(* was cancelled.                                                            *)
LeftEnds ==
    /\ left.op \notin {"none", "cancel", "capability"} /\ ~notice
    /\ \E code \in Codes :
          /\ Served(left.op, code)
          /\ left' = CASE left.cancel -> [left EXCEPT !.op = "cancel"]
                       [] ~left.cancel /\ ToPromote(left.op, code) -> [left EXCEPT !.op = "promote"]
                       [] OTHER -> Nothing
    /\ Stays /\ UNCHANGED <<locking, resolvers, connectivity, queries, asked, notice, restored>>

LeftCapability ==
    /\ left.op = "capability" /\ ~notice
    /\ resolvers' = QueueAfter("removal")
    /\ left' = CASE left.cancel -> [left EXCEPT !.op = "cancel"]
                 [] ~left.cancel /\ Removes -> [left EXCEPT !.op = "remove"]
                 [] OTHER -> Nothing
    /\ Stays /\ UNCHANGED <<locking, connectivity, queries, asked, custody, notice, restored>>

CancelServed ==
    /\ left.cancel /\ left.op # "capability" /\ ~notice
    /\ left' = Nothing /\ session' = "none" /\ notice' = TRUE
    /\ Stays /\ UNCHANGED <<locking, resolvers, connectivity, queries, asked, vault, restored>>

LockServed ==
    /\ locking \in {"sent", "former"} /\ ~notice
    /\ locking' = IF locking = "sent" THEN "acknowledged" ELSE "no"
    /\ session' = "none" /\ notice' = TRUE
    /\ Stays /\ UNCHANGED <<left, resolvers, connectivity, queries, asked, vault, restored>>

(* electionAccessQuery ends.  The bridge looks at the projection again, the  *)
(* machine at the request it holds.                                          *)
ElectionAnswered ==
    /\ ~notice
    /\ \E q \in queries :
          /\ queries' = queries \ {q}
          /\ IF /\ m.auth = "authenticated" /\ connectivity = "online"
                /\ q.epoch = m.epoch /\ q.id = asked /\ q.id = request
             THEN access' = q /\ request' = NoRequest ELSE UNCHANGED <<request, access>>
    /\ UNCHANGED <<m, waits, connectivity, asked, custody, notice, histories>>

\* mutant: the machine is not told of a revocation it has not asked for
NoticedUntold(s) == Invalidated(s)

(* The machine is told first, and then what was under way is answered; the   *)
(* operation of a state it has left does not reach it.                       *)
Noticed(s) == LET lost == Lost(s) IN IF lost.auth = s.auth THEN Invalidated(lost) ELSE lost

(* An acknowledged Lock goes on before or after the answers of the others.   *)
Locked(s) ==
    LET locked == Recheck(Lock(Lost(s)))
    IN {Recheck(Lock(Noticed(s))), IF locked.auth = s.auth THEN Invalidated(locked) ELSE locked}

(* The capabilities asked for are of the epoch before: nobody issues them,   *)
(* and their resolvers stay.  A flow may be waiting for one.                 *)
StillAwaited ==
    IF "capability" \in {m.call.op, left.op} THEN {Append(resolvers, "removal")}
    ELSE {resolvers} \cup
         (IF m.auth \in {"running", "cleanup"} /\ Room
          THEN {Append(resolvers, "flow")} ELSE {})

\* mutant: a Lock that was acknowledged is not forgotten
InvalidationArrivesTwice ==
    /\ notice /\ notice' = FALSE /\ UNCHANGED locking
    /\ \E s \in CASE m.auth = "stopped" -> {m}
                   [] locking = "acknowledged" -> Locked(m)
                   [] OTHER -> {Noticed(m)} : Become(s)
    /\ queries' = {} /\ left' = Nothing /\ resolvers' \in StillAwaited
    /\ UNCHANGED <<connectivity, asked, custody, restored>>

InvalidationArrives ==
    /\ notice /\ notice' = FALSE /\ locking' = "no"
    /\ \E s \in CASE m.auth = "stopped" -> {m}
                   [] locking = "acknowledged" -> Locked(m)
                   [] OTHER -> {Noticed(m)} : Become(s)
    /\ queries' = {} /\ left' = Nothing /\ resolvers' \in StillAwaited
    /\ UNCHANGED <<connectivity, asked, custody, restored>>

-----------------------------------------------------------------------------
(* The other tabs, each with a machine of its own on the same worker.        *)

OtherTab == /\ Stays /\ UNCHANGED <<waits, connectivity, queries, asked, restored>>

OtherTabRevokes ==
    /\ Room \/ "capability" \notin {m.call.op, left.op}
    /\ ~notice /\ notice' = TRUE /\ session' = "none"
    /\ UNCHANGED vault /\ OtherTab

OtherTabUnlocks ==
    /\ vault \in {"pending", "active"}
    /\ session' \in {"verificationOnly", "authenticated"}
    /\ vault' \in (IF session' = "authenticated" THEN {vault, "active"} ELSE {vault})
    /\ UNCHANGED notice /\ OtherTab

OtherTabCreates ==
    /\ vault = "absent" /\ session = "none"
    /\ \/ session' = "verificationOnly" /\ vault' \in {"absent", "pending"}
       \/ session' = "authenticated" /\ vault' \in {"absent", "active"}
    /\ UNCHANGED notice /\ OtherTab

(* removeLocalUser closes the session and tells no one.                      *)
OtherTabRemoves ==
    /\ vault # "absent" /\ vault' \in {"absent", "halfRemoved"} /\ session' = "none"
    /\ orphaned' = (orphaned \/ m.auth = "authenticated")
    /\ UNCHANGED <<m, waits, connectivity, elections, notice, hadAccess, restored>>

-----------------------------------------------------------------------------
Init ==
    /\ m = NewMachine /\ locking = "no" /\ left = Nothing /\ resolvers = <<>>
    /\ connectivity = "offline"
    /\ request = NoRequest /\ access = None /\ queries = {} /\ asked = 0
    /\ session = "none" /\ vault \in {"absent", "pending", "active", "halfRemoved"}
    /\ notice = FALSE /\ orphaned = FALSE /\ hadAccess = FALSE /\ restored = FALSE

User ==
    \/ ChooseFlow \/ Back \/ Unlock \/ ConfirmMissingProfile \/ RemoveLocalUser \/ EndAccess
    \/ Retry \/ PressLock \/ Rebuild \/ FlowCompletes \/ FlowRobbed \/ RequestElection

OtherTabs == OtherTabRevokes \/ OtherTabUnlocks \/ OtherTabCreates \/ OtherTabRemoves

SystemStep ==
    \/ WorkerAnswers \/ CapabilityAnswered \/ LeftEnds \/ LeftCapability \/ CancelServed \/ LockServed
    \/ ElectionAnswered \/ InvalidationArrives \/ Compose

Next ==
    \/ User \/ OtherTabs \/ SystemStep
    \/ \E state \in {"online", "offline"} : Connectivity(state)

Spec == Init /\ [][Next]_vars

(* The worker answers and its notices arrive, at least while the page waits. *)
(* Nothing is assumed of the user, the other tabs or the chain.              *)
FairSpec == Spec /\ WF_vars(m.auth \in Busy /\ SystemStep)

(* As FairSpec, with a network that comes back however often it is lost.     *)
OnlineSpec == FairSpec /\ SF_vars(Connectivity("online"))

-----------------------------------------------------------------------------
AuthStates == Busy \cup Settled \cup {"missing", "stopped"}
PageOps == {"none", "inspect", "unlock", "verify", "promote", "confirm", "onboard", "clean",
            "capability", "remove", "unheard", "robbed", "rejected"}
Machine ==
    [auth : AuthStates, epoch : Nat, activeOp : 0 .. 2, call : [op : PageOps, id : 0 .. 2],
     outcome : Outcomes \cup {"none", "other"}, kind : Kinds \cup {NoKind},
     cleanupFailed : BOOLEAN, receipt : Nat]
Requests == [id : 1 .. MaxRequests, epoch : Nat, fresh : BOOLEAN]

(* Every variable has its type; a call has an id, a cancellation something   *)
(* to cancel, and an acknowledged Lock its notice on the way.                *)
TypeOK ==
    /\ m \in Machine
    /\ (m.call.op = "none" <=> m.call.id = NoOp)
    /\ locking \in {"no", "sent", "acknowledged", "former"}
    /\ locking = "acknowledged" => notice
    /\ left \in [op : PageOps \cup {"cancel"}, cancel : BOOLEAN]
    /\ left.cancel => left.op # "none"
    /\ resolvers \in Seq({"removal", "flow"})
    /\ connectivity \in {"online", "offline"}
    /\ request \in 0 .. MaxRequests /\ access \in Requests \cup {None}
    /\ queries \subseteq Requests /\ asked \in 0 .. MaxRequests
    /\ session \in {"none", "verificationOnly", "authenticated"}
    /\ vault \in {"absent", "pending", "active", "halfRemoved"}
    /\ notice \in BOOLEAN /\ orphaned \in BOOLEAN
    /\ hadAccess \in BOOLEAN /\ restored \in BOOLEAN

(* A state that waits for an operation has asked for it, under the id it     *)
(* listens for: no answer is dropped as a stale one's.  (A verification that *)
(* found no network waits for nothing.)                                      *)
HearsItsOperation ==
    m.auth \in Busy => \/ m.call # NoCall /\ m.call.id = m.activeOp
                       \/ m.auth = "verifying" /\ m.call = NoCall /\ m.outcome = "offline"

(* A page that shows the access has an open session below it, unless it is   *)
(* about to be told otherwise or another tab has removed the user.           *)
AccessHasSession == m.auth = "authenticated" => session # "none" \/ notice \/ orphaned

(* Election access is shown to the access it was asked for, and only if the  *)
(* network has been there ever since.                                        *)
ScopedAccessIsFresh ==
    access # None => /\ m.auth = "authenticated" /\ access.epoch = m.epoch
                     /\ connectivity = "online" /\ access.fresh

(* "Restored" is said of the flow that was completed last.                   *)
ReceiptIsOfLastFlow == m.receipt # 0 => restored /\ m.receipt = m.epoch

(* Two accesses of one machine have different epochs: what one of them has   *)
(* left under way is stale to the other.                                     *)
AccessIsNew ==
    [][m.auth # "authenticated" /\ m'.auth = "authenticated" => ~hadAccess \/ m'.epoch > m.epoch]_vars

(* An unlocked identity is not shown before its activation has finished.     *)
(* (The way through a missing profile does not ask for one.)                 *)
ActivatedBeforeAccess ==
    [][m.auth = "verifying" /\ m'.auth = "authenticated" => vault' # "pending"]_vars

(* What needs nobody but the worker ends: startup, a cleanup, an unlock, a   *)
(* removal, whatever other tabs revoke.  The exception is a removal that was *)
(* not given its capability: a revocation met the request, an older request  *)
(* that one had met took the answer, or the worker was not reached.          *)
NotGiven == m.auth = "removing" /\ m.call.op \in {"unheard", "robbed", "rejected"}
Waits == m.auth \in Busy \ {"running", "verifying"} /\ ~NotGiven
BusyEnds == []<>~Waits

(* machine.ts, verifyingIdentityOnline: "stay behind the locked verification *)
(* gate; the connectivity region handles retry".                             *)
VerificationRetried == (m.auth = "verifying") ~> (m.auth # "verifying")

(* lifecycle/removal.ts: "revoke all capabilities and Lock every tab".       *)
RemovalLocksEveryTab == m.auth = "authenticated" => session # "none" \/ notice
=============================================================================
