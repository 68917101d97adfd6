--------------------------- MODULE CreateUserChild --------------------------
(* CreateUserChildRuntime (auth/web/child-bridge.ts): preflight, candidate   *)
(* generation and reveal, the recovery challenge, device protection, the one *)
(* signed submission, lookup-first reconciliation, verification, promotion,  *)
(* and the cleanup that Back, Lock and a revocation share.  The root, the    *)
(* ports and the worker are those of OnboardingRoot.                         *)
(*                                                                           *)
(* A callback can be called while its screen shows: the stage says which     *)
(* screen that is, and the root shows the flow only in `running`.  Whether   *)
(* the page is visible and online is asked at each test of it and may be     *)
(* different each time.                                                      *)
EXTENDS OnboardingRoot

VARIABLE rt   \* the runtime's own fields

vars == <<sharedVars, rt>>

Attempts == 3

NewRuntime ==
    [stage |-> "preflight", cand |-> NoRef, words |-> FALSE, revealed |-> FALSE,
     ack |-> FALSE, attempts |-> Attempts, confirmed |-> FALSE, generating |-> FALSE,
     provisioned |-> FALSE, provisioning |-> FALSE, requested |-> FALSE,
     submitted |-> FALSE, submitting |-> FALSE, reconciling |-> FALSE,
     promotable |-> FALSE, promoting |-> FALSE, accepted |-> "no", poll |-> FALSE,
     deadline |-> FALSE, completed |-> FALSE, disposed |-> FALSE, lock |-> "none"]

Ended == rt.disposed \/ rt.stage = "locked"

InConfirmation(r) == r.stage \in {"waiting", "connection", "delay"}

Shown(stage) == Quiet /\ root = "running" /\ ~rt.disposed /\ rt.stage = stage

(* An event that changes the runtime only, or also calls out.                *)
Becomes(r) == rt' = r /\ UNCHANGED sharedVars
Asks(r, c) ==
    /\ rt' = r /\ calls' = calls \cup {c}
    /\ UNCHANGED <<worker, network, interruptions, lost, root, cleanup>>

(* The continuation of call c: the runtime's new state and, perhaps, the     *)
(* next call of the same function.                                           *)
Returns(c, r) ==
    /\ rt' = r /\ calls' = calls \ {c}
    /\ UNCHANGED <<worker, network, interruptions, lost, root, cleanup>>
GoesOn(c, r, op, ref) ==
    /\ rt' = r /\ calls' = (calls \ {c}) \cup {Call(c.fn, c.n, op, ref)}
    /\ UNCHANGED <<worker, network, interruptions, lost, root, cleanup>>
Answered(fn, op) == {c \in calls : c.fn = fn /\ c.op = op /\ ~Waiting(c)}

At(stage) == [rt EXCEPT !.stage = stage]

-----------------------------------------------------------------------------
(* Preflight: custody is inspected again before creation.                    *)

RetryPreflight ==
    /\ Shown("preflight") /\ ~Pending("start")
    /\ Asks(rt, Call("start", 1, "inspect", NoRef))

PreflightEnds ==
    \E c \in Answered("start", "inspect") :
       Returns(c, IF ~rt.disposed /\ c.out = "absent" THEN At("profile") ELSE rt)

ProfileContinue ==
    /\ Shown("profile") /\ \E next \in {"generating", "correcting"} : Becomes(At(next))

ContinueToProfile == Shown("correcting") /\ Becomes(At("profile"))

-----------------------------------------------------------------------------
(* Generation and reveal.                                                    *)

Generating(r) == [r EXCEPT !.confirmed = FALSE, !.stage = "generating", !.generating = TRUE]

(* The button stays off until the view is published again, after the reveal. *)
Generate ==
    /\ Shown("generating") /\ ~rt.generating /\ ~Pending("generate")
    /\ Asks(Generating(rt), Call("generate", 1, "create", NoRef))

GenerateMade ==
    \E c \in Answered("generate", "create") :
       IF c.out # "OK"
       THEN Returns(c, [At("terminal") EXCEPT !.generating = FALSE])
       ELSE IF rt.disposed
       THEN GoesOn(c, rt, "destroy", c.ref)
       ELSE GoesOn(c, [rt EXCEPT !.generating = FALSE, !.cand = c.ref], "reveal", c.ref)

GenerateDestroyed ==
    \E c \in Answered("generate", "destroy") : Returns(c, rt)

Challenge(r, shown) ==
    [r EXCEPT !.stage = "recovery", !.words = shown, !.revealed = shown, !.ack = FALSE,
              !.attempts = Attempts]

GenerateRevealed ==
    \E c \in Answered("generate", "reveal") :
       Returns(c, IF rt.disposed THEN rt
                  ELSE [Challenge(rt, c.out = "OK") EXCEPT !.cand = c.ref])

(* The reveal window: a timer, a hidden page.                                *)
Conceal ==
    /\ Quiet /\ ~rt.disposed /\ rt.revealed
    /\ Becomes([rt EXCEPT !.revealed = FALSE])

Regenerate ==
    /\ Shown("recovery") /\ ~Pending("regenerate")
    /\ LET r == [rt EXCEPT !.confirmed = FALSE, !.revealed = FALSE, !.words = FALSE, !.ack = FALSE]
       IN IF r.cand # NoRef
          THEN Asks(r, Call("regenerate", 1, "destroy", r.cand))
          ELSE /\ ~r.generating
               /\ Asks(Generating(r), Call("generate", 1, "create", NoRef))

RegenerateDestroyed ==
    \E c \in Answered("regenerate", "destroy") :
       IF c.out # "OK" THEN Returns(c, At("terminal"))
       ELSE IF rt.disposed \/ rt.generating THEN Returns(c, rt)
       ELSE /\ rt' = Generating(rt)
            /\ calls' = (calls \ {c}) \cup {Call("generate", 1, "create", NoRef)}
            /\ UNCHANGED <<worker, network, interruptions, lost, root, cleanup>>

Acknowledge ==
    /\ Shown("recovery") /\ \E value \in BOOLEAN : Becomes([rt EXCEPT !.ack = value])

RecoveryContinue ==
    /\ Shown("recovery") /\ rt.revealed /\ rt.ack /\ rt.words
    /\ Becomes([At("confirmRecovery") EXCEPT !.revealed = FALSE])

\* mutant: the challenge stays open after the last wrong answer
ConfirmVerifyUnbounded ==
    /\ Shown("confirmRecovery")
    /\ \/ ~rt.words /\ Becomes(At("terminal"))
       \/ rt.words /\ Becomes([At("protect") EXCEPT !.confirmed = TRUE])
       \/ rt.words /\ Becomes([rt EXCEPT !.attempts = @ - 1])

(* The challenge closes after the last wrong answer.                         *)
ConfirmVerify ==
    /\ Shown("confirmRecovery") /\ rt.attempts > 0
    /\ \/ ~rt.words /\ Becomes(At("terminal"))
       \/ rt.words /\ Becomes([At("protect") EXCEPT !.confirmed = TRUE])
       \/ rt.words /\ Becomes([rt EXCEPT !.attempts = @ - 1])

(* The call's n tells the stage the review began in.                         *)
ReviewAll ==
    /\ Quiet /\ root = "running" /\ ~rt.disposed /\ ~Pending("review") /\ rt.cand # NoRef
    /\ \/ rt.stage = "confirmRecovery" /\ Asks(rt, Call("review", 1, "reveal", rt.cand))
       \/ rt.stage = "recovery" /\ ~rt.revealed /\ Asks(rt, Call("review", 2, "reveal", rt.cand))

ReviewRevealed ==
    \E c \in Answered("review", "reveal") :
       LET stage == IF c.n = 1 THEN "confirmRecovery" ELSE "recovery"
       IN Returns(c, IF rt.disposed \/ rt.stage # stage \/ rt.cand # c.ref \/ c.out # "OK" THEN rt
                     ELSE [Challenge(rt, TRUE) EXCEPT !.confirmed = FALSE])

-----------------------------------------------------------------------------
(* Protection.  The screen stays open while a provision runs: a second       *)
(* press is a second instance of the function.                               *)

Protect ==
    /\ Shown("protect") /\ rt.confirmed
    /\ \/ rt.cand = NoRef /\ Becomes(At("terminal"))
       \/ /\ rt.cand # NoRef
          /\ \E n \in 1 .. 2 : /\ ~\E c \in calls : c.fn = "protect" /\ c.n = n
                               /\ Asks(rt, Call("protect", n, "capability", NoRef))

ProtectIssued ==
    \E c \in Answered("protect", "capability") :
       IF c.out # "OK" \/ rt.disposed THEN Returns(c, rt)
       ELSE GoesOn(c, [rt EXCEPT !.provisioning = TRUE], "provision", rt.cand)

Protected(c, r) ==
    IF c.out # "OK" THEN [r EXCEPT !.provisioning = FALSE]
    ELSE [r EXCEPT !.provisioning = FALSE, !.provisioned = TRUE,
                   !.stage = IF r.disposed THEN r.stage ELSE "review"]

-----------------------------------------------------------------------------
(* Cleanup.  One promise is shared by Back, the ports and cancellation; it   *)
(* waits for a provision under way, then locks or destroys.                  *)

Dispose(r) == [r EXCEPT !.disposed = TRUE, !.words = FALSE, !.revealed = FALSE,
                        !.poll = FALSE, !.deadline = FALSE]

(* The port answers the root's cleanup; a cancellation has no one waiting.   *)
CleanupSettles(cs, r, waiting, ok) ==
    /\ cleanup' = IF ok THEN "complete" ELSE "failed"
    /\ rt' = IF ok THEN [r EXCEPT !.cand = NoRef] ELSE [r EXCEPT !.lock = "none"]
    /\ RootBecomes(IF waiting # "cleaning" THEN waiting
                   ELSE IF ok THEN "initializing" ELSE "cleanupFailed", cs)

\* mutant: a provisioned flow has nothing left to discard
DiscardCandidate(cs, r, waiting) ==
    IF r.cand # NoRef /\ ~r.provisioned
    THEN /\ cleanup' = "destroy" /\ rt' = r
         /\ RootBecomes(waiting, cs \cup {CallAfter(cs, "cleanup", 1, "destroy", r.cand)})
    ELSE CleanupSettles(cs, r, waiting, TRUE)

Discard(cs, r, waiting) ==
    IF r.provisioned
    THEN IF r.lock \in {"none", "pending"}
         THEN /\ cleanup' = "lock" /\ rt' = [r EXCEPT !.lock = "pending"]
              /\ RootBecomes(waiting, IF r.lock = "pending" THEN cs
                              ELSE cs \cup {CallAfter(cs, "lock", 1, "lockAll", NoRef)})
         ELSE CleanupSettles(cs, r, waiting, r.lock = "OK")
    ELSE IF r.cand # NoRef
         THEN /\ cleanup' = "destroy" /\ rt' = r
              /\ RootBecomes(waiting, cs \cup {CallAfter(cs, "cleanup", 1, "destroy", r.cand)})
         ELSE CleanupSettles(cs, r, waiting, TRUE)

BeginCleanup(cs, r, waiting) ==
    IF cleanup = "complete" THEN CleanupSettles(cs, Dispose(r), waiting, TRUE)
    ELSE IF cleanup \notin {"idle", "failed"}
    THEN rt' = r /\ RootBecomes(waiting, cs) /\ UNCHANGED cleanup
    ELSE IF r.provisioning
    THEN rt' = Dispose(r) /\ RootBecomes(waiting, cs) /\ cleanup' = "provisioning"
    ELSE Discard(cs, Dispose(r), waiting)

(* onProtect's answer; a cleanup that waits for it goes on.                  *)
ProtectProvisioned ==
    \E c \in Answered("protect", "provision") :
       LET r == Protected(c, rt)
       IN /\ IF cleanup = "provisioning" THEN Discard(calls \ {c}, r, root)
             ELSE rt' = r /\ calls' = calls \ {c} /\ UNCHANGED <<root, cleanup>>
          /\ UNCHANGED <<worker, network, interruptions, lost>>

\* mutant: a destruction that fails leaves the cleanup unanswered
CleanupDestroyedOrNothing ==
    \E c \in Answered("cleanup", "destroy") :
       IF c.out = "OK"
       THEN /\ CleanupSettles(calls \ {c}, rt, root, TRUE)
            /\ UNCHANGED <<worker, network, interruptions, lost>>
       ELSE Returns(c, rt)

CleanupDestroyed ==
    \E c \in Answered("cleanup", "destroy") :
       /\ CleanupSettles(calls \ {c}, rt, root, c.out = "OK")
       /\ UNCHANGED <<worker, network, interruptions, lost>>

LockAnswered ==
    \E c \in Answered("lock", "lockAll") :
       LET r == [rt EXCEPT !.lock = IF c.out = "OK" THEN "OK" ELSE "failed"]
       IN /\ IF cleanup = "lock" THEN CleanupSettles(calls \ {c}, r, root, c.out = "OK")
             ELSE rt' = r /\ calls' = calls \ {c} /\ UNCHANGED <<root, cleanup>>
          /\ UNCHANGED <<worker, network, interruptions, lost>>

(* INTENT.BACK_FROM_ONBOARDING and the retry of a cleanup that failed.       *)
Back ==
    /\ Quiet /\ root = "running"
    /\ BeginCleanup(calls, rt, "cleaning")
    /\ UNCHANGED <<worker, network, interruptions, lost>>

(* The page's own Back tells the runtime first; the root hears of it from    *)
(* the history entry it pops, a task later.                                  *)
BackButton ==
    /\ Quiet /\ root = "running"
    /\ BeginCleanup(calls, rt, "running")
    /\ UNCHANGED <<worker, network, interruptions, lost>>

RetryCleanup ==
    /\ Quiet /\ root = "cleanupFailed"
    /\ BeginCleanup(calls, rt, "cleaning")
    /\ UNCHANGED <<worker, network, interruptions, lost>>

(* The worker revokes everything, for this page's lockAll or another tab's;  *)
(* the root, told, cancels the runtime before any pending promise goes on.   *)
Revoke(locks) ==
    /\ WipeSecrets
    /\ LET cs == RevokedCalls(locks)
       IN IF root = "running" THEN BeginCleanup(cs, rt, "initializing")
          ELSE RootBecomes(RootLost, cs) /\ UNCHANGED <<cleanup, rt>>
    /\ UNCHANGED <<network, lost>>

LockAll ==
    /\ Quiet
    /\ \E c \in calls : c.op = "lockAll" /\ IsFirst(c) /\ Revoke({c}) /\ LockInterrupts(c)

OtherTabRevokes ==
    /\ Quiet /\ interruptions < MaxInterruptions /\ interruptions' = interruptions + 1
    /\ root \in {"running", "cleaning", "initializing"}
    /\ Revoke({})

Locked(r) == [r EXCEPT !.stage = "locked", !.poll = FALSE, !.deadline = FALSE,
                       !.words = FALSE, !.revealed = FALSE]

\* mutant: onLock sends a lock the cleanup knows nothing of
LockAlone ==
    /\ Quiet /\ root = "running" /\ ~rt.disposed /\ InConfirmation(rt)
    /\ Asks(Locked(rt), Call("lock", 1, "lockAll", NoRef))

(* onLock: the lock is shared with the cleanup it will cause.                *)
Lock ==
    /\ Quiet /\ root = "running" /\ ~rt.disposed /\ InConfirmation(rt)
    /\ IF rt.lock = "none"
       THEN Asks([Locked(rt) EXCEPT !.lock = "pending"], Call("lock", 1, "lockAll", NoRef))
       ELSE Becomes(Locked(rt))
-----------------------------------------------------------------------------
(* Registration: one lookup admits one submission; after it, only lookups.   *)

Reconnecting(r) == [r EXCEPT !.stage = "connection"]

\* mutant: a poll whose deadline is armed counts as running
PollingUnlessTimed(r) == IF r.deadline THEN r ELSE [r EXCEPT !.poll = TRUE]

(* ensureConfirmationPolling: past the deadline, polling gives way to delay. *)
Polling(r) ==
    IF r.accepted = "delayed"
    THEN [r EXCEPT !.poll = FALSE, !.deadline = FALSE, !.stage = "delay"]
    ELSE [r EXCEPT !.poll = TRUE]

StopPolling(r) == [r EXCEPT !.poll = FALSE, !.deadline = FALSE]

SubmitAfterLookup(r) ==
    IF ~r.requested \/ r.submitted \/ r.submitting THEN Becomes(r)
    ELSE \/ Becomes(Reconnecting(r))
         \/ Asks([r EXCEPT !.submitting = TRUE], Call("submit", 1, "lookup", NoRef))

CreateIdentity ==
    /\ Shown("review") /\ rt.provisioned /\ rt.confirmed /\ ~rt.completed
    /\ SubmitAfterLookup([rt EXCEPT !.requested = TRUE])

\* mutant: a submission is only remembered by its answer
MarkNothing(r) == r

(* Before the transaction is sent, whatever becomes of it.                   *)
MarkSubmitted(r) == [r EXCEPT !.submitted = TRUE]

SubmitLooked ==
    \E c \in Answered("submit", "lookup") :
       LET r == [rt EXCEPT !.submitting = FALSE]
       IN IF Ended THEN Returns(c, r)
          ELSE \/ Returns(c, Reconnecting(r))
               \/ c.out = "foreign" /\ Returns(c, [r EXCEPT !.stage = "terminal"])
               \/ c.out = "ours" /\ GoesOn(c, rt, "verify", NoRef)
               \/ c.out = "absent" /\ GoesOn(c, MarkSubmitted(rt), "submit", NoRef)

CanReconcile(r) ==
    /\ ~r.disposed /\ ~r.completed /\ ~r.promotable /\ ~r.submitting /\ ~r.reconciling
    /\ InConfirmation(r)

(* The poll is armed, and the first reconciliation runs when it may.         *)
SubmitSent ==
    \E c \in Answered("submit", "submit") :
       LET r == [rt EXCEPT !.submitting = FALSE]
           timed == IF c.out = "accepted" /\ r.accepted = "no"
                    THEN [r EXCEPT !.accepted = "yes", !.deadline = TRUE] ELSE r
           waiting == Polling([timed EXCEPT !.stage = "waiting"])
       IN IF Ended THEN Returns(c, r)
          ELSE IF c.out = "terminalRejection" THEN Returns(c, [r EXCEPT !.stage = "terminal"])
          ELSE IF c.out \notin {"accepted", "alreadyExists"} THEN Returns(c, Reconnecting(r))
          ELSE \/ Returns(c, waiting)
               \/ /\ CanReconcile(waiting)
                  /\ rt' = [waiting EXCEPT !.reconciling = TRUE]
                  /\ calls' = (calls \ {c}) \cup {Call("reconcile", 1, "lookup", NoRef)}
                  /\ UNCHANGED <<worker, network, interruptions, lost, root, cleanup>>

Reconcile ==
    /\ CanReconcile(rt)
    /\ Asks([rt EXCEPT !.reconciling = TRUE], Call("reconcile", 1, "lookup", NoRef))

ReconcileLooked ==
    \E c \in Answered("reconcile", "lookup") :
       LET r == [rt EXCEPT !.reconciling = FALSE]
       IN IF Ended THEN Returns(c, r)
          ELSE CASE c.out = "ours" -> GoesOn(c, rt, "verify", NoRef)
                 [] c.out = "foreign" -> Returns(c, StopPolling([r EXCEPT !.stage = "terminal"]))
                 [] c.out = "absent" -> Returns(c, Polling([r EXCEPT !.stage = "waiting"]))
                 [] OTHER -> Returns(c, IF r.accepted = "delayed" THEN [r EXCEPT !.stage = "delay"]
                                        ELSE Reconnecting(r))

(* Verification and promotion run inside whichever function began them.      *)
Leaves(fn, r) ==
    CASE fn = "submit" -> [r EXCEPT !.submitting = FALSE]
      [] fn = "reconcile" -> [r EXCEPT !.reconciling = FALSE]
      [] OTHER -> r

Verified ==
    \E c \in Answered("submit", "verify") \cup Answered("reconcile", "verify") :
       LET r == StopPolling([rt EXCEPT !.promotable = TRUE])
       IN IF Ended THEN Returns(c, Leaves(c.fn, rt))
          ELSE IF c.out # "OK" THEN Returns(c, Leaves(c.fn, At("delay")))
          ELSE IF r.completed \/ r.promoting THEN Returns(c, Leaves(c.fn, r))
          ELSE GoesOn(c, [r EXCEPT !.promoting = TRUE], "promote", NoRef)

(* The completion settles the port's operation: the root goes on to verify,  *)
(* and leaving the flow cancels nothing.                                     *)
Completes(c, r) ==
    /\ rt' = [r EXCEPT !.promotable = FALSE, !.stage = "finishCreating", !.completed = TRUE]
    /\ calls' = calls \ {c}
    /\ root' = IF root = "running" THEN "verifying" ELSE root
    /\ UNCHANGED <<worker, network, interruptions, lost, cleanup>>

Promoted ==
    \E fn \in {"submit", "reconcile", "promote"} : \E c \in Answered(fn, "promote") :
       LET r == Leaves(fn, [rt EXCEPT !.promoting = FALSE])
       IN IF Ended THEN Returns(c, r)
          ELSE IF c.out # "OK" THEN Returns(c, [r EXCEPT !.stage = "delay"])
          ELSE Completes(c, r)

CheckAgain ==
    /\ Shown("waiting") \/ Shown("delay")
    /\ IF rt.promotable
       THEN ~rt.promoting /\ Asks([rt EXCEPT !.promoting = TRUE], Call("promote", 1, "promote", NoRef))
       ELSE Reconcile

RetryConnection ==
    /\ Shown("connection")
    /\ IF rt.requested /\ ~rt.submitted THEN SubmitAfterLookup(rt) ELSE Reconcile

PollTick == Quiet /\ rt.poll /\ Reconcile

TimePasses ==
    /\ Quiet /\ ~rt.disposed /\ rt.accepted = "yes"
    /\ Becomes([rt EXCEPT !.accepted = "delayed"])

DeadlineFires ==
    /\ Quiet /\ rt.deadline /\ rt.accepted = "delayed"
    /\ Becomes(IF ~Ended /\ InConfirmation(rt)
               THEN [StopPolling(rt) EXCEPT !.stage = "delay"] ELSE StopPolling(rt))

-----------------------------------------------------------------------------
Init ==
    /\ SharedInit /\ profile \in {"absent", "foreign"}
    /\ rt = NewRuntime /\ calls = {Posted("start", 1, "inspect", NoRef, 1)}

UserActs ==
    \/ RetryPreflight \/ ProfileContinue \/ ContinueToProfile \/ Generate \/ Regenerate
    \/ Acknowledge \/ RecoveryContinue \/ ConfirmVerify \/ ReviewAll \/ Protect
    \/ CreateIdentity \/ CheckAgain \/ RetryConnection \/ Lock \/ Back \/ BackButton \/ RetryCleanup

TimersFire == Conceal \/ PollTick \/ TimePasses \/ DeadlineFires

RuntimeGoesOn ==
    \/ PreflightEnds \/ GenerateMade \/ GenerateDestroyed \/ GenerateRevealed
    \/ RegenerateDestroyed \/ ReviewRevealed \/ ProtectIssued \/ ProtectProvisioned
    \/ SubmitLooked \/ SubmitSent \/ ReconcileLooked \/ Verified \/ Promoted
    \/ CleanupDestroyed \/ LockAnswered

WorkerAnswers ==
    \/ /\ Quiet
       /\ \E c \in calls : \/ TurnedAway(c) \/ ServeSync(c) \/ StartAsync(c)
                            \/ FinishAsync(c) \/ LookupEnds(c, {profile})
       /\ UNCHANGED rt
    \/ LockAll

SystemStep ==
    \/ RuntimeGoesOn
    \/ (\E c \in calls : RootContinues(c)) /\ UNCHANGED rt
    \/ WorkerAnswers
    \/ GhostProvision /\ UNCHANGED rt

Next ==
    \/ UserActs \/ TimersFire \/ SystemStep \/ OtherTabRevokes
    \/ RootRetry /\ UNCHANGED rt
    \/ NetworkConfirms /\ UNCHANGED rt

Spec == Init /\ [][Next]_vars

(* The worker answers what it admits, a fetch ends or times out, microtasks  *)
(* run: nothing is assumed of the user, of other tabs or of the chain.       *)
FairSpec == Spec /\ WF_vars(SystemStep)

-----------------------------------------------------------------------------
Runtimes ==
    [stage : {"preflight", "profile", "correcting", "generating", "recovery", "confirmRecovery",
              "protect", "review", "waiting", "delay", "connection", "finishCreating", "locked",
              "terminal"},
     cand : Refs \cup {NoRef}, words : BOOLEAN, revealed : BOOLEAN, ack : BOOLEAN,
     attempts : 0 .. Attempts, confirmed : BOOLEAN, generating : BOOLEAN,
     provisioned : BOOLEAN, provisioning : BOOLEAN, requested : BOOLEAN, submitted : BOOLEAN,
     submitting : BOOLEAN, reconciling : BOOLEAN, promotable : BOOLEAN, promoting : BOOLEAN,
     accepted : {"no", "yes", "delayed"}, poll : BOOLEAN, deadline : BOOLEAN,
     completed : BOOLEAN, disposed : BOOLEAN, lock : {"none", "pending", "OK", "failed"}]

TypeOK == SharedTypeOK /\ rt \in Runtimes

(* A registration goes out for words the user has confirmed.                 *)
PostedAsAsked == rt.requested /\ rt.confirmed

(* Back comes out at a root whose worker has given up what the flow made: no *)
(* candidate but one that was being generated then, and no open session but  *)
(* that of a provision which outlived its revocation.                        *)
BackLeavesNothing ==
    root \in {"choices", "locked", "storageUnavailable"} =>
        owner \in {"none", "stray"} /\ (live # {} => rt.generating)

(* One Lock or one Back revokes the authority once: the inspection the root  *)
(* starts after it is not revoked by the flow it has left.                   *)
InspectionUndisturbed == root = "custodyLost" => interruptions > 0

(* A flow that shows "waiting" asks the network again by itself.             *)
RegistrationPolls ==
    rt.stage = "waiting" /\ ~rt.disposed /\ root = "running" =>
        \/ rt.poll
        \/ rt.submitting \/ rt.reconciling \/ rt.promoting

(* The words the user confirmed are those of the only identity held.         *)
OneIdentity ==
    rt.stage \in {"protect", "review", "waiting", "delay"} /\ ~rt.disposed => live \subseteq {rt.cand}
=============================================================================
