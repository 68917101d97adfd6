------------------------- MODULE RecoveryWordsChild -------------------------
(* RecoveryWordsChildRuntime (auth/web/child-bridge.ts): the guard on entry, *)
(* derivation of one candidate per producer the phrase fits, their lookup,   *)
(* the choice of one and the destruction of the others, the review that a    *)
(* missing profile needs, protection with or without a vault, registration,  *)
(* verification and promotion, and a cleanup that also revokes a failed      *)
(* staging.  Root, ports, client and worker are those of OnboardingRoot.     *)
(*                                                                           *)
(* A lookup may answer for any candidate and from any node, so its answers   *)
(* are free; verification answers from `profile`.  A typed error that leaves *)
(* the screen as it was (word count, alias, password policy) is left out.    *)
EXTENDS OnboardingRoot, Sequences, SequencesExt

VARIABLE rt   \* the runtime's own fields

vars == <<sharedVars, rt>>

NewRuntime ==
    [stage |-> "vaultGuard", cands |-> <<>>, found |-> [r \in Refs |-> "unknown"],
     chosen |-> NoRef, selected |-> NoRef, error |-> FALSE, ack |-> FALSE,
     sessionOnly |-> FALSE, provisioned |-> FALSE, provisioning |-> FALSE, missing |-> FALSE,
     reviewed |-> FALSE, poll |-> FALSE, activating |-> FALSE, failedStage |-> "no",
     disposed |-> FALSE]

Shown(stages) == Quiet /\ root = "running" /\ ~rt.disposed /\ rt.stage \in stages
At(stage) == [rt EXCEPT !.stage = stage]

Becomes(r) == rt' = r /\ UNCHANGED sharedVars
Calls(r, cs) ==
    rt' = r /\ calls' = cs /\ UNCHANGED <<worker, network, interruptions, lost, root, cleanup>>
Asks(r, c) == Calls(r, calls \cup {c})
Returns(c, r) == Calls(r, calls \ {c})
GoesOn(c, r, op, ref) == Calls(r, (calls \ {c}) \cup {Call(c.fn, c.n, op, ref)})
Answered(fns, op) == {c \in calls : c.fn \in fns /\ c.op = op /\ ~Waiting(c)}

-----------------------------------------------------------------------------
(* Entry: only verified absence admits a phrase.                             *)

(* onRetry, from the guard or a terminal screen.  A failed staging has left  *)
(* the root by the time its lock is answered, so none is pending here.       *)
Restart ==
    /\ Shown({"vaultGuard", "terminal"}) /\ ~Pending("entry")
    /\ Asks(At("vaultGuard"), Call("entry", 1, "inspect", NoRef))

EntryInspected ==
    \E c \in Answered({"entry"}, "inspect") :
       Returns(c, IF rt.disposed THEN rt
                  ELSE At(IF c.out = "absent" THEN "wordEntry" ELSE "vaultGuard"))

-----------------------------------------------------------------------------
(* Derivation and lookup.                                                    *)

Verify ==
    /\ Shown({"wordEntry"})
    /\ Asks(At("verifying"), Call("derive", 1, "derive", NoRef))

(* The call's ref is how many candidates came, the last of all made.         *)
NewRefs(c) == [i \in 1 .. c.ref |-> made - c.ref + i]

Unknown(r) == {i \in 1 .. Len(r.cands) : r.found[r.cands[i]] = "unknown"}
NextUnknown(r) == r.cands[CHOOSE i \in Unknown(r) : \A j \in Unknown(r) : i <= j]
Found(r) == {ref \in ToSet(r.cands) : r.found[ref] = "ours"}

Review(r) ==
    [r EXCEPT !.stage = IF Cardinality(Found(r)) = 1 THEN "existingProfileVerify"
                        ELSE IF Found(r) # {} THEN "profileSelection" ELSE "candidateSelection"]

(* lookup(): the candidates not resolved yet, one after the other.           *)
LookUp(cs, fn, r) ==
    LET looking == [r EXCEPT !.stage = "lookup", !.error = FALSE]
    IN IF Unknown(r) = {} THEN Calls(Review(looking), cs)
       ELSE Calls(looking, cs \cup {Call(fn, 1, "lookup", NextUnknown(r))})

Holding(r, refs) == [r EXCEPT !.cands = refs, !.found = [ref \in Refs |-> "unknown"]]

(* A late answer is destroyed candidate by candidate; n counts the others.   *)
Derived ==
    \E c \in Answered({"derive"}, "derive") :
       IF rt.disposed
       THEN IF c.out # "OK" THEN Returns(c, rt)
            ELSE Calls(rt, (calls \ {c}) \cup
                       {Call("derive", c.ref - 1, "destroy", NewRefs(c)[1])})
       ELSE IF c.out # "OK" THEN Returns(c, At("wordEntry"))
       ELSE LookUp(calls \ {c}, "lookup", Holding(rt, NewRefs(c)))

DerivedDestroyed ==
    \E c \in Answered({"derive"}, "destroy") :
       IF c.n = 0 THEN Returns(c, rt)
       ELSE Calls(rt, (calls \ {c}) \cup {Call("derive", c.n - 1, "destroy", c.ref + 1)})

LookedUp ==
    \E c \in Answered({"lookup"}, "lookup") :
       IF rt.disposed THEN Returns(c, rt)
       ELSE CASE c.out = "transportFailure" -> Returns(c, [rt EXCEPT !.error = TRUE])
              [] c.out = "foreign" -> Returns(c, At("terminal"))
              [] OTHER ->
                   LET r == [rt EXCEPT !.found[c.ref] = c.out]
                   IN IF Unknown(r) = {} THEN Returns(c, Review(r))
                      ELSE Calls(r, (calls \ {c}) \cup {Call("lookup", 1, "lookup", NextUnknown(r))})

RetryLookup == Shown({"lookup"}) /\ rt.error /\ LookUp(calls, "lookup", rt)

-----------------------------------------------------------------------------
(* The choice.                                                               *)

Reviewing == {"candidateSelection", "profileSelection", "existingProfileVerify"}
Entries(r) == IF Found(r) # {} THEN Found(r) ELSE ToSet(r.cands)

SelectCandidate ==
    /\ Shown({"candidateSelection", "profileSelection"})
    /\ \E ref \in Entries(rt) : Becomes([rt EXCEPT !.chosen = ref])

\* mutant: only the candidates the network knows are destroyed
UnselectedKnown(r) == {ref \in ToSet(r.cands) \ {r.selected} : r.found[ref] = "ours"}

Unselected(r) == ToSet(r.cands) \ {r.selected}

\* mutant: a missing profile goes to protection like an existing one
ReviewSkipped(r, missing) ==
    [r EXCEPT !.missing = missing, !.reviewed = FALSE, !.stage = "protection"]

Reviewed(r, missing) ==
    [r EXCEPT !.missing = missing, !.reviewed = FALSE,
              !.stage = IF missing THEN "recreateReview" ELSE "protection"]

\* What is known of a candidate goes with it.
Keeping(r, refs) ==
    [r EXCEPT !.cands = refs,
              !.found = [ref \in Refs |-> IF ref \in ToSet(refs) THEN @[ref] ELSE "unknown"]]

(* The proof: what was not selected is destroyed before anything is kept.    *)
Proved(cs, r, left) ==
    IF left = {}
    THEN Calls(Reviewed(Keeping(r, <<r.selected>>), r.found[r.selected] # "ours"), cs)
    ELSE Calls(r, cs \cup {Call("proof", 1, "destroy", CHOOSE ref \in left : TRUE)})

ConfirmExistingProfile ==
    /\ Shown(Reviewing)
    /\ \E ref \in Entries(rt) :
          /\ Entries(rt) = {ref} \/ rt.chosen = ref
          /\ LET r == [At("proof") EXCEPT !.selected = ref]
             IN Proved(calls, r, Unselected(r))

ProofDestroyed ==
    \E c \in Answered({"proof"}, "destroy") :
       IF rt.disposed THEN Returns(c, rt)
       ELSE IF c.out # "OK" THEN Returns(c, At("terminal"))
       ELSE Proved(calls \ {c}, rt, Unselected(rt) \ {c.ref})

(* A missing profile is only registered after the user has reviewed it.      *)
ConfirmRecreate ==
    /\ Shown({"recreateReview"}) /\ rt.missing
    /\ LET r == [rt EXCEPT !.reviewed = TRUE]
       IN IF r.provisioned
          THEN Asks([r EXCEPT !.stage = "registration"], Call("recreate", 1, "submit", NoRef))
          ELSE Becomes([r EXCEPT !.stage = "protection"])

-----------------------------------------------------------------------------
(* Protection and staging.                                                   *)

ChooseProtection ==
    /\ Shown({"protection"})
    /\ \/ \E only \in BOOLEAN : Becomes([rt EXCEPT !.sessionOnly = only])
       \/ Becomes([rt EXCEPT !.ack = TRUE])

Protect ==
    /\ Shown({"protection"}) /\ rt.ack
    /\ Asks(At("staging"), Call("protect", 1, "capability", NoRef))

\* mutant: the choice of a session without a vault is not looked at
StagingKept(r) == "provision"

Staging(r) == IF r.sessionOnly THEN "provisionSession" ELSE "provision"

ProtectIssued ==
    \E c \in Answered({"protect"}, "capability") :
       IF c.out # "OK" \/ rt.disposed THEN Returns(c, rt)
       ELSE GoesOn(c, [rt EXCEPT !.provisioning = TRUE], Staging(rt), rt.selected)

-----------------------------------------------------------------------------
(* Cleanup: it waits for a staging under way, then for the revocation of a   *)
(* failed one, then locks or destroys what it holds one by one.              *)

Dispose(r) == [r EXCEPT !.disposed = TRUE, !.poll = FALSE]

CleanupSettles(cs, r, waiting, ok) ==
    /\ cleanup' = IF ok THEN "complete" ELSE "failed"
    /\ rt' = r
    /\ RootBecomes(IF waiting # "cleaning" THEN waiting
                   ELSE IF ok THEN "initializing" ELSE "cleanupFailed", cs)

(* clearFailedStage shares one lock among its callers.                       *)
ClearFailedStage(cs) == cs \cup {CallAfter(cs, "failedStage", 1, "lockAll", NoRef)}

Discard(cs, r, waiting) ==
    CASE r.failedStage = "locking" ->
           cleanup' = "failedStage" /\ rt' = r /\ RootBecomes(waiting, cs)
      [] r.failedStage = "needed" ->
           /\ cleanup' = "failedStage" /\ rt' = [r EXCEPT !.failedStage = "locking"]
           /\ RootBecomes(waiting, ClearFailedStage(cs))
      [] r.failedStage = "no" /\ r.provisioned ->
           /\ cleanup' = "lock" /\ rt' = r
           /\ RootBecomes(waiting, cs \cup {CallAfter(cs, "cleanup", 1, "lockAll", NoRef)})
      [] r.failedStage = "no" /\ ~r.provisioned /\ r.cands # <<>> ->
           /\ cleanup' = "destroy" /\ rt' = r
           /\ RootBecomes(waiting, cs \cup {CallAfter(cs, "cleanup", 1, "destroy", Head(r.cands))})
      [] OTHER -> CleanupSettles(cs, r, waiting, TRUE)

BeginCleanup(cs, r, waiting) ==
    IF cleanup = "complete" THEN CleanupSettles(cs, r, waiting, TRUE)
    ELSE IF cleanup \notin {"idle", "failed"}
    THEN rt' = r /\ RootBecomes(waiting, cs) /\ UNCHANGED cleanup
    ELSE IF r.provisioning
    THEN rt' = Dispose(r) /\ RootBecomes(waiting, cs) /\ cleanup' = "provisioning"
    ELSE Discard(cs, Dispose(r), waiting)

\* mutant: a destruction that failed is taken for done
CleanupDestroyedAnyhow ==
    \E c \in Answered({"cleanup"}, "destroy") :
       /\ Discard(calls \ {c}, Keeping(rt, Tail(rt.cands)), root)
       /\ UNCHANGED <<worker, network, interruptions, lost>>

CleanupDestroyed ==
    \E c \in Answered({"cleanup"}, "destroy") :
       /\ IF c.out = "OK" THEN Discard(calls \ {c}, Keeping(rt, Tail(rt.cands)), root)
          ELSE CleanupSettles(calls \ {c}, rt, root, FALSE)
       /\ UNCHANGED <<worker, network, interruptions, lost>>

CleanupLocked ==
    \E c \in Answered({"cleanup"}, "lockAll") :
       /\ IF c.out = "OK" THEN CleanupSettles(calls \ {c}, Keeping(rt, <<>>), root, TRUE)
          ELSE CleanupSettles(calls \ {c}, rt, root, FALSE)
       /\ UNCHANGED <<worker, network, interruptions, lost>>

(* Its callers go on: failStaging shows the terminal screen, a cleanup that  *)
(* waited for it goes on or fails.                                           *)
FailedStageLocked ==
    \E c \in Answered({"failedStage"}, "lockAll") :
       LET r == IF c.out = "OK"
                THEN [Keeping(At("terminal"), <<>>) EXCEPT
                         !.chosen = NoRef, !.selected = NoRef, !.ack = FALSE, !.failedStage = "no"]
                ELSE [At("terminal") EXCEPT !.failedStage = "needed"]
       IN /\ IF cleanup # "failedStage"
             THEN rt' = r /\ calls' = calls \ {c} /\ UNCHANGED <<root, cleanup>>
             ELSE IF c.out = "OK" THEN Discard(calls \ {c}, r, root)
             ELSE CleanupSettles(calls \ {c}, r, root, FALSE)
          /\ UNCHANGED <<worker, network, interruptions, lost>>

(* onProtect's answer: a failure revokes, even when the flow was left; a     *)
(* success goes on to register or to verify; a waiting cleanup goes on.      *)
ProtectProvisioned ==
    \E c \in Answered({"protect"}, "provision") \cup Answered({"protect"}, "provisionSession") :
       LET failed == [rt EXCEPT !.provisioning = FALSE, !.failedStage = "locking"]
           staged == [rt EXCEPT !.provisioning = FALSE, !.provisioned = TRUE]
           rest   == IF c.out = "OK" THEN calls \ {c} ELSE ClearFailedStage(calls \ {c})
           r      == IF c.out = "OK" THEN staged ELSE failed
       IN /\ IF cleanup = "provisioning" THEN Discard(rest, r, root)
             ELSE /\ UNCHANGED <<root, cleanup>>
                  /\ IF c.out # "OK" \/ rt.disposed THEN rt' = r /\ calls' = rest
                     ELSE IF r.missing
                     THEN /\ rt' = [r EXCEPT !.stage = "registration"]
                          /\ calls' = rest \cup {Call("protect", 1, "submit", NoRef)}
                     ELSE /\ rt' = [r EXCEPT !.stage = "activating"]
                          /\ calls' = rest \cup {Call("protect", 1, "verify", NoRef)}
          /\ UNCHANGED <<worker, network, interruptions, lost>>

Back ==
    /\ Quiet /\ \/ root = "running" /\ \E next \in {"running", "cleaning"} : BeginCleanup(calls, rt, next)
                \/ root = "cleanupFailed" /\ BeginCleanup(calls, rt, "cleaning")
    /\ UNCHANGED <<worker, network, interruptions, lost>>

Revoke(locks) ==
    /\ WipeSecrets
    /\ LET cs == RevokedCalls(locks)
       IN IF root = "running" THEN BeginCleanup(cs, rt, "initializing")
          ELSE RootBecomes(RootLost, cs) /\ UNCHANGED <<cleanup, rt>>
    /\ UNCHANGED <<network, lost>>

LockAll ==
    /\ Quiet
    /\ \E c \in calls : c.op = "lockAll" /\ IsFirst(c) /\ Revoke({c}) /\ LockInterrupts(c)

OtherTabRevokes ==
    /\ Quiet /\ interruptions < MaxInterruptions /\ interruptions' = interruptions + 1
    /\ root \in {"running", "cleaning", "initializing"}
    /\ Revoke({})

(* onLock sends a lock of its own, at each press.                            *)
Lock ==
    /\ Shown({"registration"}) /\ ~Pending("lock")
    /\ Asks([rt EXCEPT !.poll = FALSE], Call("lock", 1, "lockAll", NoRef))

LockAnswered == \E c \in Answered({"lock"}, "lockAll") : Returns(c, rt)
-----------------------------------------------------------------------------
(* Registration, verification and promotion.                                 *)

\* mutant: only an accepted registration is polled
SubmittedAcceptedOnly ==
    \E c \in Answered({"protect", "recreate"}, "submit") :
       Returns(c, IF rt.disposed THEN rt
                  ELSE IF c.out = "accepted" THEN [rt EXCEPT !.poll = TRUE]
                  ELSE [rt EXCEPT !.error = c.out # "alreadyExists"])

Submitted ==
    \E c \in Answered({"protect", "recreate"}, "submit") :
       Returns(c, IF rt.disposed THEN rt
                  ELSE IF c.out \in {"accepted", "alreadyExists"} THEN [rt EXCEPT !.poll = TRUE]
                  ELSE [rt EXCEPT !.error = TRUE])

(* Check again, pressed or polled.                                           *)
CheckAgain ==
    /\ Quiet /\ ~rt.disposed /\ ~rt.activating /\ rt.stage = "registration"
    /\ root = "running" \/ rt.poll
    /\ Asks([rt EXCEPT !.activating = TRUE], Call("check", 1, "verify", NoRef))

Leaves(c, r) == IF c.fn = "check" THEN [r EXCEPT !.activating = FALSE] ELSE r

(* A profile the lookup saw and verification does not is reviewed afresh.    *)
Disappeared(r) ==
    [r EXCEPT !.poll = FALSE, !.missing = TRUE, !.reviewed = FALSE, !.stage = "recreateReview",
              !.found[r.selected] = "absent"]

\* mutant: a profile that was missing all along counts as disappeared
VanishedAgain(c, r) == c.out = "PROFILE_MISSING"

Vanished(c, r) == c.out = "PROFILE_MISSING" /\ ~r.missing

Verified ==
    \E c \in Answered({"protect", "check"}, "verify") :
       LET r == Leaves(c, rt)
       IN IF rt.disposed THEN Returns(c, r)
          ELSE IF c.out = "OK" THEN GoesOn(c, rt, "promote", NoRef)
          ELSE IF Vanished(c, r) THEN Returns(c, Disappeared(r))
          ELSE IF r.missing /\ c.out \in {"PROFILE_MISSING", "NETWORK_UNAVAILABLE"}
          THEN Returns(c, [r EXCEPT !.stage = "registration"])
          ELSE Returns(c, [r EXCEPT !.stage = "terminal", !.poll = FALSE])

(* The completion settles the port's operation; the root goes on to verify.  *)
Promoted ==
    \E c \in Answered({"protect", "check"}, "promote") :
       LET r == Leaves(c, rt)
       IN IF rt.disposed THEN Returns(c, r)
          ELSE IF c.out # "OK" THEN Returns(c, [r EXCEPT !.stage = "terminal"])
          ELSE /\ rt' = [r EXCEPT !.stage = "success", !.poll = FALSE]
               /\ calls' = calls \ {c}
               /\ root' = IF root = "running" THEN "verifying" ELSE root
               /\ UNCHANGED <<worker, network, interruptions, lost, cleanup>>

(* The worker drops a recovery candidate after ten minutes.                  *)
CandidateExpires ==
    /\ Quiet /\ \E ref \in live : live' = live \ {ref}
    /\ UNCHANGED <<made, session, owner, vault, active, ghost, network, interruptions, calls, lost, root, cleanup>>

-----------------------------------------------------------------------------
Init ==
    /\ SharedInit /\ profile \in {"absent", "ours", "foreign"}
    /\ rt = NewRuntime /\ calls = {Posted("entry", 1, "inspect", NoRef, 1)}

UserActs ==
    \/ Restart \/ Verify \/ RetryLookup \/ SelectCandidate \/ ConfirmExistingProfile
    \/ ConfirmRecreate \/ ChooseProtection \/ Protect \/ CheckAgain \/ Lock \/ Back

RuntimeGoesOn ==
    \/ EntryInspected \/ Derived \/ DerivedDestroyed \/ LookedUp \/ ProofDestroyed
    \/ ProtectIssued \/ ProtectProvisioned \/ Submitted \/ Verified \/ Promoted
    \/ CleanupDestroyed \/ CleanupLocked \/ FailedStageLocked \/ LockAnswered

WorkerAnswers ==
    \/ /\ Quiet
       /\ \E c \in calls : \/ TurnedAway(c) \/ ServeSync(c) \/ StartAsync(c) \/ FinishAsync(c)
                            \/ LookupEnds(c, {"ours", "absent", "foreign"})
       /\ UNCHANGED rt
    \/ LockAll

SystemStep ==
    \/ RuntimeGoesOn
    \/ (\E c \in calls : RootContinues(c)) /\ UNCHANGED rt
    \/ WorkerAnswers
    \/ GhostProvision /\ UNCHANGED rt

Next ==
    \/ UserActs \/ SystemStep \/ OtherTabRevokes
    \/ (RootRetry \/ NetworkConfirms \/ CandidateExpires) /\ UNCHANGED rt

Spec == Init /\ [][Next]_vars

(* As in CreateUserChild.                                                    *)
FairSpec == Spec /\ WF_vars(SystemStep)

-----------------------------------------------------------------------------
Runtimes ==
    [stage : Reviewing \cup {"vaultGuard", "wordEntry", "verifying", "lookup", "proof",
              "recreateReview", "protection", "staging", "registration", "activating",
              "success", "terminal"},
     cands : BoundedSeq(Refs, 2), found : [Refs -> {"unknown", "ours", "absent"}],
     chosen : Refs \cup {NoRef}, selected : Refs \cup {NoRef}, error : BOOLEAN, ack : BOOLEAN,
     sessionOnly : BOOLEAN, provisioned : BOOLEAN, provisioning : BOOLEAN, missing : BOOLEAN,
     reviewed : BOOLEAN, poll : BOOLEAN, activating : BOOLEAN,
     failedStage : {"no", "needed", "locking"}, disposed : BOOLEAN]

TypeOK == SharedTypeOK /\ rt \in Runtimes

(* A registration goes out for a profile the user reviewed as missing.       *)
PostedAsAsked == rt.missing /\ rt.reviewed

(* From protection on, the worker holds no identity but the selected one.    *)
OneIdentity ==
    rt.stage \in {"recreateReview", "protection", "staging", "registration", "activating"}
        /\ ~rt.disposed => live \subseteq {rt.selected}

(* A cleanup that answers complete has left nothing in the worker: no        *)
(* candidate, unless a derivation was under way when it began, and no open   *)
(* session but that of a provision which outlived its revocation.            *)
BackLeavesNothing ==
    cleanup = "complete" =>
        /\ live # {} => rt.stage = "verifying"
        /\ owner \in {"none", "stray"}

(* An accepted registration that shows is asked about again by itself.       *)
RegistrationPolls ==
    root = "running" /\ ~rt.disposed /\ rt.stage = "registration" /\ ~Pending("lock") =>
        rt.poll \/ rt.error \/ rt.activating \/ Pending("recreate") \/ Pending("protect")
=============================================================================
