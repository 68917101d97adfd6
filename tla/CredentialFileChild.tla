------------------------- MODULE CredentialFileChild -------------------------
(* CredentialFileChildRuntime (auth/web/child-bridge.ts): the empty-custody  *)
(* check, the read of a chosen file and its transfer to the worker, the      *)
(* import under the backup password, the lookup, the review of a missing     *)
(* profile, protection with or without a vault, submission, verification and *)
(* promotion, and the cleanup that Back and a revocation share; a Back from  *)
(* a validated file comes out at a fresh picker (recheckFilePicker).  Root,  *)
(* ports, client and worker are those of OnboardingRoot; the worker's book   *)
(* of transferred files (worker-env.ts) is added here.                       *)
(*                                                                           *)
(* The read generation is the calls' n: 1 while a call belongs to the        *)
(* runtime's current generation, 0 once it was superseded.  Alias checks,    *)
(* password policy and the wait between wrong passwords are left out.        *)
EXTENDS OnboardingRoot

CONSTANTS
    MaxFiles,     \* bound on the files the user chooses
    MaxLookups    \* lookups that wait for a registration (60 in the code)

VARIABLES
    rt,      \* the runtime's own fields
    files,   \* how many files were transferred; each is one import operation
    book,    \* SecretTransferBook: the files the worker holds, undecrypted
    abandoned \* history: the files the user left while they were decrypted, or
              \* whose import or discard the worker turned away

fileVars == <<files, book, abandoned>>
vars == <<sharedVars, rt, fileVars>>

NewRuntime ==
    [stage |-> "capabilityPreflight", ref |-> NoRef, importOp |-> NoRef, status |-> "unknown",
     confirmed |-> FALSE, ack |-> FALSE, sessionOnly |-> FALSE, provisioned |-> FALSE,
     provisioning |-> FALSE, lookups |-> 0, disposed |-> FALSE]

Shown(stages) == Quiet /\ root = "running" /\ ~rt.disposed /\ rt.stage \in stages
At(stage) == [rt EXCEPT !.stage = stage]

Becomes(r) == rt' = r /\ UNCHANGED <<sharedVars, fileVars>>
Calls(r, cs) ==
    /\ rt' = r /\ calls' = cs
    /\ UNCHANGED <<worker, network, interruptions, lost, root, cleanup, fileVars>>
Asks(r, c) == Calls(r, calls \cup {c})
Returns(c, r) == Calls(r, calls \ {c})
GoesOn(c, r, op, ref) == Calls(r, (calls \ {c}) \cup {Call(c.fn, c.n, op, ref)})
Answered(fns, op) == {c \in calls : c.fn \in fns /\ c.op = op /\ ~Waiting(c)}

(* ++readGeneration: what is under way no longer belongs to the runtime.     *)
Superseded(cs) == {IF c.fn = "root" THEN c ELSE [c EXCEPT !.n = 0] : c \in cs}
Stale(c) == rt.disposed \/ c.n = 0

-----------------------------------------------------------------------------
(* Entry, and the file.                                                      *)

EntryInspected ==
    \E c \in Answered({"entry"}, "inspect") :
       Returns(c, IF rt.disposed THEN rt
                  ELSE At(IF c.out = "absent" THEN "picker" ELSE "terminal"))

(* A file that is too large is refused before it is read.                    *)
ChooseFile ==
    /\ Shown({"picker"}) /\ files < MaxFiles
    /\ Calls(At("reading"), Superseded(calls) \cup {Call("read", 1, "read", NoRef)})

(* A file with a complete envelope is transferred under an operation of its  *)
(* own.                                                                      *)
FileRead ==
    \E c \in Answered({"read"}, "read") :
       IF c.n = 0 THEN Returns(c, rt)
       ELSE IF c.out # "OK" THEN Returns(c, At("picker"))
       ELSE /\ files' = files + 1 /\ book' = book \cup {files + 1}
            /\ rt' = [At("password") EXCEPT !.importOp = files + 1]
            /\ calls' = calls \ {c}
            /\ UNCHANGED <<worker, network, interruptions, lost, root, cleanup, abandoned>>

ReadEnds(c) ==
    /\ c.out = "sent" /\ c.op = "read"
    /\ \E out \in {"OK", "READ_UNAVAILABLE"} : Answer(c, out)
    /\ UNCHANGED <<worker, network, interruptions, lost, root, cleanup>>

SubmitPassword ==
    /\ Shown({"password"})
    /\ Asks(At("decrypting"), Call("import", 1, "import", rt.importOp))

(* A late candidate is destroyed; a wrong password keeps the file for        *)
(* another try; any other answer has consumed it.                            *)
Imported ==
    \E c \in Answered({"import"}, "import") :
       IF Stale(c)
       THEN IF c.out = "OK" THEN GoesOn(c, rt, "destroy", c.ref) ELSE Returns(c, rt)
       ELSE CASE c.out = "WRONG_PASSWORD_OR_DAMAGED" -> Returns(c, At("password"))
              [] c.out = "OK" ->
                   Calls([At("lookup") EXCEPT !.importOp = NoRef, !.ref = c.ref],
                         (calls \ {c}) \cup {Call("import", 1, "lookup", NoRef)})
              [] OTHER -> Returns(c, [At("picker") EXCEPT !.importOp = NoRef])

ImportDestroyed == \E c \in Answered({"import"}, "destroy") : Returns(c, rt)

LookedUp ==
    \E c \in Answered({"import"}, "lookup") :
       Returns(c, IF Stale(c) THEN rt
                  ELSE CASE c.out \in {"transportFailure", "foreign"} -> At("terminal")
                         [] c.out = "absent" -> [At("profileReview") EXCEPT !.status = "missing"]
                         [] OTHER -> [At("protection") EXCEPT !.status = "exact"])

(* Also the cancellation of a read.                                          *)
ChooseDifferentFile ==
    /\ Shown({"reading", "password", "decrypting"})
    /\ LET r == [At("reading") EXCEPT !.importOp = NoRef]
           cs == Superseded(calls)
       IN IF rt.importOp = NoRef THEN Calls([r EXCEPT !.stage = "picker"], cs)
          ELSE /\ rt' = r
               /\ calls' = cs \cup {CallAfter(cs, "different", 1, "discard", rt.importOp)}
               /\ abandoned' = IF rt.stage = "decrypting" THEN abandoned \cup {rt.importOp} ELSE abandoned
               /\ UNCHANGED <<worker, network, interruptions, lost, root, cleanup, files, book>>

FileDiscarded ==
    \E c \in Answered({"different"}, "discard") :
       Returns(c, IF Stale(c) THEN rt
                  ELSE At(IF c.out = "OK" THEN "picker" ELSE "terminal"))

-----------------------------------------------------------------------------
(* Review, protection, registration and verification.                        *)

(* A missing profile is confirmed before anything is kept or posted.         *)
CreateIdentity ==
    Shown({"profileReview"}) /\ Becomes([At("protection") EXCEPT !.confirmed = TRUE])

AcknowledgeSessionOnly ==
    Shown({"protection"}) /\ \E value \in BOOLEAN : Becomes([rt EXCEPT !.ack = value])

ChooseProtection ==
    /\ Shown({"protection"})
    /\ \E only \in BOOLEAN :
          IF only /\ ~rt.ack THEN Becomes(At("terminal"))
          ELSE Asks([At("staging") EXCEPT !.sessionOnly = only],
                    Call("protect", 1, "capability", NoRef))

ProtectIssued ==
    \E c \in Answered({"protect"}, "capability") :
       IF c.out # "OK" \/ rt.disposed THEN Returns(c, rt)
       ELSE GoesOn(c, [rt EXCEPT !.provisioning = TRUE],
                   IF rt.sessionOnly THEN "provisionSession" ELSE "provision", rt.ref)

Submitted ==
    \E c \in Answered({"protect"}, "submit") :
       IF Stale(c) THEN Returns(c, rt)
       ELSE IF c.out \notin {"accepted", "alreadyExists"} THEN Returns(c, At("terminal"))
       ELSE GoesOn(c, [rt EXCEPT !.lookups = 1], "lookup", NoRef)

(* A lookup every three seconds until the profile shows; an unavailable      *)
(* network counts as one that did not.                                       *)
RegistrationLooked ==
    \E c \in Answered({"protect"}, "lookup") :
       IF Stale(c) THEN Returns(c, rt)
       ELSE IF c.out = "foreign" THEN Returns(c, At("terminal"))
       ELSE IF c.out = "ours" THEN GoesOn(c, [rt EXCEPT !.status = "exact"], "verify", NoRef)
       ELSE IF rt.lookups < MaxLookups
       THEN GoesOn(c, [rt EXCEPT !.lookups = @ + 1], "lookup", NoRef)
       ELSE Returns(c, At("terminal"))

Verified ==
    \E c \in Answered({"protect"}, "verify") :
       IF Stale(c) THEN Returns(c, rt)
       ELSE IF c.out = "OK" THEN GoesOn(c, rt, "promote", NoRef) ELSE Returns(c, At("terminal"))

Promoted ==
    \E c \in Answered({"protect"}, "promote") :
       IF Stale(c) THEN Returns(c, rt)
       ELSE IF c.out # "OK" THEN Returns(c, At("terminal"))
       ELSE /\ rt' = At("success") /\ calls' = calls \ {c}
            /\ root' = IF root = "running" THEN "verifying" ELSE root
            /\ UNCHANGED <<worker, network, interruptions, lost, cleanup, fileVars>>

-----------------------------------------------------------------------------
(* Cleanup: it waits for a staging under way, gives up the file it holds,    *)
(* then the vault's session or the candidate.                                *)

(* A validated file that was not kept leads back to the picker.              *)
CleanupSettles(cs, r, waiting, ok) ==
    /\ cleanup' = IF ok THEN "complete" ELSE "failed"
    /\ rt' = IF ok THEN [r EXCEPT !.ref = NoRef] ELSE r
    /\ RootBecomes(IF waiting # "cleaning" THEN waiting
                   ELSE IF ~ok THEN "cleanupFailed"
                   ELSE IF r.ref # NoRef /\ ~r.provisioned THEN "recheck" ELSE "initializing", cs)

DiscardIdentity(cs, r, waiting) ==
    CASE r.provisioned ->
           /\ cleanup' = "lock" /\ rt' = r
           /\ RootBecomes(waiting, cs \cup {CallAfter(cs, "cleanup", 1, "lockAll", NoRef)})
      [] ~r.provisioned /\ r.ref # NoRef ->
           /\ cleanup' = "destroy" /\ rt' = r
           /\ RootBecomes(waiting, cs \cup {CallAfter(cs, "cleanup", 1, "destroy", r.ref)})
      [] OTHER -> CleanupSettles(cs, r, waiting, TRUE)

\* mutant: a file that was read and not decrypted is forgotten
DiscardForgets(cs, r, waiting) == DiscardIdentity(cs, [r EXCEPT !.importOp = NoRef], waiting)

(* A decryption under way is not discarded but cancelled, and nobody waits   *)
(* for that; a page the worker has just revoked has no port to send it on.   *)
Discard(cs, r, waiting) ==
    LET given == [r EXCEPT !.importOp = NoRef]
    IN CASE r.importOp = NoRef -> DiscardIdentity(cs, r, waiting)
         [] r.importOp # NoRef /\ r.stage = "decrypting" ->
              DiscardIdentity(IF waiting = "initializing" THEN cs
                              ELSE cs \cup {CallAfter(cs, "cleanup", 1, "cancel", NoRef)},
                              given, waiting)
         [] OTHER ->
              /\ cleanup' = "discard" /\ rt' = r
              /\ RootBecomes(waiting, cs \cup {CallAfter(cs, "cleanup", 1, "discard", r.importOp)})

BeginCleanup(cs, r, waiting) ==
    LET left == [r EXCEPT !.disposed = TRUE]
    IN IF cleanup = "complete" THEN CleanupSettles(cs, r, waiting, TRUE)
       ELSE IF cleanup \notin {"idle", "failed"}
       THEN rt' = r /\ RootBecomes(waiting, cs) /\ UNCHANGED cleanup
       ELSE IF r.provisioning
       THEN rt' = left /\ RootBecomes(waiting, Superseded(cs)) /\ cleanup' = "provisioning"
       ELSE Discard(Superseded(cs), left, waiting)

CleanupDiscarded ==
    \E c \in Answered({"cleanup"}, "discard") :
       /\ IF c.out = "OK" THEN DiscardIdentity(calls \ {c}, [rt EXCEPT !.importOp = NoRef], root)
          ELSE CleanupSettles(calls \ {c}, rt, root, FALSE)
       /\ UNCHANGED <<worker, network, interruptions, lost, fileVars>>

CleanupEnds ==
    \E c \in Answered({"cleanup"}, "destroy") \cup Answered({"cleanup"}, "lockAll") :
       /\ CleanupSettles(calls \ {c}, rt, root, c.out = "OK")
       /\ UNCHANGED <<worker, network, interruptions, lost, fileVars>>

ProtectProvisioned ==
    \E c \in Answered({"protect"}, "provision") \cup Answered({"protect"}, "provisionSession") :
       LET r    == [rt EXCEPT !.provisioning = FALSE, !.provisioned = c.out = "OK"]
           rest == calls \ {c}
           next == IF rt.status = "missing" THEN "submit" ELSE "verify"
       IN /\ IF cleanup = "provisioning" THEN Discard(rest, r, root)
             ELSE /\ UNCHANGED <<root, cleanup>>
                  /\ IF rt.disposed THEN rt' = r /\ calls' = rest
                     ELSE IF c.out # "OK"
                     THEN rt' = [r EXCEPT !.stage = "terminal"] /\ calls' = rest
                     ELSE /\ rt' = [r EXCEPT !.stage = "activating"]
                          /\ calls' = rest \cup {Call("protect", 1, next, NoRef)}
          /\ UNCHANGED <<worker, network, interruptions, lost, fileVars>>

(* As in CreateUserChild: the root's Back, or the page's own, which tells    *)
(* the runtime first.                                                        *)
Back ==
    /\ Quiet /\ \/ root = "running" /\ \E next \in {"running", "cleaning"} : BeginCleanup(calls, rt, next)
                \/ root = "cleanupFailed" /\ BeginCleanup(calls, rt, "cleaning")
    /\ UNCHANGED <<worker, network, interruptions, lost, fileVars>>

(* recheckFilePicker: only absence opens a fresh runtime, which inspects     *)
(* once more.                                                                *)
RecheckEnds ==
    \E c \in Answered({"root"}, "inspect") :
       /\ root = "recheck"
       /\ IF c.out = "absent"
          THEN /\ root' = "running" /\ cleanup' = "idle" /\ rt' = NewRuntime
               /\ LET cs == Superseded(calls \ {c})
                  IN calls' = cs \cup {CallAfter(cs, "entry", 1, "inspect", NoRef)}
          ELSE RootBecomes("initializing", calls \ {c}) /\ UNCHANGED <<cleanup, rt>>
       /\ UNCHANGED <<worker, network, interruptions, lost, fileVars>>

-----------------------------------------------------------------------------
(* Revocation.  A cancellation on its way is of the old epoch, and not the   *)
(* worker's business any more; a recheck it interrupts is forgotten.         *)
Revoke(locks) ==
    /\ WipeSecrets /\ book' = {}
    /\ LET cs == {c \in RevokedCalls(locks) :
                     c.op # "cancel" /\ ~(c.fn = "root" /\ root = "recheck")}
       IN IF root = "running" THEN BeginCleanup(cs, rt, "initializing")
          ELSE RootBecomes(RootLost, cs) /\ UNCHANGED <<cleanup, rt>>
    /\ UNCHANGED <<network, lost, files, abandoned>>

(* handleCancel revokes as a lock does, and answers nobody.                  *)
LockAll ==
    /\ Quiet
    /\ \E c \in calls : c.op \in {"lockAll", "cancel"} /\ IsFirst(c) /\ Revoke({c}) /\ LockInterrupts(c)

OtherTabRevokes ==
    /\ Quiet /\ interruptions < MaxInterruptions /\ interruptions' = interruptions + 1
    /\ root \in {"running", "cleaning", "recheck", "initializing"}
    /\ Revoke({})

(* An import or a discard that is turned away is not asked for again: the    *)
(* runtime has forgotten the file, the book holds it.                        *)
AbandonedAfter(c) ==
    IF Resolved(c, "AUTHORITY_BUSY") \in calls' /\ (c.op = "import" \/ c.fn = "different")
    THEN abandoned \cup {c.ref} ELSE abandoned

(* The import takes the file, and puts it back if the password was wrong.    *)
BookAfter(c) ==
    CASE c.op \in {"discard", "import"} /\ c.out = "sent"
            /\ Resolved(c, "AUTHORITY_BUSY") \notin calls' -> book \ {c.ref}
      [] c.op = "import" /\ c.out = "running" ->
           IF [c EXCEPT !.out = "WRONG_PASSWORD_OR_DAMAGED"] \in calls' THEN book \cup {c.ref} ELSE book
      [] OTHER -> book

-----------------------------------------------------------------------------
Init ==
    /\ SharedInit /\ profile \in {"absent", "ours", "foreign"}
    /\ rt = NewRuntime /\ files = 0 /\ book = {} /\ abandoned = {}
    /\ calls = {Posted("entry", 1, "inspect", NoRef, 1)}

UserActs ==
    \/ ChooseFile \/ SubmitPassword \/ ChooseDifferentFile \/ CreateIdentity
    \/ AcknowledgeSessionOnly \/ ChooseProtection \/ Back

RuntimeGoesOn ==
    \/ EntryInspected \/ FileRead \/ Imported \/ ImportDestroyed \/ LookedUp \/ FileDiscarded
    \/ ProtectIssued \/ ProtectProvisioned \/ Submitted \/ RegistrationLooked \/ Verified
    \/ Promoted \/ CleanupDiscarded \/ CleanupEnds \/ RecheckEnds

WorkerAnswers ==
    \/ /\ Quiet
       /\ \E c \in calls :
             /\ \/ TurnedAway(c) \/ ServeSync(c) \/ StartAsync(c) \/ FinishAsync(c)
                \/ LookupEnds(c, {profile}) \/ ReadEnds(c)
             /\ book' = BookAfter(c) /\ abandoned' = AbandonedAfter(c)
       /\ UNCHANGED <<rt, files>>
    \/ LockAll

SystemStep ==
    \/ RuntimeGoesOn
    \/ (\E c \in calls : RootContinues(c)) /\ UNCHANGED <<rt, fileVars>>
    \/ WorkerAnswers
    \/ GhostProvision /\ UNCHANGED <<rt, fileVars>>

Next ==
    \/ UserActs \/ SystemStep \/ OtherTabRevokes
    \/ (RootRetry \/ NetworkConfirms) /\ UNCHANGED <<rt, fileVars>>

Spec == Init /\ [][Next]_vars

(* As in CreateUserChild.                                                    *)
FairSpec == Spec /\ WF_vars(SystemStep)

-----------------------------------------------------------------------------
Runtimes ==
    [stage : {"capabilityPreflight", "picker", "reading", "password", "decrypting", "lookup",
              "profileReview", "protection", "staging", "activating", "success", "terminal"},
     ref : Refs \cup {NoRef}, importOp : 0 .. MaxFiles, status : {"unknown", "exact", "missing"},
     confirmed : BOOLEAN, ack : BOOLEAN, sessionOnly : BOOLEAN, provisioned : BOOLEAN,
     provisioning : BOOLEAN, lookups : 0 .. MaxLookups, disposed : BOOLEAN]

TypeOK ==
    /\ SharedTypeOK /\ rt \in Runtimes
    /\ files \in 0 .. MaxFiles /\ book \cup abandoned \subseteq 1 .. files

(* A missing profile is registered once the user has confirmed it.           *)
PostedAsAsked == rt.status = "missing" /\ rt.confirmed

(* The identity the user reviews and protects is the only one in the worker, *)
(* unless a decryption was left: its late candidate may outlive it.  (Of a   *)
(* file that is still in the book there is none.)                            *)
OneIdentity ==
    /\ abandoned \subseteq book /\ ~rt.disposed
    /\ rt.stage \in {"lookup", "profileReview", "protection", "staging", "activating"}
    => live \subseteq {rt.ref}

(* Back comes out with the file and the candidate given up, and no session   *)
(* but that of a provision which outlived its revocation.  The exceptions    *)
(* are the files the runtime has forgotten: a decryption the user left, whose*)
(* discard is turned away and whose wrong password puts the file back in the *)
(* book, and an import or a discard that met another operation.  The root    *)
(* offers no choices while a late candidate lives.                           *)
BackLeavesNothing ==
    root \in {"choices", "recheck"} =>
        /\ book \subseteq abandoned /\ (abandoned \subseteq book => live = {})
        /\ owner \in {"none", "stray"}
        /\ root = "choices" => live = {}

(* One Back revokes the authority at most once, and not the inspection the   *)
(* root starts after it, unless it gives up a decryption: the cancellation   *)
(* is posted and not waited for.                                             *)
InspectionUndisturbed ==
    root = "custodyLost" => interruptions > 0 \/ rt.stage = "decrypting"
=============================================================================
