-------------------------- MODULE UbuntuVaultRemoval --------------------------
(* Resumable local-user removal of the Ubuntu adapter                        *)
(* (src-tauri/src/ubuntu_vault/lifecycle/removal.rs), composed with the      *)
(* store it removes.                                                         *)
(*                                                                           *)
(* run_removal is modelled write by write: the process may die between any   *)
(* two of them, a tombstone write or the directory flush may fail, and any   *)
(* subset of the file and keyring deletions may fail (delete_vault_artifacts *)
(* ignores the individual errors).  The store never looks at the tombstone,  *)
(* so every store operation stays possible between an interrupted run and    *)
(* the run that resumes it.  vault.lock, which the same step deletes, is in  *)
(* module VaultOwnership.                                                    *)
EXTENDS UbuntuVaultStore

CONSTANT MaxFaults  \* bound on crashes and on failures of a removal run

ASSUME RemovalAssumption == MaxFaults \in Nat

VARIABLES
    tombstone,  \* stage recorded in removal.tombstone, or "none"
    keyring,    \* wrapping keys with an active or staged keyring item
    removal,    \* the run in progress: [at, passes], or NotRunning
    faults      \* crashes and removal failures so far

removalVars == <<tombstone, keyring, removal, faults>>
allVars == <<vars, removalVars>>

Stages == {"PersistingTombstone", "DeletingSlots", "DeletingKeys",
           "ClearingCaches", "VerifyingAbsence"}

\* next_stage: the fixed order (REMOVAL_STAGES) after the tombstone exists.
NextStage(stage) ==
    CASE stage = "PersistingTombstone" -> "DeletingSlots"
      [] stage = "DeletingSlots"       -> "DeletingKeys"
      [] stage = "DeletingKeys"        -> "ClearingCaches"
      [] stage = "ClearingCaches"      -> "VerifyingAbsence"

Run(at, passes) == [at |-> at, passes |-> passes]
NotRunning == Run("none", 0)

\* "begin", "flush" and "clear" are points inside run_removal; a stage stands
\* for the head of the loop at that stage, and the tombstone on disk records it.
Points == Stages \cup {"begin", "flush", "clear"}

RemovalTypeOK ==
    /\ TypeOK
    /\ tombstone \in Stages \cup {"none"}
    /\ keyring \subseteq Keys
    /\ removal \in [at : Points, passes : {0, 1}] \cup {NotRunning}
    /\ faults \in 0 .. MaxFaults

RemovalInit ==
    /\ Init
    /\ tombstone = "none"
    /\ keyring = {}
    /\ removal = NotRunning
    /\ faults = 0

FilesAbsent == /\ \A s \in Slots : slot[s] = NoFile
               /\ journal = NoJournal
               /\ sidecar.mode = "unset"

Fault == faults < MaxFaults /\ faults' = faults + 1

-----------------------------------------------------------------------------
(* The store, between runs. *)

\* The caller puts a wrapping key in the keyring before it hands it to the
\* store (external: no caller of the store exists in the repository).
StoreRequest ==
    /\ removal = NotRunning
    /\ Requests
    /\ keyring' = keyring \cup ({job'.key} \ {NoKey})
    /\ UNCHANGED <<tombstone, removal, faults>>

StoreWrite == Writes /\ UNCHANGED removalVars

StoreFail == Fail /\ UNCHANGED removalVars

\* reconcile returns early on RemovalInProgress: the tombstone path owns it.
ReconcileRemovalInProgress ==
    /\ process = "down"
    /\ journal.state = "removalInProgress"
    /\ process' = "up"
    /\ UNCHANGED <<disk, job, acked>>

StoreReconcile ==
    /\ Reconcile \/ ReconcileRemovalInProgress
    /\ UNCHANGED removalVars

\* Process kill or power loss, in a store operation or in a removal run.
Kill ==
    /\ Crash
    /\ removal' = NotRunning
    /\ Fault
    /\ UNCHANGED <<tombstone, keyring>>

-----------------------------------------------------------------------------
(* run_removal. *)

\* run_removal is entered; the host may ask for it also when reconcile failed.
BeginRemoval ==
    /\ process # "down"
    /\ job = Idle
    /\ removal = NotRunning
    /\ removal' = Run("begin", 0)
    /\ UNCHANGED <<vars, tombstone, keyring, faults>>

\* The user asks for removal, or a started one is resumed.
RequestRemoval == tombstone = "none" /\ BeginRemoval
ResumeRemoval == tombstone # "none" /\ BeginRemoval

\* Wrong variant: a fresh run starts deleting before the record is durable.
PersistTombstoneLate ==
    /\ removal.at = "begin"
    /\ LET stage == IF tombstone = "none" THEN "DeletingSlots" ELSE tombstone
       IN  removal' = Run(stage, 0)
    /\ UNCHANGED <<vars, tombstone, keyring, faults>>

\* Read the tombstone, or make one, and have it durable before anything else.
PersistTombstone ==
    /\ removal.at = "begin"
    /\ LET stage == IF tombstone = "none" THEN "PersistingTombstone" ELSE tombstone
       IN  tombstone' = stage /\ removal' = Run(stage, 0)
    /\ UNCHANGED <<vars, keyring, faults>>

\* advance: the tombstone records the next stage.
AdvanceTo(stage) == tombstone' = stage /\ removal' = [removal EXCEPT !.at = stage]

SkipMarker ==
    /\ removal.at \in {"PersistingTombstone", "ClearingCaches"}
    /\ AdvanceTo(NextStage(removal.at))
    /\ UNCHANGED <<vars, keyring, faults>>

\* Mark the journal (best effort), then remove the artifacts; each removal may
\* fail on its own, and a kill part-way is a kill after this step.
DeleteFiles ==
    /\ removal.at = "DeletingSlots"
    /\ \E gone \in SUBSET (Slots \cup {"journal", "sidecar"}), marked \in BOOLEAN :
         /\ gone # Slots \cup {"journal", "sidecar"} => Fault
         /\ gone = Slots \cup {"journal", "sidecar"} => UNCHANGED faults
         /\ slot' = [s \in Slots |-> IF s \in gone THEN NoFile ELSE slot[s]]
         /\ journal' = IF "journal" \in gone \/ journal = NoJournal THEN NoJournal
                       ELSE IF marked THEN [journal EXCEPT !.state = "removalInProgress"]
                       ELSE journal
         /\ sidecar' = IF "sidecar" \in gone THEN [mode |-> "unset", ack |-> FALSE]
                       ELSE sidecar
    /\ removal' = [removal EXCEPT !.at = "flush"]
    /\ UNCHANGED <<process, job, acked, tombstone, keyring>>

\* The deletions are flushed and read back; anything left ends the run.
VerifyFilesDeleted ==
    /\ removal.at = "flush"
    /\ IF FilesAbsent THEN AdvanceTo("DeletingKeys")
       ELSE removal' = NotRunning /\ UNCHANGED tombstone
    /\ UNCHANGED <<vars, keyring, faults>>

\* delete_active_and_staged, which verifies absence; a failure ends the run.
DeleteKeys ==
    /\ removal.at = "DeletingKeys"
    /\ \/ keyring' = {} /\ AdvanceTo("ClearingCaches") /\ UNCHANGED faults
       \/ /\ Fault
          /\ keyring' \in SUBSET keyring
          /\ removal' = NotRunning
          /\ UNCHANGED tombstone
    /\ UNCHANGED vars

\* Wrong variant: only the keyring is searched, the files were verified before.
AbsentKeysOnly == keyring = {}

Absent == FilesAbsent /\ keyring = {}

\* Wrong variant: no second cleanup pass.
VerifyAbsenceOnce ==
    /\ removal.at = "VerifyingAbsence"
    /\ removal' = IF Absent THEN [removal EXCEPT !.at = "clear"] ELSE NotRunning
    /\ UNCHANGED <<vars, tombstone, keyring, faults>>

\* VerifyingAbsence: a second full pass at most, then leave it to a resume.
VerifyAbsence ==
    /\ removal.at = "VerifyingAbsence"
    /\ IF Absent THEN removal' = [removal EXCEPT !.at = "clear"] /\ UNCHANGED tombstone
       ELSE IF removal.passes = 0
         THEN tombstone' = "DeletingSlots" /\ removal' = Run("DeletingSlots", 1)
       ELSE removal' = NotRunning /\ UNCHANGED tombstone
    /\ UNCHANGED <<vars, keyring, faults>>

\* clear_tombstone, and Complete is reported.
ClearTombstone ==
    /\ removal.at = "clear"
    /\ tombstone' = "none"
    /\ removal' = NotRunning
    /\ UNCHANGED <<vars, keyring, faults>>

\* A tombstone write, flush, search or the final clear fails: Incomplete or an
\* error is returned and the recorded stage stays.
RemovalFails ==
    /\ removal # NotRunning
    /\ removal' = NotRunning
    /\ Fault
    /\ UNCHANGED <<vars, tombstone, keyring>>

RemovalStep ==
    \/ PersistTombstone
    \/ SkipMarker
    \/ DeleteFiles
    \/ VerifyFilesDeleted
    \/ DeleteKeys
    \/ VerifyAbsence
    \/ ClearTombstone

RemovalNext ==
    \/ StoreRequest
    \/ StoreWrite
    \/ StoreFail
    \/ StoreReconcile
    \/ Kill
    \/ RequestRemoval
    \/ ResumeRemoval
    \/ RemovalStep
    \/ RemovalFails

RemovalSpec == RemovalInit /\ [][RemovalNext]_allVars

\* The program keeps running: it is started again, a store operation or a
\* removal run in flight goes on to its end, and startup resumes an unfinished removal
\* ("the next startup resumes from the recorded stage").
FairRemovalSpec ==
    /\ RemovalSpec
    /\ WF_allVars(StoreReconcile)
    /\ WF_allVars(StoreWrite \/ StoreFail)
    /\ WF_allVars(RemovalStep)
    /\ SF_allVars(ResumeRemoval)

-----------------------------------------------------------------------------
(* Properties. *)

\* A removal run leaves a vault half removed only while a tombstone says so:
\* without one, the slots, the journal and the operation in flight are as the
\* store left them (damaged, if a write was damaged), whatever was interrupted
\* before ("persisted before any destructive step and survives until verified
\* absence").
HalfRemovedIsRecorded ==
    tombstone = "none" =>
        /\ StoreInvariant
        /\ journal.state # "removalInProgress"
        /\ removal.at \in {"none", "begin"}

\* Without a tombstone, an OS-backed authoritative package has its wrapping
\* key: a resumed run that deletes the key of a vault provisioned since then
\* does not finish before the vault itself is gone.
WrappingKeyKept ==
    (tombstone = "none" /\ ActiveReadable /\ slot[journal.slot].mode = "osBacked")
        => slot[journal.slot].key \in keyring

\* A removal once recorded is finished, through crashes and failed deletions,
\* as long as these are finitely many.
RemovalCompletes == tombstone # "none" ~> tombstone = "none"
=============================================================================
