----------------------- MODULE UbuntuVaultRemovalProofs -----------------------
(* Proofs about UbuntuVaultRemoval: the store and the removal of it, for     *)
(* every set of wrapping keys, every bound on the generations and on the     *)
(* faults.                                                                   *)
(*                                                                           *)
(* A run deletes what the store's own invariant speaks of, so that invariant *)
(* is claimed without a tombstone only; what it rests on then is that a run  *)
(* clears the tombstone of a vault of which nothing is left.                 *)
EXTENDS UbuntuVaultRemoval, UbuntuVaultStoreProofs

USE DEF Slots, Modes, Generations, Steps, Operations, JournalStates

\* Every operation that may switch to a file carries a valid one, on whatever
\* disk it began.
JobFiled ==
    /\ job.op \in {"provision", "commit", "stage", "promote", "rollback"} => job.file \in Files
    /\ job.at = "sidecar" => job.op \notin {"unlock", "cleanup"}
    /\ job.at = "slot" => job.file \in Packages

\* An OS-backed package, on disk or on its way there, has its key.
KeysKept ==
    /\ \A s \in Slots : slot[s].mode = "osBacked" => slot[s].key \in keyring
    /\ job.file.mode = "osBacked" => job.file.key \in keyring

\* The vault as the store alone would have it.
Whole == StoreInvariant /\ journal.state # "removalInProgress" /\ KeysKept

\* A run excludes store operations; it deletes under a tombstone and ends with
\* nothing left.
RunInv ==
    /\ removal # NotRunning => job = Idle /\ process # "down"
    /\ removal.at \notin {"none", "begin"} => tombstone # "none"
    /\ removal.at = "clear" => FilesAbsent /\ keyring = {}

RInv == RemovalTypeOK /\ JobFiled /\ RunInv /\ (tombstone = "none" => Whole)

-----------------------------------------------------------------------------
(* The store's steps.                                                        *)

\* What a sidecar mirrors is a file, and what is written is a package.
LEMMA FiledSidecar ==
    ASSUME TypeOK, JobFiled
    PROVE  /\ job.at = "sidecar" => job.file \in Files
           /\ job.at = "slot" => job.file \in Packages
<1>1. job.at = "sidecar" => job \in Jobs
  BY JobAtStep
<1> QED  BY <1>1 DEF JobFiled, Jobs

\* What a request begins is a typed job with a file of its own.
LEMMA RequestFiled ==
    ASSUME TypeOK, Requests
    PROVE  JobFiled'
<1> USE StoreAssumption
<1>1. ASSUME NEW mode \in Modes, NEW key \in Keys \cup {NoKey}, NEW ack \in BOOLEAN,
             BeginProvision(mode, key, ack) \/ BeginCommit(mode, key, ack)
      PROVE  JobFiled'
  <2>1. CASE BeginProvision(mode, key, ack)
    <3>1. File(mode, 1, key) \in Packages
      BY <2>1, FileTyped DEF BeginProvision, Request
    <3> QED  BY <2>1, <3>1, PackageFields DEF BeginProvision, Begin, Job, JobFiled
  <2>2. CASE BeginCommit(mode, key, ack)
    <3>1. journal.gen + 1 \in Generations
      BY <2>2, JournalFields DEF BeginCommit
    <3>2. File(mode, journal.gen + 1, key) \in Packages
      BY <2>2, <3>1, FileTyped DEF BeginCommit, Request
    <3> QED  BY <2>2, <3>2, PackageFields DEF BeginCommit, Begin, Job, JobFiled
  <2> QED  BY <1>1, <2>1, <2>2
<1>2. ASSUME NEW key \in Keys, BeginStage(key) \/ BeginPromote(key) PROVE JobFiled'
  <2>0. journal # NoJournal
    <3>1. journal.state \in {"active", "pendingRotation"}
      BY <1>2 DEF BeginStage, BeginPromote
    <3> QED  BY <3>1 DEF NoJournal, Record
  <2>1. journal.gen \in Generations
    BY <2>0, JournalFields
  <2>2. File("osBacked", journal.gen, key) \in Packages
    BY <2>1, FileTyped
  <2>3. CASE BeginStage(key)
    BY <2>2, <2>3, PackageFields DEF BeginStage, Begin, Job, JobFiled
  <2>4. CASE BeginPromote(key)
    BY <2>4 DEF BeginPromote, Validates, Begin, Job, JobFiled
  <2> QED  BY <1>2, <2>3, <2>4
<1>3. ASSUME NEW expected \in Generations, NEW key \in Keys \cup {NoKey},
             BeginRollback(expected, key)
      PROVE  JobFiled'
  BY <1>3 DEF BeginRollback, Validates, Begin, Job, JobFiled
<1>4. CASE BeginUnlock \/ BeginCleanup
  BY <1>4 DEF BeginUnlock, BeginCleanup, DropRetained, Begin, Job, JobFiled
<1> QED  BY <1>1, <1>2, <1>3, <1>4 DEF Requests

\* No step of the store lets go of what a job carries.
LEMMA NextFiled ==
    ASSUME TypeOK, JobFiled, Next
    PROVE  JobFiled'
<1>1. CASE Requests
  BY <1>1, RequestFiled
<1>2. ASSUME job' = Idle PROVE JobFiled'
  BY <1>2 DEF Idle, Job, JobFiled
<1>3. ASSUME NEW step \in Steps, job.at \in Steps, job' = [job EXCEPT !.at = step],
             step # "slot", step = "sidecar" => job.op \notin {"unlock", "cleanup"}
      PROVE  JobFiled'
  <2>1. job \in Jobs
    BY <1>3, JobAtStep
  <2>2. job'.op = job.op /\ job'.file = job.file /\ job'.at = step
    BY <1>3, <2>1 DEF Jobs
  <2> QED  BY <1>3, <2>2 DEF JobFiled
<1>4. CASE StepWriteSlot \/ StepVerify
  BY <1>3, <1>4 DEF StepWriteSlot, StepVerify, Advance
<1>5. CASE StepWriteJournal
  BY <1>2, <1>3, <1>5 DEF StepWriteJournal, Advance, Finish
<1>6. CASE StepMirrorSidecar \/ StepRemoveRollback \/ Fail \/ Crash
  BY <1>2, <1>6 DEF StepMirrorSidecar, StepRemoveRollback, Fail, Crash, Finish
<1>7. CASE Reconcile
  BY <1>7 DEF Reconcile, ReconcileNoVault, ReconcileVault, ReconcileFailsClosed, JobFiled
<1> QED  BY <1>1, <1>4, <1>5, <1>6, <1>7 DEF Next, Writes

\* The store never marks a journal as being removed.
LEMMA NextUnmarked ==
    ASSUME TypeOK, StoreInvariant, journal.state # "removalInProgress", Next
    PROVE  journal'.state # "removalInProgress"
<1>1. CASE StepWriteJournal
  <2>1. /\ job \in Jobs /\ job.at = "journal" /\ journal' = job.next
    BY <1>1, JobAtStep DEF StepWriteJournal
  <2>2. job.op \in Operations
    BY <2>1 DEF Jobs
  <2>3. CASE job.op \in {"provision", "commit", "promote", "rollback"}
    BY <2>1, <2>3 DEF StoreInvariant, PlannedSwitch, Record
  <2>4. CASE job.op \in {"stage", "unlock", "cleanup"}
    <3>1. journal # NoJournal
      BY <2>1, <2>4 DEF StoreInvariant, PlannedSwitch
    <3>2. \/ job.next = [journal EXCEPT !.state = "pendingRotation"]
          \/ job.next = [journal EXCEPT !.retained = 0]
      BY <2>1, <2>4 DEF StoreInvariant, PlannedSwitch
    <3> QED  BY <2>1, <3>1, <3>2, JournalFields DEF Journals
  <2> QED  BY <2>2, <2>3, <2>4
<1>2. CASE Requests
  BY <1>2, RequestFrame
<1>3. CASE StepWriteSlot \/ StepVerify \/ StepMirrorSidecar \/ StepRemoveRollback \/ Fail \/ Crash
  BY <1>3 DEF StepWriteSlot, StepVerify, StepMirrorSidecar, StepRemoveRollback, Fail, Crash, disk
<1>4. CASE Reconcile
  BY <1>4 DEF Reconcile, ReconcileNoVault, ReconcileVault, ReconcileFailsClosed, disk
<1> QED  BY <1>1, <1>2, <1>3, <1>4 DEF Next, Writes

\* What a request carries is sealed under the key it was given, or is on disk.
LEMMA RequestCarries ==
    ASSUME TypeOK, Requests, job'.file.mode = "osBacked"
    PROVE  \/ job'.file.key = job'.key /\ job'.key # NoKey
           \/ \E s \in Slots : job'.file = slot[s]
<1> USE StoreAssumption
<1>1. ASSUME NEW mode \in Modes, NEW key \in Keys \cup {NoKey}, NEW ack \in BOOLEAN,
             BeginProvision(mode, key, ack) \/ BeginCommit(mode, key, ack)
      PROVE  job'.file.key = job'.key /\ job'.key # NoKey
  <2>1. \E g : job'.file = File(mode, g, key) /\ job'.key = key
    BY <1>1 DEF BeginProvision, BeginCommit, Begin, Job
  <2>2. mode = "osBacked"
    BY <2>1 DEF File
  <2>3. key \in Keys
    BY <1>1, <2>2 DEF BeginProvision, BeginCommit, Request
  <2> QED  BY <2>1, <2>3 DEF File
<1>2. ASSUME NEW key \in Keys, BeginStage(key)
      PROVE  job'.file.key = job'.key /\ job'.key # NoKey
  BY <1>2 DEF BeginStage, Begin, Job, File
<1>3. ASSUME NEW key \in Keys, BeginPromote(key)
      PROVE  \E s \in Slots : job'.file = slot[s]
  <2>1. journal # NoJournal
    BY <1>3 DEF BeginPromote, NoJournal, Record
  <2> QED  BY <1>3, <2>1, JournalFields, InactiveIsOther DEF BeginPromote, Begin, Job
<1>4. ASSUME NEW expected \in Generations, NEW key \in Keys \cup {NoKey},
             BeginRollback(expected, key)
      PROVE  \E s \in Slots : job'.file = slot[s]
  BY <1>4, JournalFields, InactiveIsOther DEF BeginRollback, Begin, Job
<1>5. CASE BeginUnlock \/ BeginCleanup
  BY <1>5 DEF BeginUnlock, BeginCleanup, DropRetained, Begin, Job, NoFile, File
<1> QED  BY <1>1, <1>2, <1>3, <1>4, <1>5 DEF Requests

\* A file that is on disk or under way was under way before, or is new.
LEMMA NextKeepsKeys ==
    ASSUME TypeOK, JobFiled, KeysKept, Next, keyring \subseteq keyring',
           Requests => job'.key \in keyring' \cup {NoKey}
    PROVE  KeysKept'
<1>1. CASE Requests
  <2>1. slot' = slot
    BY <1>1 DEF Requests, BeginProvision, BeginCommit, BeginStage, BeginPromote, BeginRollback,
                BeginUnlock, BeginCleanup, DropRetained, Begin, disk
  <2>2. job'.file.mode = "osBacked" => job'.file.key \in keyring'
    BY <1>1, RequestCarries, StoreAssumption DEF KeysKept
  <2> QED  BY <1>1, <2>1, <2>2 DEF KeysKept
<1>2. ASSUME job' = Idle PROVE job'.file.mode # "osBacked"
  BY <1>2 DEF Idle, Job, NoFile, File
<1>3. ASSUME NEW step \in Steps, job.at \in Steps, job' = [job EXCEPT !.at = step]
      PROVE  job'.file = job.file
  BY <1>3, JobAtStep DEF Jobs
<1>4. NoFile.mode # "osBacked" /\ Damaged.mode # "osBacked"
  BY DEF NoFile, Damaged, File
<1>5. CASE StepWriteSlot
  <2>1. job'.file = job.file /\ job \in Jobs
    BY <1>3, <1>5, JobAtStep DEF StepWriteSlot, Advance
  <2>2. \A s \in Slots : \/ slot'[s] = slot[s] \/ slot'[s] = job.file
                         \/ slot'[s] = Altered(job.file) \/ slot'[s] = Damaged
    BY <1>5 DEF StepWriteSlot, TypeOK
  <2>3. /\ Altered(job.file).mode = job.file.mode
        /\ Altered(job.file).key = job.file.key
    BY <1>5, PackageFields DEF StepWriteSlot, JobFiled
  <2> QED  BY <1>4, <2>1, <2>2, <2>3 DEF KeysKept
<1>6. CASE StepVerify
  BY <1>3, <1>6 DEF StepVerify, Advance, disk, KeysKept
<1>7. CASE StepWriteJournal
  <2>1. slot' = slot
    BY <1>7 DEF StepWriteJournal
  <2>2. job'.file.mode = "osBacked" => job'.file = job.file
    BY <1>2, <1>3, <1>7 DEF StepWriteJournal, Advance, Finish
  <2> QED  BY <2>1, <2>2 DEF KeysKept
<1>8. CASE StepMirrorSidecar \/ StepRemoveRollback \/ Fail \/ Crash \/ Reconcile
  <2>1. \A s \in Slots : slot'[s] = slot[s] \/ slot'[s] = NoFile
    BY <1>8 DEF StepMirrorSidecar, StepRemoveRollback, Fail, Crash, Reconcile, ReconcileNoVault,
                ReconcileVault, ReconcileFailsClosed, disk, TypeOK
  <2>2. job'.file.mode = "osBacked" => job'.file = job.file
    BY <1>2, <1>8 DEF StepMirrorSidecar, StepRemoveRollback, Fail, Crash, Reconcile, ReconcileNoVault,
                ReconcileVault, ReconcileFailsClosed, Finish
  <2> QED  BY <1>4, <2>1, <2>2 DEF KeysKept
<1> QED  BY <1>1, <1>5, <1>6, <1>7, <1>8 DEF Next, Writes

\* A step of the store, beside a tombstone or without one.
LEMMA StoreStep ==
    ASSUME RInv, Next, tombstone' = tombstone, keyring \subseteq keyring',
           Requests => job'.key \in keyring' \cup {NoKey}
    PROVE  TypeOK' /\ JobFiled' /\ (tombstone' = "none" => Whole')
<1>1. TypeOK /\ JobFiled
  BY DEF RInv, RemovalTypeOK
<1>2. TypeOK'
  BY <1>1, FiledSidecar, NextTyped
<1>3. JobFiled'
  BY <1>1, NextFiled
<1>4. ASSUME tombstone = "none" PROVE Whole'
  <2>1. StoreInvariant /\ journal.state # "removalInProgress" /\ KeysKept
    BY <1>4 DEF RInv, Whole
  <2>2. StoreInvariant'
    BY <1>1, <2>1, NextKeepsInvariant
  <2>3. journal'.state # "removalInProgress"
    BY <1>1, <2>1, NextUnmarked
  <2>4. KeysKept'
    BY <1>1, <2>1, NextKeepsKeys
  <2> QED  BY <2>2, <2>3, <2>4 DEF Whole
<1> QED  BY <1>2, <1>3, <1>4

-----------------------------------------------------------------------------
(* The steps of the composition.                                             *)

\* A fault is counted.
LEMMA FaultTyped ==
    ASSUME RInv, Fault
    PROVE  faults' \in 0 .. MaxFaults
BY RemovalAssumption DEF RInv, RemovalTypeOK, Fault

\* A run does not touch the store except for its artifacts: with a tombstone,
\* the store's types are all there is to keep.
LEMMA RunStep ==
    ASSUME RInv, TypeOK', UNCHANGED <<process, job>>,
           tombstone' \in Stages, keyring' \subseteq Keys, faults' \in 0 .. MaxFaults,
           removal' \in [at : Points, passes : {0, 1}] \cup {NotRunning},
           removal # NotRunning,
           removal'.at = "clear" => FilesAbsent' /\ keyring' = {}
    PROVE  RInv'
<1>1. RemovalTypeOK'
  BY DEF RemovalTypeOK
<1>2. tombstone' # "none"
  BY DEF Stages
<1>3. JobFiled'
  BY DEF RInv, JobFiled
<1>4. RunInv'
  BY <1>2 DEF RInv, RunInv
<1> QED  BY <1>1, <1>2, <1>3, <1>4 DEF RInv

\* The end of a run, and a run that only looks.
LEMMA QuietRun ==
    ASSUME RInv, UNCHANGED <<vars, tombstone, keyring>>, faults' \in 0 .. MaxFaults,
           removal' = NotRunning \/ (removal' = Run("begin", 0) /\ job = Idle /\ process # "down")
    PROVE  RInv'
<1>1. removal' \in [at : Points, passes : {0, 1}] \cup {NotRunning} /\ removal'.at \in {"none", "begin"}
  BY DEF Run, NotRunning, Points
<1>2. RemovalTypeOK'
  BY <1>1 DEF RInv, RemovalTypeOK, vars, TypeOK
<1>3. JobFiled' /\ RunInv'
  BY <1>1 DEF RInv, JobFiled, RunInv, vars
<1>4. tombstone' = "none" => Whole'
  BY DEF RInv, Whole, vars, StoreInvariant, SlotsMatchJournal, RemovalMissesActiveSlot,
         PlannedSwitch, FallbackTracked, KeysKept
<1> QED  BY <1>2, <1>3, <1>4 DEF RInv

\* A step of the store between runs.
LEMMA BetweenRuns ==
    ASSUME RInv, Next, removal' = NotRunning, tombstone' = tombstone,
           keyring \subseteq keyring', keyring' \subseteq Keys, faults' \in 0 .. MaxFaults,
           Requests => job'.key \in keyring' \cup {NoKey}
    PROVE  RInv'
<1>1. TypeOK' /\ JobFiled' /\ (tombstone' = "none" => Whole')
  BY StoreStep
<1>2. RemovalTypeOK'
  BY <1>1 DEF RInv, RemovalTypeOK
<1>3. RunInv'
  BY DEF RunInv, NotRunning, Run
<1> QED  BY <1>1, <1>2, <1>3 DEF RInv

\* Every step keeps the invariant.
LEMMA RemovalKeeps == RInv /\ [RemovalNext]_allVars => RInv'
<1> SUFFICES ASSUME RInv, [RemovalNext]_allVars PROVE RInv'
  OBVIOUS
<1> USE RemovalAssumption
<1>1. /\ TypeOK /\ tombstone \in Stages \cup {"none"} /\ keyring \subseteq Keys
      /\ removal \in [at : Points, passes : {0, 1}] \cup {NotRunning} /\ faults \in 0 .. MaxFaults
  BY DEF RInv, RemovalTypeOK
<1>2. removal # NotRunning => job = Idle /\ process # "down"
  BY DEF RInv, RunInv
<1>3. CASE StoreRequest
  <2>1. Next /\ Requests /\ removal' = NotRunning /\ tombstone' = tombstone /\ faults' = faults
    BY <1>3 DEF StoreRequest, Next
  <2>2. job'.key \in Keys \cup {NoKey}
    <3>1. TypeOK'
      BY <1>1, <2>1, RequestsTyped
    <3> QED  BY <3>1 DEF TypeOK, Jobs, Idle, Job
  <2>3. keyring' = keyring \cup ({job'.key} \ {NoKey})
    BY <1>3 DEF StoreRequest
  <2>4. keyring \subseteq keyring' /\ keyring' \subseteq Keys
    BY <1>1, <2>2, <2>3
  <2>5. job'.key \in keyring' \cup {NoKey}
    BY <2>3
  <2> QED  BY <1>1, <2>1, <2>4, <2>5, BetweenRuns
<1>4. CASE StoreWrite \/ StoreFail
  <2>2. job # Idle
    BY <1>4 DEF StoreWrite, StoreFail, Fail, Writes, StepWriteSlot, StepVerify, StepWriteJournal,
                StepMirrorSidecar, StepRemoveRollback, Idle, Job
  <2>3. removal = NotRunning /\ UNCHANGED removalVars
    BY <1>2, <1>4, <2>2 DEF StoreWrite, StoreFail
  <2>4. ~Requests
    BY <2>2 DEF Requests, BeginProvision, BeginCommit, BeginStage, BeginPromote, BeginRollback,
                BeginUnlock, BeginCleanup, Ready
  <2>5. Next
    BY <1>4 DEF StoreWrite, StoreFail, Next
  <2> QED  BY <1>1, <2>3, <2>4, <2>5, BetweenRuns DEF removalVars
<1>5. CASE StoreReconcile
  <2>1. process = "down" /\ UNCHANGED removalVars
    BY <1>5 DEF StoreReconcile, Reconcile, ReconcileNoVault, ReconcileVault, ReconcileFailsClosed,
                ReconcileRemovalInProgress
  <2>2. removal = NotRunning /\ ~Requests
    BY <1>2, <2>1 DEF Requests, BeginProvision, BeginCommit, BeginStage, BeginPromote, BeginRollback,
                      BeginUnlock, BeginCleanup, Ready
  <2>3. CASE Reconcile
    BY <1>1, <2>1, <2>2, <2>3, BetweenRuns DEF removalVars, Next
  <2>4. CASE ReconcileRemovalInProgress
    <3>1. tombstone # "none"
      BY <2>4 DEF ReconcileRemovalInProgress, RInv, Whole
    <3>2. TypeOK'
      BY <1>1, <2>4 DEF ReconcileRemovalInProgress, disk, TypeOK
    <3>3. JobFiled' /\ RunInv'
      BY <2>1, <2>2, <2>4 DEF ReconcileRemovalInProgress, removalVars, RInv, JobFiled, RunInv, NotRunning, Run
    <3> QED  BY <1>1, <2>1, <3>1, <3>2, <3>3 DEF removalVars, RInv, RemovalTypeOK
  <2> QED  BY <1>5, <2>3, <2>4 DEF StoreReconcile
<1>6. CASE Kill
  <2>1. Next /\ removal' = NotRunning /\ UNCHANGED <<tombstone, keyring>> /\ faults' \in 0 .. MaxFaults
    BY <1>6, FaultTyped DEF Kill, Next
  <2>2. Requests => job'.key = NoKey
    BY <1>6 DEF Kill, Crash, Finish, Idle, Job
  <2> QED  BY <1>1, <2>1, <2>2, BetweenRuns
<1>7. CASE RequestRemoval \/ ResumeRemoval
  <2>1. BeginRemoval
    BY <1>7 DEF RequestRemoval, ResumeRemoval
  <2> QED  BY <1>1, <2>1, QuietRun DEF BeginRemoval
<1>8. CASE RemovalFails
  BY <1>8, FaultTyped, QuietRun DEF RemovalFails
<1>9. CASE RemovalStep
  <2>1. ASSUME UNCHANGED vars PROVE TypeOK' /\ UNCHANGED <<process, job>>
    BY <1>1, <2>1 DEF vars, TypeOK
  <2>2. removal \in [at : Points, passes : {0, 1}] /\ removal # NotRunning
    BY <1>1, <1>9 DEF RemovalStep, PersistTombstone, SkipMarker, DeleteFiles, VerifyFilesDeleted, DeleteKeys,
                VerifyAbsence, ClearTombstone, NotRunning, Run
  <2>3. removal.at \notin {"none", "begin"} => tombstone \in Stages
    BY <1>1 DEF RInv, RunInv
  <2>4. CASE PersistTombstone
    <3>1. tombstone' \in Stages /\ removal' = Run(tombstone', 0)
      BY <1>1, <2>4 DEF PersistTombstone, Stages
    <3>2. removal' \in [at : Points, passes : {0, 1}] /\ removal'.at # "clear"
      BY <3>1 DEF Run, Points, Stages
    <3> QED  BY <1>1, <2>1, <2>2, <2>4, <3>1, <3>2, RunStep DEF PersistTombstone
  <2>5. CASE SkipMarker
    <3>1. tombstone' \in Stages /\ removal' = [removal EXCEPT !.at = tombstone']
      BY <2>5 DEF SkipMarker, AdvanceTo, NextStage, Stages
    <3>2. removal' \in [at : Points, passes : {0, 1}] /\ removal'.at # "clear"
      BY <2>2, <3>1 DEF Points, Stages
    <3> QED  BY <1>1, <2>1, <2>2, <2>5, <3>1, <3>2, RunStep DEF SkipMarker
  <2>6. CASE DeleteFiles
    <3>1. removal' \in [at : Points, passes : {0, 1}] /\ removal'.at # "clear"
      BY <2>2, <2>6 DEF DeleteFiles, Points
    <3>2. tombstone' \in Stages /\ keyring' = keyring /\ UNCHANGED <<process, job, acked>>
      BY <2>3, <2>6 DEF DeleteFiles
    <3>3. faults' \in 0 .. MaxFaults
      BY <1>1, <2>6, FaultTyped DEF DeleteFiles
    <3>4. slot' \in [Slots -> Contents] /\ sidecar' \in [mode : Modes \cup {"unset"}, ack : BOOLEAN]
      BY <1>1, <2>6 DEF DeleteFiles, TypeOK, Contents
    <3>5. journal' \in Journals \cup {NoJournal}
      BY <1>1, <2>6 DEF DeleteFiles, TypeOK, Journals
    <3>6. TypeOK'
      BY <1>1, <3>2, <3>4, <3>5 DEF TypeOK
    <3> QED  BY <1>1, <2>2, <3>1, <3>2, <3>3, <3>6, RunStep
  <2>7. CASE VerifyFilesDeleted
    <3>1. \/ tombstone' = "DeletingKeys" /\ removal' = [removal EXCEPT !.at = "DeletingKeys"]
          \/ tombstone' = tombstone /\ removal' = NotRunning
      BY <2>7 DEF VerifyFilesDeleted, AdvanceTo
    <3>2. removal' \in [at : Points, passes : {0, 1}] \cup {NotRunning} /\ removal'.at # "clear"
      BY <2>2, <3>1 DEF Points, Stages, NotRunning, Run
    <3>3. tombstone' \in Stages
      BY <2>3, <2>7, <3>1 DEF VerifyFilesDeleted, Stages
    <3> QED  BY <1>1, <2>1, <2>2, <2>7, <3>2, <3>3, RunStep DEF VerifyFilesDeleted
  <2>8. CASE DeleteKeys
    <3>1. /\ \/ tombstone' = "ClearingCaches" /\ removal' = [removal EXCEPT !.at = "ClearingCaches"]
             \/ tombstone' = tombstone /\ removal' = NotRunning
          /\ keyring' \subseteq Keys /\ faults' \in 0 .. MaxFaults
      BY <1>1, <2>8, FaultTyped DEF DeleteKeys, AdvanceTo
    <3>2. removal' \in [at : Points, passes : {0, 1}] \cup {NotRunning} /\ removal'.at # "clear"
      BY <2>2, <3>1 DEF Points, Stages, NotRunning, Run
    <3>3. tombstone' \in Stages
      BY <2>3, <2>8, <3>1 DEF DeleteKeys, Stages
    <3> QED  BY <2>1, <2>2, <2>8, <3>1, <3>2, <3>3, RunStep DEF DeleteKeys
  <2>9. CASE VerifyAbsence
    <3>1. \/ Absent /\ removal' = [removal EXCEPT !.at = "clear"] /\ tombstone' = tombstone
          \/ tombstone' = "DeletingSlots" /\ removal' = Run("DeletingSlots", 1)
          \/ tombstone' = tombstone /\ removal' = NotRunning
      BY <2>9 DEF VerifyAbsence
    <3>2. /\ removal' \in [at : Points, passes : {0, 1}] \cup {NotRunning}
          /\ removal'.at = "clear" => Absent
      BY <2>2, <3>1 DEF Points, Stages, NotRunning, Run
    <3>3. tombstone' \in Stages
      BY <2>3, <2>9, <3>1 DEF VerifyAbsence, Stages
    <3>4. UNCHANGED <<vars, keyring, faults>>
      BY <2>9 DEF VerifyAbsence
    <3>5. removal'.at = "clear" => FilesAbsent' /\ keyring' = {}
      BY <3>2, <3>4 DEF Absent, FilesAbsent, vars
    <3> QED  BY <1>1, <2>1, <2>2, <3>2, <3>3, <3>4, <3>5, RunStep
  <2>10. CASE ClearTombstone
    <3>1. FilesAbsent /\ job = Idle /\ removal' = NotRunning /\ UNCHANGED <<vars, keyring, faults>>
      BY <1>2, <2>2, <2>10 DEF ClearTombstone, RInv, RunInv
    <3>2. /\ job'.at = "idle" /\ job'.file = NoFile /\ job' = Idle /\ journal' = NoJournal
          /\ \A s \in Slots : slot'[s] = NoFile
      BY <3>1 DEF vars, FilesAbsent, Idle, Job
    <3>3. NoFile.mode = "missing" /\ NoJournal.state = "missing"
      BY DEF NoFile, File, NoJournal, Record
    <3>4. StoreInvariant'
      BY <3>2, <3>3 DEF StoreInvariant, SlotsMatchJournal, RemovalMissesActiveSlot, PlannedSwitch,
                        FallbackTracked
    <3>5. Whole'
      BY <3>2, <3>3, <3>4 DEF Whole, KeysKept
    <3>6. RemovalTypeOK'
      BY <1>1, <2>1, <2>10, <3>1 DEF ClearTombstone, RemovalTypeOK
    <3>7. JobFiled' /\ RunInv'
      BY <3>1, <3>2 DEF JobFiled, RunInv, NotRunning, Run, Idle, Job
    <3> QED  BY <3>5, <3>6, <3>7 DEF RInv
  <2> QED  BY <1>9, <2>4, <2>5, <2>6, <2>7, <2>8, <2>9, <2>10 DEF RemovalStep
<1>10. CASE UNCHANGED allVars
  <2>1. UNCHANGED <<vars, tombstone, keyring, removal, faults>>
    BY <1>10 DEF allVars, removalVars
  <2>2. RemovalTypeOK'
    BY <2>1 DEF RInv, RemovalTypeOK, vars, TypeOK
  <2>3. JobFiled' /\ RunInv'
    BY <2>1 DEF RInv, JobFiled, RunInv, vars, FilesAbsent
  <2>4. tombstone' = "none" => Whole'
    BY <2>1 DEF RInv, Whole, vars, StoreInvariant, SlotsMatchJournal, RemovalMissesActiveSlot,
                PlannedSwitch, FallbackTracked, KeysKept
  <2> QED  BY <2>2, <2>3, <2>4 DEF RInv
<1> QED  BY <1>3, <1>4, <1>5, <1>6, <1>7, <1>8, <1>9, <1>10 DEF RemovalNext

\* Nothing is there at first.
LEMMA RemovalStarts == RemovalInit => RInv
<1> SUFFICES ASSUME RemovalInit PROVE RInv
  OBVIOUS
<1>1. TypeOK /\ StoreInvariant
  BY InitTyped, InitStoreInvariant DEF RemovalInit
<1>2. RemovalTypeOK
  BY <1>1, RemovalAssumption DEF RemovalInit, RemovalTypeOK
<1>3. NoFile.mode = "missing" /\ NoJournal.state = "missing"
  BY DEF NoFile, File, NoJournal, Record
<1>4. Whole
  BY <1>1, <1>3 DEF RemovalInit, Init, Whole, KeysKept, Idle, Job
<1>5. JobFiled /\ RunInv
  BY DEF RemovalInit, Init, JobFiled, RunInv, Idle, Job, NotRunning, Run
<1> QED  BY <1>2, <1>4, <1>5 DEF RInv

\* What holds in every state.
LEMMA RemovalReachable == RemovalSpec => []RInv
BY RemovalStarts, RemovalKeeps, PTL DEF RemovalSpec

-----------------------------------------------------------------------------
(* The theorems.                                                             *)

\* The store keeps its types on whatever a removal has left of it.
THEOREM RemovalTypes == RemovalSpec => []RemovalTypeOK
<1>1. RInv => RemovalTypeOK
  BY DEF RInv
<1> QED  BY <1>1, RemovalReachable, PTL

\* A vault of which a removal run has taken a part has a tombstone
\* (removal.rs: "persisted before any destructive step and survives until verified absence").
THEOREM TombstoneTheorem == RemovalSpec => []HalfRemovedIsRecorded
<1>1. RInv => HalfRemovedIsRecorded
  BY DEF RInv, RunInv, Whole, HalfRemovedIsRecorded
<1> QED  BY <1>1, RemovalReachable, PTL

\* The key of an OS-backed vault is deleted after the vault only, also by a
\* run that was interrupted before the vault was there.
THEOREM KeyTheorem == RemovalSpec => []WrappingKeyKept
<1>1. RInv => WrappingKeyKept
  <2> SUFFICES ASSUME RInv, tombstone = "none", ActiveReadable, slot[journal.slot].mode = "osBacked"
               PROVE  slot[journal.slot].key \in keyring
    BY DEF WrappingKeyKept
  <2>1. journal.slot \in Slots
    BY JournalFields DEF ActiveReadable, RInv, RemovalTypeOK
  <2> QED  BY <2>1 DEF RInv, Whole, KeysKept
<1> QED  BY <1>1, RemovalReachable, PTL
=============================================================================
