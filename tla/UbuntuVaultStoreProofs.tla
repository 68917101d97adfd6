------------------------ MODULE UbuntuVaultStoreProofs ------------------------
(* Proofs about UbuntuVaultStore, for every set of keys and every bound on   *)
(* the generation counter.  StoreInvariant is inductive on top of TypeOK;    *)
(* the two safety properties follow from it.                                 *)
EXTENDS UbuntuVaultStore, TLAPS

USE DEF Slots, Modes, Generations, Steps, Operations, JournalStates

-----------------------------------------------------------------------------
(* The other slot really is the other one, and typed records are typed.      *)

\* inactive_of maps each of the two fixed slots to the other one.
LEMMA InactiveIsOther ==
    ASSUME NEW s \in Slots
    PROVE  /\ InactiveOf(s) \in Slots
           /\ InactiveOf(s) # s
           /\ InactiveOf(InactiveOf(s)) = s
BY DEF InactiveOf

\* The two ways of building a file give a package.
LEMMA FileTyped ==
    /\ \A g \in Generations, k \in Keys : File("osBacked", g, k) \in Packages
    /\ \A g \in Generations : File("passwordOnly", g, NoKey) \in Packages
BY DEF Packages

\* The fields of a package, as written and with its payload altered.
LEMMA PackageFields ==
    ASSUME NEW p \in Packages
    PROVE  /\ p \in Files /\ Altered(p) \in Files
           /\ p.payload = "intact" /\ Altered(p).payload = "altered"
           /\ p.key \in Keys \cup {NoKey}
           /\ p.mode = "osBacked" <=> p.key \in Keys
           /\ p.mode = "passwordOnly" <=> p.key = NoKey
           /\ Altered(p).mode = p.mode /\ Altered(p).gen = p.gen /\ Altered(p).key = p.key
           /\ p.gen \in Generations /\ p.mode \in Modes
<1>1. ASSUME NEW m \in Modes, NEW g \in Generations, NEW k \in Keys \cup {NoKey},
             p = File(m, g, k), m = "osBacked" <=> k \in Keys
      PROVE  /\ p.payload = "intact" /\ p.key = k /\ p.mode = m /\ p.gen = g
             /\ Altered(p) = [mode |-> m, gen |-> g, key |-> k, payload |-> "altered"]
             /\ p.mode = "osBacked" <=> p.key \in Keys
             /\ p.mode = "passwordOnly" <=> p.key = NoKey
      BY <1>1, StoreAssumption DEF File, Altered
<1>2. PICK m \in Modes, g \in Generations, k \in Keys \cup {NoKey} :
          p = File(m, g, k) /\ (m = "osBacked" <=> k \in Keys)
      BY StoreAssumption DEF Packages
<1>3. p \in Files /\ Altered(p) \in Files
      BY DEF Files
<1>4. /\ p.payload = "intact" /\ p.key = k /\ p.mode = m /\ p.gen = g
      /\ Altered(p) = [mode |-> m, gen |-> g, key |-> k, payload |-> "altered"]
      /\ p.mode = "osBacked" <=> p.key \in Keys
      /\ p.mode = "passwordOnly" <=> p.key = NoKey
      BY <1>1, <1>2
<1> QED BY <1>3, <1>4

\* A file that parses has a generation in range and is neither missing nor
\* damaged beyond parsing; it is a package exactly if it is intact.
LEMMA FileFields ==
    ASSUME NEW f \in Files
    PROVE  /\ f.gen \in Generations
           /\ f.mode \in Modes
           /\ f.key \in Keys \cup {NoKey}
           /\ f.mode = "osBacked" <=> f.key \in Keys
           /\ f # NoFile /\ f # Damaged
           /\ f \in Contents
           /\ f.payload \in {"intact", "altered"}
           /\ f.payload = "intact" <=> f \in Packages
<1>1. CASE f \in Packages
  <2>1. f.mode \in Modes /\ NoFile.mode = "missing" /\ Damaged.mode = "damaged"
        BY <1>1, PackageFields DEF NoFile, Damaged, File
  <2>2. f.payload = "intact"
        BY <1>1 DEF Packages, File
  <2> QED BY <1>1, <2>1, <2>2, PackageFields, StoreAssumption DEF Contents
<1>2. ASSUME NEW p \in Packages, f = Altered(p)
      PROVE  /\ f.gen \in Generations /\ f.mode \in Modes
             /\ f.key \in Keys \cup {NoKey}
             /\ f.mode = "osBacked" <=> f.key \in Keys
             /\ f # NoFile /\ f # Damaged /\ f.payload = "altered" /\ f \notin Packages
  <2>1. f.mode \in Modes /\ NoFile.mode = "missing" /\ Damaged.mode = "damaged"
        BY <1>2, PackageFields DEF NoFile, Damaged, File
  <2>2. f.payload = "altered"
        BY <1>2 DEF Packages, File, Altered
  <2> QED BY <1>2, <2>1, <2>2, PackageFields
<1> QED BY <1>1, <1>2 DEF Files, Contents

\* What validates is a file, and intact if it was authenticated.
LEMMA ValidFields ==
    ASSUME NEW f, NEW g, NEW key, Validates(f, g, key)
    PROVE  /\ f \in Files /\ f.gen = g
           /\ Validates(f, g, NoKey)
           /\ f.mode = "osBacked" /\ key # NoKey => f \in Packages /\ f.key = key
BY FileFields DEF Validates

\* The journal is either missing or a full record.
LEMMA JournalFields ==
    ASSUME TypeOK, journal # NoJournal
    PROVE  /\ journal \in Journals
           /\ journal.gen \in Generations
           /\ journal.slot \in Slots
           /\ journal.retained \in 0 .. MaxGeneration
           /\ journal.state \in JournalStates
BY DEF TypeOK, Journals

\* A record built from parts in range is a journal.
LEMMA RecordTyped ==
    ASSUME NEW st \in JournalStates, NEW g \in Generations,
           NEW r \in 0 .. MaxGeneration, NEW s \in Slots
    PROVE  Record(st, g, r, s) \in Journals
BY DEF Record, Journals

\* A job built from parts in range is a job, and it is not Idle.
LEMMA JobTyped ==
    ASSUME NEW op \in Operations, NEW at \in Steps, NEW s \in Slots,
           NEW f \in Contents, NEW j \in Journals,
           NEW k \in Keys \cup {NoKey}, NEW a \in BOOLEAN
    PROVE  Job(op, at, s, f, j, k, a) \in Jobs
BY DEF Job, Jobs

LEMMA JobAtStep ==
    ASSUME TypeOK, job.at \in Steps
    PROVE  job \in Jobs
BY DEF TypeOK, Idle, Job

-----------------------------------------------------------------------------
(* Types. *)

\* The initial state is typed.
LEMMA InitTyped == Init => TypeOK
<1> SUFFICES ASSUME Init PROVE TypeOK
    OBVIOUS
<1>1. slot \in [Slots -> Contents]
      BY DEF Init, Contents
<1>2. sidecar \in [mode : Modes \cup {"unset"}, ack : BOOLEAN]
      BY DEF Init
<1> QED BY <1>1, <1>2 DEF Init, TypeOK

\* A request that is accepted starts a typed job.
LEMMA RequestsTyped ==
    ASSUME TypeOK, Requests
    PROVE  TypeOK'
<1> USE StoreAssumption
<1>1. ASSUME NEW mode \in Modes, NEW key \in Keys \cup {NoKey}, NEW ack \in BOOLEAN,
             BeginProvision(mode, key, ack)
      PROVE  TypeOK'
  <2>1. File(mode, 1, key) \in Contents
        BY <1>1, FileTyped, PackageFields, FileFields DEF BeginProvision, Request
  <2>2. Record("active", 1, 0, "A") \in Journals
        BY RecordTyped
  <2>3. job' \in Jobs
        BY <1>1, <2>1, <2>2, JobTyped DEF BeginProvision, Begin
  <2> QED BY <1>1, <2>3 DEF BeginProvision, Begin, Request, TypeOK, disk
<1>2. ASSUME NEW mode \in Modes, NEW key \in Keys \cup {NoKey}, NEW ack \in BOOLEAN,
             BeginCommit(mode, key, ack)
      PROVE  TypeOK'
  <2>1. /\ journal.gen \in Generations /\ journal.gen + 1 \in Generations
        /\ InactiveOf(journal.slot) \in Slots
        BY <1>2, JournalFields, InactiveIsOther DEF BeginCommit
  <2>2. File(mode, journal.gen + 1, key) \in Contents
        BY <1>2, <2>1, FileTyped, PackageFields, FileFields DEF BeginCommit, Request
  <2>3. Record("active", journal.gen + 1, journal.gen, InactiveOf(journal.slot)) \in Journals
        BY <2>1, RecordTyped
  <2>4. job' \in Jobs
        BY <1>2, <2>1, <2>2, <2>3, JobTyped DEF BeginCommit, Begin
  <2> QED BY <1>2, <2>4 DEF BeginCommit, Begin, Request, TypeOK, disk
<1>3. ASSUME NEW key \in Keys, BeginStage(key) PROVE TypeOK'
  <2>0. journal # NoJournal
        BY <1>3 DEF BeginStage, NoJournal, Record
  <2>1. File("osBacked", journal.gen, key) \in Contents
        BY <2>0, JournalFields, FileTyped, PackageFields, FileFields
  <2>2. [journal EXCEPT !.state = "pendingRotation"] \in Journals
        BY <2>0, JournalFields DEF Journals
  <2>3. job' \in Jobs
        BY <1>3, <2>0, <2>1, <2>2, JobTyped, JournalFields, InactiveIsOther
        DEF BeginStage, Begin
  <2> QED BY <1>3, <2>3 DEF BeginStage, Begin, TypeOK, disk
<1>4. ASSUME NEW key \in Keys, BeginPromote(key) PROVE TypeOK'
  <2>0. journal # NoJournal
        BY <1>4 DEF BeginPromote, NoJournal, Record
  <2>1. /\ journal.gen \in Generations /\ InactiveOf(journal.slot) \in Slots
        BY <2>0, JournalFields, InactiveIsOther
  <2>2. slot[InactiveOf(journal.slot)] \in Contents
        BY <2>1 DEF TypeOK
  <2>3. Record("active", journal.gen, journal.gen, InactiveOf(journal.slot)) \in Journals
        BY <2>1, RecordTyped
  <2>4. job' \in Jobs
        BY <1>4, <2>1, <2>2, <2>3, JobTyped DEF BeginPromote, Begin
  <2> QED BY <1>4, <2>4 DEF BeginPromote, Begin, TypeOK, disk
<1>5. ASSUME NEW expected \in Generations, NEW key \in Keys \cup {NoKey},
             BeginRollback(expected, key)
      PROVE  TypeOK'
  <2>1. /\ journal.gen \in Generations /\ InactiveOf(journal.slot) \in Slots
        BY <1>5, JournalFields, InactiveIsOther DEF BeginRollback
  <2>2. slot[InactiveOf(journal.slot)] \in Contents
        BY <2>1 DEF TypeOK
  <2>3. Record("active", expected, journal.gen, InactiveOf(journal.slot)) \in Journals
        BY <2>1, RecordTyped
  <2>4. job' \in Jobs
        BY <1>5, <2>1, <2>2, <2>3, JobTyped DEF BeginRollback, Begin
  <2> QED BY <1>5, <2>4 DEF BeginRollback, Begin, TypeOK, disk
<1>6. ASSUME NEW op \in {"unlock", "cleanup"}, journal # NoJournal, DropRetained(op),
             UNCHANGED acked
      PROVE  TypeOK'
  <2>1. [journal EXCEPT !.retained = 0] \in Journals
        BY <1>6, JournalFields DEF Journals
  <2>2. job' \in Jobs
        BY <1>6, <2>1, JobTyped, JournalFields, InactiveIsOther
        DEF DropRetained, Begin, Contents
  <2> QED BY <1>6, <2>2 DEF DropRetained, Begin, TypeOK, disk
<1> QED BY <1>1, <1>2, <1>3, <1>4, <1>5, <1>6 DEF Requests, BeginUnlock, BeginCleanup

\* Every step keeps the types, if what the sidecar mirrors is a file and what
\* is written a package.
LEMMA NextTyped ==
    ASSUME TypeOK, job.at = "sidecar" => job.file \in Files,
           job.at = "slot" => job.file \in Packages, [Next]_vars
    PROVE  TypeOK'
<1> USE StoreAssumption
<1>1. CASE Requests
      BY <1>1, RequestsTyped
<1>2. CASE StepWriteSlot
  <2>1. job \in Jobs
        BY <1>2, JobAtStep DEF StepWriteSlot
  <2>2. PICK written \in {job.file, Altered(job.file), Damaged} :
            slot' = [slot EXCEPT ![job.target] = written]
        BY <1>2 DEF StepWriteSlot
  <2>3. written \in Contents
        BY <1>2, <2>1, PackageFields DEF StepWriteSlot, Jobs, Contents
  <2>4. slot' \in [Slots -> Contents]
        BY <2>2, <2>3 DEF TypeOK
  <2>5. job' \in Jobs
        BY <1>2, <2>1 DEF StepWriteSlot, Advance, Jobs
  <2> QED BY <1>2, <2>4, <2>5 DEF StepWriteSlot, TypeOK
<1>3. CASE StepVerify
  <2>1. job' \in Jobs
        BY <1>3, JobAtStep DEF StepVerify, Advance, Jobs
  <2> QED BY <1>3, <2>1 DEF StepVerify, TypeOK, disk
<1>4. CASE StepWriteJournal
  <2>1. job \in Jobs
        BY <1>4, JobAtStep DEF StepWriteJournal
  <2>2. job' \in Jobs \cup {Idle}
        BY <1>4, <2>1 DEF StepWriteJournal, Advance, Finish, Jobs
  <2>3. journal' \in Journals
        BY <1>4, <2>1 DEF StepWriteJournal, Jobs, Journals, TypeOK
  <2> QED BY <1>4, <2>2, <2>3 DEF StepWriteJournal, TypeOK
<1>5. CASE StepMirrorSidecar
  <2>1. job \in Jobs /\ job.file.mode \in Modes
        BY <1>5, JobAtStep, FileFields DEF StepMirrorSidecar
  <2> QED BY <1>5, <2>1 DEF StepMirrorSidecar, Finish, TypeOK, Jobs
<1>6. CASE StepRemoveRollback
      BY <1>6 DEF StepRemoveRollback, Finish, TypeOK, Contents
<1>7. CASE Fail
      BY <1>7 DEF Fail, Finish, TypeOK, disk
<1>8. CASE Crash
      BY <1>8 DEF Crash, Finish, TypeOK, disk
<1>9. CASE Reconcile
  <2>1. slot' \in [Slots -> Contents]
    <3>1. CASE ReconcileNoVault
          BY <3>1 DEF ReconcileNoVault, TypeOK, Contents
    <3>2. CASE ReconcileVault
          BY <3>2 DEF ReconcileVault, TypeOK, Contents
    <3>3. CASE ReconcileFailsClosed
          BY <3>3 DEF ReconcileFailsClosed, TypeOK, disk
    <3> QED BY <1>9, <3>1, <3>2, <3>3 DEF Reconcile
  <2> QED BY <1>9, <2>1
          DEF Reconcile, ReconcileNoVault, ReconcileVault, ReconcileFailsClosed,
              TypeOK, disk
<1>10. CASE UNCHANGED vars
      BY <1>10 DEF TypeOK, vars
<1> QED BY <1>1, <1>2, <1>3, <1>4, <1>5, <1>6, <1>7, <1>8, <1>9, <1>10
        DEF Next, Writes

-----------------------------------------------------------------------------
(* The inductive invariant. *)

\* The initial state has no file, no journal and no job.
LEMMA InitStoreInvariant == Init => StoreInvariant
<1> SUFFICES ASSUME Init PROVE StoreInvariant
    OBVIOUS
<1>1. /\ job.at = "idle" /\ job.file = NoFile
      /\ job = Idle /\ journal = NoJournal
      BY DEF Init, Idle, Job
<1>2. \A s \in Slots : slot[s].mode = "missing"
      BY DEF Init, NoFile, File
<1>3. NoFile.mode = "missing"
      BY DEF NoFile, File
<1> QED BY <1>1, <1>2, <1>3
        DEF StoreInvariant, SlotsMatchJournal, RemovalMissesActiveSlot, PlannedSwitch,
            FallbackTracked

\* Nothing is in flight when a request is accepted, and the disk is not touched.
LEMMA RequestFrame ==
    ASSUME TypeOK, StoreInvariant, Requests
    PROVE  /\ slot' = slot /\ journal' = journal /\ process' = "up"
           /\ SlotsMatchJournal'
           /\ acked => acked'
           /\ (\E s \in Slots : slot[s].mode = "passwordOnly") => acked
<1>1. /\ UNCHANGED disk /\ process = "up" /\ process' = process
      BY DEF Requests, BeginProvision, BeginCommit, BeginStage, BeginPromote,
             BeginRollback, BeginUnlock, BeginCleanup, DropRetained, Begin, Ready
<1>2. acked => acked'
      BY DEF Requests, BeginProvision, BeginCommit, BeginStage, BeginPromote,
             BeginRollback, BeginUnlock, BeginCleanup, Request, TypeOK
<1> QED BY <1>1, <1>2 DEF disk, StoreInvariant, SlotsMatchJournal, FallbackTracked

\* A request plans its writes as the invariant asks.
LEMMA RequestsKeepInvariant ==
    ASSUME TypeOK, StoreInvariant, Requests
    PROVE  StoreInvariant'
<1> USE StoreAssumption, RequestFrame
<1> DEFINE Planned == RemovalMissesActiveSlot' /\ PlannedSwitch' /\ FallbackTracked'
<1>1. ASSUME NEW mode \in Modes, NEW key \in Keys \cup {NoKey}, NEW ack \in BOOLEAN,
             BeginProvision(mode, key, ack)
      PROVE  Planned
  <2>1. File(mode, 1, key) \in Packages
        BY <1>1, FileTyped DEF BeginProvision, Request
  <2>2. journal = NoJournal
        BY <1>1, JournalFields, FileFields
        DEF BeginProvision, StoreInvariant, SlotsMatchJournal, Validates, NoFile,
            Damaged, File
  <2>3. /\ job'.op = "provision"
        /\ job'.at = "slot"
        /\ job'.target = "A"
        /\ job'.file = File(mode, 1, key)
        /\ job'.next = Record("active", 1, 0, "A")
        /\ job'.key = key
        BY <1>1 DEF BeginProvision, Begin, Job
  <2>4. slot["B"] = NoFile /\ File(mode, 1, key).gen = 1 /\ File(mode, 1, key).mode = mode
        BY <1>1 DEF BeginProvision, File
  <2>5. mode = "passwordOnly" => acked'
        BY <1>1 DEF BeginProvision, Request, TypeOK
  <2>6. RemovalMissesActiveSlot'
        BY <2>2, <2>3 DEF RemovalMissesActiveSlot
  <2>7. PlannedSwitch'
        BY <2>1, <2>2, <2>3, <2>4 DEF PlannedSwitch
  <2>8. FallbackTracked'
        BY <2>3, <2>4, <2>5 DEF FallbackTracked
  <2> QED BY <2>6, <2>7, <2>8
<1>2. ASSUME NEW mode \in Modes, NEW key \in Keys \cup {NoKey}, NEW ack \in BOOLEAN,
             BeginCommit(mode, key, ack)
      PROVE  Planned
  <2>1. /\ journal # NoJournal
        /\ journal.gen + 1 \in Generations
        BY <1>2, JournalFields DEF BeginCommit
  <2>2. File(mode, journal.gen + 1, key) \in Packages
        BY <1>2, <2>1, FileTyped DEF BeginCommit, Request
  <2>3. /\ job'.op = "commit"
        /\ job'.at = "slot"
        /\ job'.target = InactiveOf(journal.slot)
        /\ job'.file = File(mode, journal.gen + 1, key)
        /\ job'.next = Record("active", journal.gen + 1, journal.gen, InactiveOf(journal.slot))
        /\ job'.key = key
        BY <1>2 DEF BeginCommit, Begin, Job
  <2>4. /\ File(mode, journal.gen + 1, key).gen = journal.gen + 1
        /\ File(mode, journal.gen + 1, key).mode = mode
        /\ File(mode, journal.gen + 1, key).key = key
        BY DEF File
  <2>5. mode = "passwordOnly" => acked'
        BY <1>2 DEF BeginCommit, Request, TypeOK
  <2>6. RemovalMissesActiveSlot'
        BY <2>1, <2>3 DEF RemovalMissesActiveSlot
  <2>7. PlannedSwitch'
        BY <2>1, <2>2, <2>3, <2>4 DEF PlannedSwitch
  <2>8. FallbackTracked'
        BY <2>3, <2>4, <2>5 DEF FallbackTracked
  <2> QED BY <2>6, <2>7, <2>8
<1>3. ASSUME NEW key \in Keys, BeginStage(key) PROVE Planned
  <2>1. journal # NoJournal
        BY <1>3 DEF BeginStage, NoJournal, Record
  <2>2. File("osBacked", journal.gen, key) \in Packages
        BY <2>1, JournalFields, FileTyped
  <2>3. /\ job'.op = "stage"
        /\ job'.at = "slot"
        /\ job'.target = InactiveOf(journal.slot)
        /\ job'.file = File("osBacked", journal.gen, key)
        /\ job'.next = [journal EXCEPT !.state = "pendingRotation"]
        BY <1>3 DEF BeginStage, Begin, Job
  <2>4. /\ File("osBacked", journal.gen, key).gen = journal.gen
        /\ File("osBacked", journal.gen, key).mode = "osBacked"
        BY DEF File
  <2>5. RemovalMissesActiveSlot'
        BY <2>1, <2>3 DEF RemovalMissesActiveSlot
  <2>6. PlannedSwitch'
        BY <2>1, <2>2, <2>3, <2>4 DEF PlannedSwitch
  <2>7. FallbackTracked'
        BY <2>3, <2>4 DEF FallbackTracked
  <2> QED BY <2>5, <2>6, <2>7
<1>4. ASSUME NEW key \in Keys, BeginPromote(key) PROVE Planned
  <2> DEFINE staged == InactiveOf(journal.slot)
  <2>1. journal # NoJournal
        BY <1>4 DEF BeginPromote, NoJournal, Record
  <2>2. /\ Validates(slot[staged], journal.gen, key)
        /\ slot[staged].mode = "osBacked" /\ slot[staged].gen = journal.gen
        BY <1>4 DEF BeginPromote, Validates
  <2>3. /\ job'.op = "promote"
        /\ job'.at = "journal"
        /\ job'.target = staged
        /\ job'.file = slot[staged]
        /\ job'.next = Record("active", journal.gen, journal.gen, staged)
        /\ job'.key = key /\ key # NoKey
        BY <1>4, StoreAssumption DEF BeginPromote, Begin, Job
  <2>4. RemovalMissesActiveSlot'
        BY <2>1, <2>3 DEF RemovalMissesActiveSlot
  <2>5. PlannedSwitch'
        BY <2>1, <2>2, <2>3 DEF PlannedSwitch
  <2>6. FallbackTracked'
        BY <2>2, <2>3 DEF FallbackTracked
  <2> QED BY <2>4, <2>5, <2>6
<1>5. ASSUME NEW expected \in Generations, NEW key \in Keys \cup {NoKey},
             BeginRollback(expected, key)
      PROVE  Planned
  <2> DEFINE other == InactiveOf(journal.slot)
  <2>1. journal # NoJournal /\ other \in Slots
        BY <1>5, JournalFields, InactiveIsOther DEF BeginRollback
  <2>2. Validates(slot[other], expected, key) /\ slot[other].gen = expected
        BY <1>5 DEF BeginRollback, Validates
  <2>3. /\ job'.op = "rollback"
        /\ job'.at = "journal"
        /\ job'.target = other
        /\ job'.file = slot[other]
        /\ job'.next = Record("active", expected, journal.gen, other)
        /\ job'.key = key
        BY <1>5 DEF BeginRollback, Begin, Job
  <2>4. RemovalMissesActiveSlot'
        BY <2>1, <2>3 DEF RemovalMissesActiveSlot
  <2>5. PlannedSwitch'
        BY <2>1, <2>2, <2>3 DEF PlannedSwitch
  <2>6. FallbackTracked'
        BY <2>1, <2>3 DEF FallbackTracked
  <2> QED BY <2>4, <2>5, <2>6
<1>6. ASSUME NEW op \in {"unlock", "cleanup"}, journal # NoJournal, DropRetained(op)
      PROVE  Planned
  <2>1. /\ job'.op = op
        /\ job'.at = "journal"
        /\ job'.target = InactiveOf(journal.slot)
        /\ job'.file = NoFile
        /\ job'.next = [journal EXCEPT !.retained = 0]
        BY <1>6 DEF DropRetained, Begin, Job
  <2>2. NoFile.mode = "missing"
        BY DEF NoFile, File
  <2>3. RemovalMissesActiveSlot'
        BY <1>6, <2>1 DEF RemovalMissesActiveSlot
  <2>4. PlannedSwitch'
        BY <1>6, <2>1 DEF PlannedSwitch
  <2>5. FallbackTracked'
        BY <2>1, <2>2 DEF FallbackTracked
  <2> QED BY <2>3, <2>4, <2>5
<1> QED BY <1>1, <1>2, <1>3, <1>4, <1>5, <1>6
        DEF Requests, BeginUnlock, BeginCleanup, StoreInvariant

\* A write carried out keeps the invariant; the active slot is never written.
LEMMA StepWriteSlotKeepsInvariant ==
    ASSUME TypeOK, StoreInvariant, StepWriteSlot
    PROVE  StoreInvariant'
<1> USE StoreAssumption
<1>1. /\ job \in Jobs /\ job.at = "slot" /\ job # Idle
      /\ UNCHANGED <<journal, process, acked>>
      /\ job' = [job EXCEPT !.at = IF job.op = "provision" THEN "journal" ELSE "verify"]
      BY JobAtStep DEF StepWriteSlot, Advance, Idle, Job
<1>2. PICK written \in {job.file, Altered(job.file), Damaged} :
          slot' = [slot EXCEPT ![job.target] = written]
      BY DEF StepWriteSlot
<1>3. job.op \in {"provision", "commit", "stage"}
      BY <1>1 DEF StoreInvariant, PlannedSwitch, Jobs
<1>4. /\ job'.op = job.op /\ job'.target = job.target
      /\ job'.file = job.file /\ job'.next = job.next /\ job'.key = job.key
      /\ job'.at = IF job.op = "provision" THEN "journal" ELSE "verify"
      /\ job.target \in Slots /\ job' # Idle
      BY <1>1, <1>3 DEF Jobs, Idle, Job
<1>5. Damaged.mode = "damaged" /\ Damaged \notin Files
      BY FileFields DEF Damaged, File
<1>10. /\ job.file \in Packages
       /\ written \in Files => written.gen = job.file.gen /\ written.mode = job.file.mode
  <2>1. job.file \in Packages
        BY <1>1, <1>3 DEF StoreInvariant, PlannedSwitch
  <2> QED BY <1>2, <1>5, <2>1, PackageFields
<1>6. SlotsMatchJournal'
  <2>1. CASE job.op = "provision"
        BY <1>1, <2>1 DEF StoreInvariant, PlannedSwitch, SlotsMatchJournal
  <2>2. CASE job.op # "provision"
    <3>1. /\ journal # NoJournal
          /\ job.target = InactiveOf(journal.slot)
          /\ job.target # journal.slot
          /\ job.file.gen \in {journal.gen, journal.gen + 1}
          BY <1>1, <1>3, <2>2, JournalFields, InactiveIsOther
          DEF StoreInvariant, PlannedSwitch
    <3>2. slot'[journal.slot] = slot[journal.slot]
          BY <1>2, <3>1, JournalFields DEF TypeOK
    <3>3. slot'[job.target] = written
          BY <1>2, <1>4 DEF TypeOK
    <3> QED BY <1>1, <1>10, <3>1, <3>2, <3>3
            DEF StoreInvariant, SlotsMatchJournal, Validates
  <2> QED BY <2>1, <2>2
<1>7. RemovalMissesActiveSlot'
      BY <1>1, <1>3, <1>4 DEF StoreInvariant, RemovalMissesActiveSlot, PlannedSwitch
<1>8. PlannedSwitch'
  <2>1. CASE job.op = "provision"
    <3>1. slot'["A"] = written /\ slot'["B"] = slot["B"]
          BY <1>1, <1>2, <2>1 DEF StoreInvariant, PlannedSwitch, TypeOK
    <3> QED BY <1>1, <1>2, <1>4, <2>1, <3>1
            DEF StoreInvariant, PlannedSwitch
  <2>2. CASE job.op # "provision"
    <3>1. slot'[job'.target] \in {job'.file, Altered(job'.file), Damaged}
          BY <1>2, <1>4 DEF TypeOK
    <3> QED BY <1>1, <1>3, <1>4, <2>2, <3>1 DEF StoreInvariant, PlannedSwitch
  <2> QED BY <2>1, <2>2
<1>9. FallbackTracked'
  <2>1. \A s \in Slots : slot'[s] = slot[s] \/ slot'[s] = written
        BY <1>2 DEF TypeOK
  <2>2. written.mode = "passwordOnly" => job.file.mode = "passwordOnly"
        BY <1>2, <1>5, <1>10, PackageFields
  <2> QED BY <1>1, <1>4, <2>1, <2>2 DEF StoreInvariant, FallbackTracked
<1> QED BY <1>6, <1>7, <1>8, <1>9 DEF StoreInvariant

\* A successful read-back leaves the package in the inactive slot, or its
\* altered form if nothing could authenticate it.
LEMMA StepVerifyKeepsInvariant ==
    ASSUME TypeOK, StoreInvariant, StepVerify
    PROVE  StoreInvariant'
<1>1. /\ job \in Jobs /\ job.at = "verify" /\ job # Idle
      /\ slot[job.target].mode = job.file.mode
      /\ Validates(slot[job.target], job.file.gen, job.key)
      /\ UNCHANGED <<slot, journal, process, acked>>
      /\ job' = [job EXCEPT !.at = "journal"]
      BY JobAtStep DEF StepVerify, Advance, Idle, Job, disk
<1>2. job.op \in {"commit", "stage"}
      BY <1>1 DEF StoreInvariant, PlannedSwitch, Jobs
<1>3. /\ job'.op = job.op /\ job'.target = job.target /\ job'.at = "journal"
      /\ job'.file = job.file /\ job'.next = job.next /\ job'.key = job.key
      BY <1>1 DEF Jobs
<1>4. SlotsMatchJournal' /\ FallbackTracked'
      BY <1>1, <1>3 DEF StoreInvariant, SlotsMatchJournal, FallbackTracked
<1>5. RemovalMissesActiveSlot'
      BY <1>1, <1>3 DEF StoreInvariant, RemovalMissesActiveSlot
<1>6. job.op = "commit" => \/ slot[job.target] = job.file
                           \/ job.key = NoKey /\ slot[job.target] = Altered(job.file)
  <2> SUFFICES ASSUME job.op = "commit"
               PROVE  \/ slot[job.target] = job.file
                      \/ job.key = NoKey /\ slot[job.target] = Altered(job.file)
      OBVIOUS
  <2>1. /\ job.file \in Packages /\ job.file.key = job.key
        /\ slot[job.target] \in {job.file, Altered(job.file), Damaged}
        BY <1>1 DEF StoreInvariant, PlannedSwitch
  <2>2. slot[job.target] # Damaged
        BY <1>1, FileFields DEF Validates
  <2>3. CASE slot[job.target] = Altered(job.file)
        BY <1>1, <2>1, <2>3, PackageFields DEF Validates
  <2> QED BY <2>1, <2>2, <2>3
<1>7. PlannedSwitch'
      BY <1>1, <1>2, <1>3, <1>6 DEF StoreInvariant, PlannedSwitch
<1> QED BY <1>4, <1>5, <1>7 DEF StoreInvariant

\* What the journal switch does to the journal, by operation: it keeps the
\* active slot and generation, or names a verified (or the first) slot.
LEMMA JournalSwitch ==
    ASSUME TypeOK, StoreInvariant, StepWriteJournal
    PROVE  /\ job \in Jobs /\ job # Idle
           /\ journal' = job.next /\ journal' # NoJournal /\ journal' \in Journals
           /\ UNCHANGED <<slot, process, acked>>
           /\ \/ /\ job.op = "provision"
                 /\ journal = NoJournal
                 /\ journal'.slot = "A" /\ journal'.gen = 1
                 /\ slot["A"] \in {job.file, Altered(job.file), Damaged}
                 /\ slot["B"] = NoFile
                 /\ job.file \in Packages /\ job.file.gen = 1
              \/ /\ job.op \in {"commit", "promote", "rollback"}
                 /\ journal # NoJournal
                 /\ job.target = InactiveOf(journal.slot)
                 /\ journal'.slot = job.target
                 /\ journal'.retained = journal.gen
                 /\ Validates(slot[job.target], journal'.gen, job.key)
                 /\ slot[job.target].mode = job.file.mode
                 /\ job.op = "commit" => /\ journal'.gen = journal.gen + 1
                                         /\ slot[job.target].key = job.key
                 /\ job.op = "promote" => /\ journal'.gen = journal.gen /\ job.key # NoKey
                                          /\ slot[job.target].mode = "osBacked"
              \/ /\ job.op \in {"stage", "unlock", "cleanup"}
                 /\ journal # NoJournal
                 /\ job.target = InactiveOf(journal.slot)
                 /\ journal'.slot = journal.slot /\ journal'.gen = journal.gen
<1> USE StoreAssumption
<1>1. /\ job \in Jobs /\ job.at = "journal" /\ job # Idle
      /\ journal' = job.next
      /\ UNCHANGED <<slot, process, acked>>
      BY JobAtStep DEF StepWriteJournal, Idle, Job
<1>2. journal' \in Journals /\ journal' # NoJournal
      BY <1>1 DEF Jobs, Journals, NoJournal, Record
<1>3. job.op \in Operations
      BY <1>1 DEF Jobs
<1>4. CASE job.op = "provision"
      BY <1>1, <1>2, <1>4 DEF StoreInvariant, PlannedSwitch, Record
<1>5. CASE job.op = "commit"
  <2>1. /\ journal # NoJournal /\ job.target = InactiveOf(journal.slot)
        /\ \/ slot[job.target] = job.file
           \/ job.key = NoKey /\ slot[job.target] = Altered(job.file)
        /\ job.file \in Packages /\ job.file.gen = journal.gen + 1
        /\ job.file.key = job.key
        /\ job.next = Record("active", journal.gen + 1, journal.gen, job.target)
        BY <1>1, <1>5 DEF StoreInvariant, PlannedSwitch
  <2>2. /\ journal'.slot = job.target /\ journal'.gen = job.file.gen
        /\ journal'.retained = journal.gen
        BY <1>1, <2>1 DEF Record
  <2>3. /\ Validates(slot[job.target], job.file.gen, job.key)
        /\ slot[job.target].mode = job.file.mode /\ slot[job.target].key = job.key
        BY <2>1, PackageFields DEF Validates
  <2> QED BY <1>1, <1>2, <1>5, <2>1, <2>2, <2>3
<1>6. CASE job.op \in {"promote", "rollback"}
  <2>1. /\ journal # NoJournal /\ job.target = InactiveOf(journal.slot)
        /\ slot[job.target] = job.file
        /\ Validates(job.file, job.file.gen, job.key)
        /\ job.op = "promote" => /\ job.file.mode = "osBacked" /\ job.key # NoKey
                                 /\ job.file.gen = journal.gen
        /\ job.next = Record("active", job.file.gen, journal.gen, job.target)
        BY <1>1, <1>6 DEF StoreInvariant, PlannedSwitch
  <2>2. /\ journal'.slot = job.target /\ journal'.gen = job.file.gen
        /\ journal'.retained = journal.gen
        BY <1>1, <2>1 DEF Record
  <2> QED BY <1>1, <1>2, <1>6, <2>1, <2>2
<1>7. CASE job.op \in {"stage", "unlock", "cleanup"}
  <2>1. /\ journal # NoJournal /\ job.target = InactiveOf(journal.slot)
        /\ \/ job.next = [journal EXCEPT !.state = "pendingRotation"]
           \/ job.next = [journal EXCEPT !.retained = 0]
        BY <1>1, <1>7 DEF StoreInvariant, PlannedSwitch
  <2>2. journal'.slot = journal.slot /\ journal'.gen = journal.gen
        BY <1>1, <2>1, JournalFields DEF Journals
  <2> QED BY <1>1, <1>2, <1>7, <2>1, <2>2
<1> QED BY <1>3, <1>4, <1>5, <1>6, <1>7

\* The generation the journal moves to is adjacent to the one it leaves.
LEMMA SwitchIsAdjacent ==
    ASSUME TypeOK, StoreInvariant, StepWriteJournal,
           job.op \in {"commit", "promote", "rollback"}
    PROVE  \/ journal'.gen \in {journal.gen, journal.gen + 1}
           \/ journal'.gen + 1 = journal.gen
<1>1. /\ slot[InactiveOf(journal.slot)] \in Files
      /\ slot[InactiveOf(journal.slot)].gen = journal'.gen
      /\ journal # NoJournal
      BY JournalSwitch DEF Validates
<1> QED BY <1>1 DEF StoreInvariant, SlotsMatchJournal

\* The journal switch keeps the invariant.
LEMMA StepWriteJournalKeepsInvariant ==
    ASSUME TypeOK, StoreInvariant, StepWriteJournal
    PROVE  StoreInvariant'
<1> USE StoreAssumption
<1>1. /\ job \in Jobs /\ job # Idle /\ process = "up"
      /\ UNCHANGED <<slot, process, acked>>
      /\ journal' # NoJournal
      BY JournalSwitch DEF StoreInvariant, RemovalMissesActiveSlot
<1>2. \/ job' = Idle
      \/ /\ job.op \in {"unlock", "cleanup"}
         /\ job' = [job EXCEPT !.at = "remove"]
      \/ /\ job.op \notin {"stage", "unlock", "cleanup"}
         /\ job' = [job EXCEPT !.at = "sidecar"]
      BY DEF StepWriteJournal, Advance, Finish
<1>3. /\ Idle.at = "idle" /\ Idle.op = "idle" /\ Idle.file = NoFile
      /\ NoFile.mode = "missing"
      BY DEF Idle, Job, NoFile, File
<1>4. job' # Idle => /\ job'.at \in {"remove", "sidecar"}
                     /\ job'.op = job.op /\ job'.file = job.file
                     /\ job'.target = job.target
      BY <1>1, <1>2 DEF Jobs
<1>5. SlotsMatchJournal'
  <2>1. CASE job.op = "provision"
    <3>1. /\ journal'.slot = "A" /\ journal'.gen = 1
          /\ slot["A"] \in {job.file, Altered(job.file), Damaged} /\ slot["B"] = NoFile
          /\ job.file \in Packages /\ job.file.gen = 1
          BY <2>1, JournalSwitch
    <3>2. slot["A"] = Damaged \/ (slot["A"] \in Files /\ slot["A"].gen = 1)
          BY <3>1, PackageFields
    <3> QED BY <1>1, <3>1, <3>2, FileFields
            DEF SlotsMatchJournal, Validates, InactiveOf
  <2>2. CASE job.op \in {"commit", "promote", "rollback"}
    <3>1. /\ journal # NoJournal /\ journal'.slot = InactiveOf(journal.slot)
          /\ Validates(slot[journal'.slot], journal'.gen, NoKey)
          BY <2>2, JournalSwitch, ValidFields
    <3>2. InactiveOf(journal'.slot) = journal.slot
          BY <3>1, JournalFields, InactiveIsOther
    <3>3. slot[journal.slot] \in Files => slot[journal.slot].gen = journal.gen
          BY <3>1, FileFields DEF StoreInvariant, SlotsMatchJournal, Validates
    <3>4. journal.gen \in Nat /\ journal'.gen \in Nat
          BY <3>1, JournalFields, FileFields DEF Validates
    <3> QED BY <1>1, <2>2, <3>1, <3>2, <3>3, <3>4, SwitchIsAdjacent
            DEF SlotsMatchJournal
  <2>3. CASE job.op \in {"stage", "unlock", "cleanup"}
        BY <1>1, <2>3, JournalSwitch DEF StoreInvariant, SlotsMatchJournal
  <2> QED BY <2>1, <2>2, <2>3, <1>1 DEF Jobs
<1>6. RemovalMissesActiveSlot'
  <2>1. job.op \in {"unlock", "cleanup"} =>
            journal'.slot = journal.slot /\ job.target = InactiveOf(journal.slot)
        BY JournalSwitch
  <2>2. job'.at = "remove" => job.op \in {"unlock", "cleanup"}
        BY <1>1, <1>2, <1>3 DEF Jobs
  <2> QED BY <1>1, <1>3, <1>4, <2>1, <2>2 DEF RemovalMissesActiveSlot
<1>7. PlannedSwitch'
  <2>1. job'.at = "sidecar" => job.file \in Files
    <3>1. job'.at = "sidecar" => job.op \in {"provision", "commit", "promote", "rollback"}
          BY <1>1, <1>2, <1>3 DEF Jobs
    <3>2. job.at = "journal"
          BY DEF StepWriteJournal
    <3> QED BY <3>1, <3>2, PackageFields DEF StoreInvariant, PlannedSwitch, Validates
  <2> QED BY <1>3, <1>4, <2>1 DEF PlannedSwitch
<1>8. FallbackTracked'
      BY <1>1, <1>3, <1>4 DEF StoreInvariant, FallbackTracked
<1> QED BY <1>5, <1>6, <1>7, <1>8 DEF StoreInvariant

\* Ending a job keeps the invariant, whatever happened to the inactive slot.
LEMMA FinishKeepsInvariant ==
    ASSUME TypeOK, StoreInvariant, job' = Idle, UNCHANGED <<journal, acked>>,
           \/ UNCHANGED slot
           \/ /\ journal # NoJournal
              /\ slot' = [slot EXCEPT ![InactiveOf(journal.slot)] = NoFile]
    PROVE  StoreInvariant'
<1>1. /\ Idle.at = "idle" /\ Idle.file = NoFile
      /\ NoFile.mode = "missing" /\ NoFile \notin Files
      BY FileFields DEF Idle, Job, NoFile, File
<1>2. \A s \in Slots : slot'[s] \in {slot[s], NoFile}
      BY DEF TypeOK
<1>3. journal # NoJournal =>
        /\ slot'[journal.slot] = slot[journal.slot]
        /\ slot'[InactiveOf(journal.slot)] \in {slot[InactiveOf(journal.slot)], NoFile}
      BY <1>2, JournalFields, InactiveIsOther DEF TypeOK
<1>4. SlotsMatchJournal'
      BY <1>1, <1>3 DEF StoreInvariant, SlotsMatchJournal, Validates
<1>5. RemovalMissesActiveSlot' /\ PlannedSwitch'
      BY <1>1 DEF RemovalMissesActiveSlot, PlannedSwitch
<1>6. FallbackTracked'
      BY <1>1, <1>2 DEF StoreInvariant, FallbackTracked
<1> QED BY <1>4, <1>5, <1>6 DEF StoreInvariant

\* Reconciliation keeps the invariant: with a journal it removes at most the
\* inactive slot, without one there is nothing to lose.
LEMMA ReconcileKeepsInvariant ==
    ASSUME TypeOK, StoreInvariant, Reconcile
    PROVE  StoreInvariant'
<1>1. job = Idle /\ job' = Idle /\ UNCHANGED <<journal, acked>>
      BY DEF Reconcile, ReconcileNoVault, ReconcileVault, ReconcileFailsClosed,
             disk, StoreInvariant, RemovalMissesActiveSlot
<1>2. CASE ReconcileNoVault
  <2>1. PICK gone \in SUBSET Slots :
            slot' = [s \in Slots |-> IF s \in gone THEN NoFile ELSE slot[s]]
        BY <1>2 DEF ReconcileNoVault
  <2>2. /\ Idle.at = "idle" /\ Idle.file = NoFile /\ NoFile.mode = "missing"
        BY DEF Idle, Job, NoFile, File
  <2>3. journal = NoJournal
        BY <1>2 DEF ReconcileNoVault
  <2>4. \A s \in Slots : slot'[s] \in {slot[s], NoFile}
        BY <2>1
  <2>5. FallbackTracked'
        BY <1>1, <2>2, <2>4 DEF StoreInvariant, FallbackTracked
  <2> QED BY <1>1, <2>2, <2>3, <2>5
          DEF StoreInvariant, SlotsMatchJournal, RemovalMissesActiveSlot, PlannedSwitch
<1>3. CASE ReconcileVault
  <2>1. journal # NoJournal
        BY <1>3 DEF ReconcileVault, NoJournal, Record
  <2> QED BY <1>1, <1>3, <2>1, FinishKeepsInvariant DEF ReconcileVault
<1>4. CASE ReconcileFailsClosed
      BY <1>1, <1>4, FinishKeepsInvariant DEF ReconcileFailsClosed, disk
<1> QED BY <1>2, <1>3, <1>4 DEF Reconcile

\* What is about to be written is a package.
LEMMA SlotIsPackage ==
    ASSUME TypeOK, StoreInvariant
    PROVE  job.at = "slot" => job.file \in Packages
<1> SUFFICES ASSUME job.at = "slot" PROVE job.file \in Packages
    OBVIOUS
<1>1. job \in Jobs
      BY JobAtStep
<1> QED BY <1>1 DEF Jobs, StoreInvariant, PlannedSwitch

\* Every step keeps the invariant.
LEMMA NextKeepsInvariant ==
    ASSUME TypeOK, StoreInvariant, [Next]_vars
    PROVE  StoreInvariant'
<1>1. CASE Requests
      BY <1>1, RequestsKeepInvariant
<1>2. CASE StepWriteSlot
      BY <1>2, StepWriteSlotKeepsInvariant
<1>3. CASE StepVerify
      BY <1>3, StepVerifyKeepsInvariant
<1>4. CASE StepWriteJournal
      BY <1>4, StepWriteJournalKeepsInvariant
<1>5. CASE StepMirrorSidecar
      BY <1>5, FinishKeepsInvariant DEF StepMirrorSidecar, Finish
<1>6. CASE StepRemoveRollback
  <2>1. journal # NoJournal /\ job.target = InactiveOf(journal.slot)
    <3>1. job \in Jobs /\ job.at = "remove"
          BY <1>6, JobAtStep DEF StepRemoveRollback
    <3> QED BY <3>1 DEF StoreInvariant, RemovalMissesActiveSlot
  <2> QED BY <1>6, <2>1, FinishKeepsInvariant DEF StepRemoveRollback, Finish
<1>7. CASE Fail
      BY <1>7, FinishKeepsInvariant DEF Fail, Finish, disk
<1>8. CASE Crash
      BY <1>8, FinishKeepsInvariant DEF Crash, Finish, disk
<1>9. CASE Reconcile
      BY <1>9, ReconcileKeepsInvariant
<1>10. CASE UNCHANGED vars
      BY <1>10 DEF vars, StoreInvariant, SlotsMatchJournal, RemovalMissesActiveSlot,
                   PlannedSwitch, FallbackTracked, Validates
<1> QED BY <1>1, <1>2, <1>3, <1>4, <1>5, <1>6, <1>7, <1>8, <1>9, <1>10
        DEF Next, Writes

-----------------------------------------------------------------------------
(* The theorems. *)

\* In every reachable state the store's variables have their types and the
\* slots, the journal and the operation in flight agree (writer.rs).
THEOREM StoreSafety == Spec => [](TypeOK /\ StoreInvariant)
<1>1. Init => TypeOK /\ StoreInvariant
      BY InitTyped, InitStoreInvariant
<1>2. TypeOK /\ StoreInvariant /\ [Next]_vars => (TypeOK /\ StoreInvariant)'
  <2> SUFFICES ASSUME TypeOK, StoreInvariant, [Next]_vars
               PROVE  TypeOK' /\ StoreInvariant'
      OBVIOUS
  <2>1. job.at = "sidecar" => job.file \in Files
        BY DEF StoreInvariant, PlannedSwitch
  <2> QED BY <2>1, SlotIsPackage, NextTyped, NextKeepsInvariant
<1> QED BY <1>1, <1>2, PTL DEF Spec

\* The types alone, over every crash and failed write.
THEOREM StoreTypes == Spec => []TypeOK
BY StoreSafety, PTL

\* A password-only vault is authoritative only after an acknowledgement
\* (commit, provision: fallback_acknowledged).
THEOREM DowngradeSafety == Spec => []DowngradeAcknowledged
<1>1. TypeOK /\ StoreInvariant => DowngradeAcknowledged
      BY JournalFields DEF StoreInvariant, FallbackTracked, DowngradeAcknowledged
<1> QED BY <1>1, StoreSafety, PTL

\* No step takes a readable active slot away, but for a switch to a package
\* that is damaged and was not authenticated (commit.rs, crash boundaries).
LEMMA StepPreservesReadable ==
    ASSUME TypeOK, StoreInvariant, [Next]_vars, ActiveReadable
    PROVE  \/ ActiveReadable'
           \/ /\ SwitchUnauthenticated /\ slot[journal'.slot].payload = "altered"
              /\ Opens(slot'[InactiveOf(journal'.slot)], journal'.retained)
<1>0. journal # NoJournal /\ journal.slot \in Slots
      /\ slot[journal.slot] \in Packages /\ slot[journal.slot].gen = journal.gen
      BY JournalFields DEF ActiveReadable, Opens
<1>1. CASE StepWriteJournal
  <2> USE <1>1
  <2>1. CASE job.op \in {"stage", "unlock", "cleanup"}
        BY <1>0, <2>1, JournalSwitch DEF ActiveReadable, Opens
  <2>2. CASE job.op \in {"commit", "promote", "rollback"}
    <3>1. /\ job.target = InactiveOf(journal.slot)
          /\ journal'.slot = job.target /\ journal'.retained = journal.gen
          /\ journal' # NoJournal /\ slot' = slot
          /\ Validates(slot[job.target], journal'.gen, job.key)
          /\ slot[job.target].mode = job.file.mode
          /\ job.op = "promote" => job.key # NoKey /\ slot[job.target].mode = "osBacked"
          BY <2>2, JournalSwitch
    <3>2. slot[job.target] \in Files /\ slot[job.target].gen = journal'.gen
          BY <3>1, ValidFields
    <3>3. CASE slot[job.target] \in Packages
          BY <3>1, <3>2, <3>3 DEF ActiveReadable, Opens
    <3>4. CASE slot[job.target] \notin Packages
      <4>1. slot[journal'.slot].payload = "altered"
            BY <3>1, <3>2, <3>4, FileFields
      <4>2. job.file.mode = "passwordOnly" \/ job.key = NoKey
            BY <3>1, <3>2, <3>4, FileFields, ValidFields
      <4>3. job.op \in {"commit", "rollback"} /\ job.at = "journal"
            BY <2>2, <3>1, <3>2, <3>4, ValidFields DEF StepWriteJournal
      <4>4. Opens(slot'[InactiveOf(journal'.slot)], journal'.retained)
            BY <1>0, <3>1, InactiveIsOther DEF Opens
      <4> QED BY <4>1, <4>2, <4>3, <4>4 DEF SwitchUnauthenticated
    <3> QED BY <3>3, <3>4
  <2> QED BY <1>0, <2>1, <2>2, JournalSwitch DEF Jobs
<1>2. CASE StepWriteSlot
  <2>1. /\ job \in Jobs /\ job.at = "slot"
        BY <1>2, JobAtStep DEF StepWriteSlot
  <2>2. job.target # journal.slot
        BY <1>0, <2>1, InactiveIsOther DEF StoreInvariant, PlannedSwitch
  <2> QED BY <1>0, <1>2, <2>2 DEF StepWriteSlot, ActiveReadable, Opens, TypeOK
<1>3. CASE StepRemoveRollback
  <2>1. job.target # journal.slot
        BY <1>0, <1>3, InactiveIsOther
        DEF StoreInvariant, RemovalMissesActiveSlot, StepRemoveRollback
  <2> QED BY <1>0, <1>3, <2>1 DEF StepRemoveRollback, ActiveReadable, Opens, TypeOK
<1>4. CASE ReconcileVault
      BY <1>0, <1>4, InactiveIsOther DEF ReconcileVault, ActiveReadable, Opens, TypeOK
<1>5. CASE ReconcileNoVault
      BY <1>0, <1>5 DEF ReconcileNoVault
<1>6. CASE \/ Requests \/ StepVerify \/ StepMirrorSidecar \/ Fail \/ Crash
           \/ ReconcileFailsClosed \/ UNCHANGED vars
  <2>1. UNCHANGED <<slot, journal>>
        BY <1>6, RequestFrame
        DEF StepVerify, StepMirrorSidecar, Fail, Crash, ReconcileFailsClosed, disk, vars
  <2> QED BY <1>0, <2>1 DEF ActiveReadable, Opens
<1> QED BY <1>1, <1>2, <1>3, <1>4, <1>5, <1>6 DEF Next, Writes, Reconcile

\* Once the active slot can be opened, no write, failure, crash or
\* reconciliation changes that, except for a switch to a damaged package that
\* nothing could authenticate.
THEOREM RecoverableSlotTheorem == Spec => RecoverableSlotPreserved
<1>1. TypeOK /\ StoreInvariant /\ [Next]_vars
          => [ActiveReadable =>
                 \/ ActiveReadable'
                 \/ /\ SwitchUnauthenticated /\ slot[journal'.slot].payload = "altered"
                    /\ Opens(slot'[InactiveOf(journal'.slot)], journal'.retained)]_vars
      BY StepPreservesReadable
<1> QED BY <1>1, StoreSafety, PTL DEF Spec, RecoverableSlotPreserved

-----------------------------------------------------------------------------
(* Refinement. *)

\* The abstract vault before the first provision.
LEMMA InitRefines == Init => Vault!Init
BY DEF Init, CurrentVault, RequestOf, Idle, Job, Vault!Init, Vault!None, Vault!NoRequest

\* Files are exactly the abstract packages.
LEMMA FilesArePackages == \A f \in Files : f \in Vault!Packages
<1> SUFFICES ASSUME NEW f \in Files PROVE f \in Vault!Packages
    OBVIOUS
<1>1. ASSUME NEW p \in Packages
      PROVE  p \in Vault!Packages /\ Altered(p) \in Vault!Packages
  <2>1. ASSUME NEW g \in Generations, NEW k \in Keys, p = File("osBacked", g, k)
        PROVE  p \in Vault!Packages /\ Altered(p) \in Vault!Packages
    <3>1. Altered(p) = [mode |-> "osBacked", gen |-> g, key |-> k, payload |-> "altered"]
          BY <2>1 DEF File, Altered
    <3> QED BY <2>1, <3>1 DEF File, Vault!Packages, Vault!Generations
  <2>2. ASSUME NEW g \in Generations, p = File("passwordOnly", g, NoKey)
        PROVE  p \in Vault!Packages /\ Altered(p) \in Vault!Packages
    <3>1. Altered(p) = [mode |-> "passwordOnly", gen |-> g, key |-> NoKey, payload |-> "altered"]
          BY <2>2 DEF File, Altered
    <3> QED BY <2>2, <3>1 DEF File, Vault!Packages, Vault!Generations
  <2> QED BY <2>1, <2>2 DEF Packages
<1> QED BY <1>1 DEF Files

\* With a journal, the mapped vault has the journal's generation.
LEMMA CurrentGeneration ==
    ASSUME TypeOK, StoreInvariant, journal # NoJournal
    PROVE  CurrentVault.gen = journal.gen /\ CurrentVault # Vault!None
<1>1. CASE slot[journal.slot] \in Files
  <2>1. CurrentVault \in Files /\ CurrentVault.gen = journal.gen
        BY <1>1, FileFields DEF CurrentVault, Validates, StoreInvariant, SlotsMatchJournal
  <2>2. CurrentVault.mode \in Modes /\ Vault!None.mode = "none"
        BY <2>1, FileFields DEF Vault!None
  <2> QED BY <2>1, <2>2
<1>2. CASE slot[journal.slot] \notin Files
  <2>1. journal.gen = 1
        BY <1>2 DEF StoreInvariant, SlotsMatchJournal, Validates
  <2>2. CurrentVault.gen = 1 /\ CurrentVault.mode = "broken"
        BY <1>2 DEF CurrentVault
  <2> QED BY <2>1, <2>2 DEF Vault!None
<1> QED BY <1>1, <1>2

\* A step that leaves the active slot and the journal's name for it alone is
\* invisible to callers.
LEMMA SameVault ==
    ASSUME journal = NoJournal => journal' = NoJournal,
           journal # NoJournal =>
               /\ journal' # NoJournal
               /\ journal'.slot = journal.slot
               /\ slot'[journal.slot] = slot[journal.slot]
    PROVE  CurrentVault' = CurrentVault
BY DEF CurrentVault

\* What is asked for is a request of the atomic vault, or none.
LEMMA RequestTyped ==
    ASSUME NEW j \in Jobs \cup {Idle}
    PROVE  RequestOf(j) \in Vault!Requests \cup {Vault!NoRequest}
<1>1. CASE j \in Jobs
      BY <1>1 DEF RequestOf, Jobs, Vault!Requests, Vault!NoRequest
<1>2. CASE j = Idle
      BY <1>2 DEF RequestOf, Idle, Job, Vault!NoRequest
<1> QED BY <1>1, <1>2

\* A step that changes no vault asks, gives up, or is a stutter.
LEMMA QuietStep ==
    ASSUME TypeOK, TypeOK', CurrentVault' = CurrentVault,
           \/ RequestOf(job') = RequestOf(job)
           \/ RequestOf(job) = Vault!NoRequest
           \/ RequestOf(job') = Vault!NoRequest
    PROVE  [Vault!Next]_<<CurrentVault, RequestOf(job)>>
<1>1. CASE RequestOf(job') = RequestOf(job)
      BY <1>1
<1>2. CASE RequestOf(job) = Vault!NoRequest /\ RequestOf(job') # RequestOf(job)
  <2>1. RequestOf(job') \in Vault!Requests \cup {Vault!NoRequest}
        BY RequestTyped DEF TypeOK
  <2>2. Vault!Ask
        BY <1>2, <2>1 DEF Vault!Ask
  <2> QED BY <2>2 DEF Vault!Next
<1>3. CASE RequestOf(job') = Vault!NoRequest /\ RequestOf(job) # RequestOf(job')
  <2>1. Vault!GiveUp
        BY <1>3 DEF Vault!GiveUp
  <2> QED BY <2>1 DEF Vault!Next
<1> QED BY <1>1, <1>2, <1>3

\* No request outlives its job.
LEMMA IdleAsksNothing ==
    /\ job = Idle => RequestOf(job) = Vault!NoRequest
    /\ job' = Idle => RequestOf(job') = Vault!NoRequest
BY DEF Idle, Job, RequestOf, Vault!NoRequest

\* A journal switch answers the request, with a package it allows.
LEMMA SwitchRefines ==
    ASSUME TypeOK, TypeOK', StoreInvariant, StepWriteJournal
    PROVE  [Vault!Next]_<<CurrentVault, RequestOf(job)>>
<1> USE StoreAssumption
<1>1. /\ job \in Jobs /\ job.at = "journal"
      BY JobAtStep DEF StepWriteJournal
<1>2. \/ job' = Idle
      \/ job' = [job EXCEPT !.at = "remove"]
      \/ job' = [job EXCEPT !.at = "sidecar"]
      BY DEF StepWriteJournal, Advance, Finish
<1>3. RequestOf(job') = Vault!NoRequest
  <2>1. job' # Idle => job'.at \in {"remove", "sidecar"}
        BY <1>1, <1>2 DEF Jobs
  <2> QED BY <2>1, IdleAsksNothing DEF RequestOf, Vault!NoRequest
<1>4. job.op \in {"provision", "commit", "promote", "rollback"}
          => RequestOf(job).op = job.op /\ RequestOf(job).key = job.key
      BY <1>1 DEF RequestOf
<1>5. CASE job.op = "provision"
  <2>1. /\ journal = NoJournal /\ journal' # NoJournal
        /\ journal'.slot = "A" /\ journal'.gen = 1 /\ slot' = slot
        /\ slot["A"] \in {job.file, Altered(job.file), Damaged}
        /\ job.file \in Packages /\ job.file.gen = 1
        BY <1>5, JournalSwitch
  <2>2. CurrentVault = Vault!None
        BY <2>1 DEF CurrentVault, Vault!None
  <2>5. CurrentVault' \in {p \in Vault!Packages : p.gen = 1} \cup {Vault!Broken}
    <3>1. slot["A"] = Damaged => CurrentVault' = Vault!Broken
          BY <2>1, FileFields DEF CurrentVault, Vault!Broken
    <3>2. slot["A"] # Damaged => CurrentVault' \in Vault!Packages /\ CurrentVault'.gen = 1
          BY <2>1, PackageFields, FilesArePackages DEF CurrentVault
    <3> QED BY <3>1, <3>2
  <2>6. Vault!Create
        BY <1>4, <1>5, <2>2, <2>5 DEF Vault!Create
  <2> QED BY <1>3, <2>6 DEF Vault!Next, Vault!Answer
<1>6. CASE job.op \in {"commit", "promote", "rollback"}
  <2> DEFINE f == slot[job.target]
  <2>1. /\ journal # NoJournal /\ journal' # NoJournal /\ slot' = slot
        /\ journal'.slot = job.target
        /\ Validates(f, journal'.gen, job.key)
        /\ job.op = "commit" => journal'.gen = journal.gen + 1 /\ f.key = job.key
        /\ job.op = "promote" => /\ journal'.gen = journal.gen /\ job.key # NoKey
                                 /\ f.mode = "osBacked"
        BY <1>6, JournalSwitch
  <2>2. f \in Files /\ f.gen = journal'.gen /\ f \in Vault!Packages
        BY <2>1, ValidFields, FilesArePackages
  <2>3. CurrentVault' = f
        BY <2>1, <2>2 DEF CurrentVault
  <2>4. CurrentVault.gen = journal.gen /\ CurrentVault # Vault!None
        BY <2>1, CurrentGeneration
  <2>5. RequestOf(job).op = job.op /\ RequestOf(job).key = job.key
        BY <1>4, <1>6
  <2>6. f.mode = "osBacked" /\ RequestOf(job).key # NoKey => f.payload = "intact" /\ f.key = RequestOf(job).key
        BY <2>1, <2>5 DEF Validates
  <2>7. CASE job.op = "commit"
    <3>1. Vault!Commit
          BY <2>1, <2>2, <2>3, <2>4, <2>5, <2>6, <2>7 DEF Vault!Commit, Vault!Authentic
    <3> QED BY <1>3, <3>1 DEF Vault!Next, Vault!Answer
  <2>8. CASE job.op = "promote"
    <3>1. Vault!Promote
          BY <2>1, <2>2, <2>3, <2>4, <2>5, <2>6, <2>8 DEF Vault!Promote
    <3> QED BY <1>3, <3>1 DEF Vault!Next, Vault!Answer
  <2>9. CASE job.op = "rollback"
    <3>1. \/ f.gen \in {CurrentVault.gen, CurrentVault.gen + 1}
          \/ f.gen + 1 = CurrentVault.gen
          BY <1>6, <2>2, <2>4, SwitchIsAdjacent
    <3>2. Vault!Rollback
          BY <2>2, <2>3, <2>4, <2>5, <2>6, <2>9, <3>1 DEF Vault!Rollback, Vault!Authentic
    <3> QED BY <1>3, <3>2 DEF Vault!Next, Vault!Answer
  <2> QED BY <1>6, <2>7, <2>8, <2>9
<1>7. CASE job.op \in {"stage", "unlock", "cleanup"}
  <2>1. CurrentVault' = CurrentVault
        BY <1>7, JournalSwitch, SameVault
  <2> QED BY <1>3, <2>1, QuietStep
<1> QED BY <1>1, <1>5, <1>6, <1>7 DEF Jobs

\* Every step of the store is a step of the atomic vault or a stutter.
LEMMA StepRefines ==
    ASSUME TypeOK, TypeOK', StoreInvariant, [Next]_vars
    PROVE  [Vault!Next]_<<CurrentVault, RequestOf(job)>>
<1>1. CASE StepWriteJournal
      BY <1>1, SwitchRefines
<1>2. CASE StepWriteSlot \/ StepVerify
  <2>1. /\ job \in Jobs /\ job.at \in {"slot", "verify"} /\ journal' = journal
        /\ \/ job' = [job EXCEPT !.at = "journal"]
           \/ job' = [job EXCEPT !.at = "verify"]
        BY <1>2, JobAtStep DEF StepWriteSlot, StepVerify, Advance, disk
  <2>2. RequestOf(job') = RequestOf(job)
        BY <2>1 DEF RequestOf, Jobs
  <2>3. journal # NoJournal => slot'[journal.slot] = slot[journal.slot]
        BY <1>2, <2>1, JournalFields, InactiveIsOther
        DEF StepWriteSlot, StepVerify, disk, StoreInvariant, PlannedSwitch, TypeOK
  <2>4. CurrentVault' = CurrentVault
        BY <2>1, <2>3, SameVault
  <2> QED BY <2>2, <2>4
<1>3. CASE StepMirrorSidecar \/ StepRemoveRollback
  <2>1. journal' = journal /\ job' = Idle
        BY <1>3 DEF StepMirrorSidecar, StepRemoveRollback, Finish
  <2>2. journal # NoJournal => slot'[journal.slot] = slot[journal.slot]
        BY <1>3, JournalFields, InactiveIsOther
        DEF StepMirrorSidecar, StepRemoveRollback, StoreInvariant, RemovalMissesActiveSlot, TypeOK
  <2> QED BY <2>1, <2>2, SameVault, IdleAsksNothing, QuietStep
<1>4. CASE Reconcile
  <2>1. journal' = journal /\ job' = job
        BY <1>4 DEF Reconcile, ReconcileNoVault, ReconcileVault, ReconcileFailsClosed, disk
  <2>2. journal # NoJournal => slot'[journal.slot] = slot[journal.slot]
        BY <1>4, JournalFields, InactiveIsOther
        DEF Reconcile, ReconcileNoVault, ReconcileVault, ReconcileFailsClosed, disk, TypeOK
  <2> QED BY <2>1, <2>2, SameVault DEF RequestOf
<1>5. CASE Requests
  <2>1. UNCHANGED <<slot, journal>> /\ job = Idle
        BY <1>5, RequestFrame
        DEF Requests, BeginProvision, BeginCommit, BeginStage, BeginPromote,
            BeginRollback, BeginUnlock, BeginCleanup, Ready
  <2> QED BY <2>1, SameVault, IdleAsksNothing, QuietStep
<1>6. CASE Fail \/ Crash
  <2>1. UNCHANGED <<slot, journal>> /\ job' = Idle
        BY <1>6 DEF Fail, Crash, Finish, disk
  <2> QED BY <2>1, SameVault, IdleAsksNothing, QuietStep
<1>7. CASE UNCHANGED vars
      BY <1>7 DEF vars, CurrentVault, RequestOf
<1> QED BY <1>1, <1>2, <1>3, <1>4, <1>5, <1>6, <1>7 DEF Next, Writes

\* The two-slot store implements the atomic vault.
THEOREM Refinement == Spec => ImplementsAtomicVault
<1>1. Init => Vault!Init
      BY InitRefines
<1>2. TypeOK /\ TypeOK' /\ StoreInvariant /\ [Next]_vars
          => [Vault!Next]_<<CurrentVault, RequestOf(job)>>
      BY StepRefines
<1> QED BY <1>1, <1>2, StoreSafety, PTL DEF Spec, ImplementsAtomicVault, Vault!Spec
=============================================================================
