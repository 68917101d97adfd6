--------------------------- MODULE UbuntuVaultStore ---------------------------
(* The durable two-slot vault store of the Ubuntu adapter                    *)
(* (src-tauri/src/ubuntu_vault/storage/writer.rs, journal.rs).               *)
(*                                                                           *)
(* A store operation reads the journal, computes everything it will write,   *)
(* and then performs its artifact writes one by one; each write is an atomic *)
(* rename.  The process may die between any two writes, and any write,       *)
(* read-back or removal may fail and make the operation return early while   *)
(* the process keeps running.  An operation is therefore a `job`: the        *)
(* Begin... action is the reading half, the Step... actions are the writes.  *)
(*                                                                           *)
(* Abstractions: a package's bytes, salts and digests are left out; a slot   *)
(* file is its mode, generation and wrapping key, and whether its payload is *)
(* intact: damage on the way to the disk either leaves a file that parses    *)
(* with its metadata and another payload (one hex digit for another), or one *)
(* that does not parse.  Damage that turns the metadata of a file into other *)
(* well-formed metadata is left out.  The journal's                          *)
(* expected_generation is written and never read, so it is left out;         *)
(* active_verified_at_ms only gates the 24 h rule, whose elapsing is a free  *)
(* choice here.  JournalState::Migration is never written by the store.      *)
EXTENDS Naturals

CONSTANTS
    Keys,           \* wrapping keys an OS-backed slot can be sealed under
    NoKey,          \* the key field of a password-only slot
    MaxGeneration   \* bound on the u64 generation counter

ASSUME StoreAssumption == /\ NoKey \notin Keys
                          /\ MaxGeneration \in Nat \ {0}

VARIABLES
    slot,      \* [Slots -> Contents]: the files slot-a and slot-b
    journal,   \* the journal artifact, or NoJournal
    sidecar,   \* the non-secret projection [mode, ack]
    process,   \* "down", "up" (reconciled) or "recovery" (reconcile failed)
    job,       \* the store operation in flight, or Idle
    acked      \* history: the user acknowledged the password-only fallback

disk == <<slot, journal, sidecar>>
vars == <<slot, journal, sidecar, process, job, acked>>

-----------------------------------------------------------------------------
(* Artifacts. *)

Slots == {"A", "B"}
Generations == 1 .. MaxGeneration
Modes == {"osBacked", "passwordOnly"}

\* Wrong variant: the candidate is written over the active slot.
SameSlot(s) == s

\* inactive_of: the other of the two fixed slots.
InactiveOf(s) == IF s = "A" THEN "B" ELSE "A"

File(mode, gen, key) == [mode |-> mode, gen |-> gen, key |-> key, payload |-> "intact"]

\* The file with another payload: it can no longer be opened.
Altered(f) == [f EXCEPT !.payload = "altered"]

\* What the store writes: build_slot, wrap_os_backed.
Packages == {File("osBacked", g, k) : g \in Generations, k \in Keys}
               \cup {File("passwordOnly", g, NoKey) : g \in Generations}

\* Files that parse, with their payload as written or altered.
Files == Packages \cup {Altered(p) : p \in Packages}

NoFile  == File("missing", 0, NoKey)
Damaged == File("damaged", 0, NoKey)   \* present, but does not parse
Contents == Files \cup {NoFile, Damaged}

\* A journal record; retained = 0 stands for None (generations start at 1).
Record(state, gen, retained, s) ==
    [state |-> state, gen |-> gen, retained |-> retained, slot |-> s]

JournalStates == {"active", "pendingRotation", "removalInProgress"}
NoJournal == Record("missing", 0, 0, "A")
Journals == [state : JournalStates, gen : Generations,
             retained : 0 .. MaxGeneration, slot : Slots]

\* Wrong variant: an OS-backed envelope is not authenticated.
ValidatesMetadata(f, gen, key) == f \in Files /\ f.gen = gen

\* validate_slot: the mode is the file's own or compared by the caller.  Only
\* an OS-backed envelope is authenticated, and only when a key is supplied
\* (key = NoKey stands for None); a password-only one is hex-decoded, which
\* an altered payload passes.
Validates(f, gen, key) ==
    /\ f \in Files
    /\ f.gen = gen
    /\ f.mode = "osBacked" /\ key # NoKey => f.payload = "intact" /\ f.key = key

\* The file can be opened with its own secrets.
Opens(f, gen) == f \in Packages /\ f.gen = gen

-----------------------------------------------------------------------------
(* Jobs: the writes an operation still has to make. *)

Operations == {"provision", "commit", "stage", "promote", "rollback",
               "unlock", "cleanup"}
Steps == {"slot", "verify", "journal", "sidecar", "remove"}

\* key is the wrapping key the caller supplied, file what it means to land.
Job(op, at, s, f, j, key, ack) ==
    [op |-> op, at |-> at, target |-> s, file |-> f, next |-> j,
     key |-> key, ack |-> ack]
Idle == Job("idle", "idle", "A", NoFile, NoJournal, NoKey, FALSE)
Jobs == [op : Operations, at : Steps, target : Slots, file : Contents,
         next : Journals, key : Keys \cup {NoKey}, ack : BOOLEAN]

TypeOK ==
    /\ slot \in [Slots -> Contents]
    /\ journal \in Journals \cup {NoJournal}
    /\ sidecar \in [mode : Modes \cup {"unset"}, ack : BOOLEAN]
    /\ process \in {"down", "up", "recovery"}
    /\ job \in Jobs \cup {Idle}
    /\ acked \in BOOLEAN

Init ==
    /\ slot = [s \in Slots |-> NoFile]
    /\ journal = NoJournal
    /\ sidecar = [mode |-> "unset", ack |-> FALSE]
    /\ process = "down"
    /\ job = Idle
    /\ acked = FALSE

\* The single native process runs one store operation at a time.
Ready == process = "up" /\ job = Idle

Begin(j) == job' = j /\ UNCHANGED <<disk, process>>

\* Wrong variants: the acknowledgement, or the wrapping key, is not required.
RequestUnacknowledged(mode, key, ack) ==
    /\ IF mode = "osBacked" THEN key \in Keys ELSE key = NoKey
    /\ acked' = (acked \/ (mode = "passwordOnly" /\ ack))

RequestWithoutKey(mode, key, ack) ==
    /\ mode = "passwordOnly" => key = NoKey /\ ack
    /\ acked' = (acked \/ (mode = "passwordOnly" /\ ack))

\* A caller supplies a key exactly for the OS-backed mode, and a password-only
\* write is refused without the explicit acknowledgement.
Request(mode, key, ack) ==
    /\ IF mode = "osBacked" THEN key \in Keys ELSE key = NoKey /\ ack
    /\ acked' = (acked \/ (mode = "passwordOnly" /\ ack))

-----------------------------------------------------------------------------
(* Operations: the part of each that reads and decides. *)

\* provision: refuses while either slot file is present, valid or not.
BeginProvision(mode, key, ack) ==
    /\ Ready
    /\ \A s \in Slots : slot[s] = NoFile
    /\ Request(mode, key, ack)
    /\ Begin(Job("provision", "slot", "A", File(mode, 1, key),
                 Record("active", 1, 0, "A"), key, ack))

\* commit: compare-and-swap on the generation; journal.state is not consulted.
BeginCommit(mode, key, ack) ==
    /\ Ready
    /\ journal # NoJournal
    /\ journal.gen < MaxGeneration
    /\ Request(mode, key, ack)
    /\ LET candidate == journal.gen + 1
           inactive  == InactiveOf(journal.slot)
       IN  Begin(Job("commit", "slot", inactive, File(mode, candidate, key),
                     Record("active", candidate, journal.gen, inactive), key, ack))

\* stage_rotation: the same generation under a staged key, in the inactive
\* slot; every other journal field is kept (`..journal`).
BeginStage(key) ==
    /\ Ready
    /\ journal.state = "active"
    /\ Begin(Job("stage", "slot", InactiveOf(journal.slot),
                 File("osBacked", journal.gen, key),
                 [journal EXCEPT !.state = "pendingRotation"], key, FALSE))
    /\ UNCHANGED acked

\* promote_rotation: after one successful unlock of the staged package (the
\* caller's flag), the staged file must validate under the staged key.
BeginPromote(key) ==
    /\ Ready
    /\ journal.state = "pendingRotation"
    /\ LET staged == InactiveOf(journal.slot)
       IN  /\ Validates(slot[staged], journal.gen, key)
           /\ slot[staged].mode = "osBacked"
           /\ Begin(Job("promote", "journal", staged, slot[staged],
                        Record("active", journal.gen, journal.gen, staged), key, FALSE))
    /\ UNCHANGED acked

\* promote_rollback: confirmed and verified online by the caller; whatever the
\* inactive slot holds must validate at the generation the caller names, with
\* the key it supplies, if it does.  Neither journal.state nor
\* journal.retained_generation is consulted.
BeginRollback(expected, key) ==
    /\ Ready
    /\ journal # NoJournal
    /\ LET other == InactiveOf(journal.slot)
       IN  /\ Validates(slot[other], expected, key)
           /\ Begin(Job("rollback", "journal", other, slot[other],
                        Record("active", expected, journal.gen, other), key, FALSE))
    /\ UNCHANGED acked

DropRetained(op) ==
    Begin(Job(op, "journal", InactiveOf(journal.slot), NoFile,
              [journal EXCEPT !.retained = 0], NoKey, FALSE))

\* on_successful_unlock: the rollback slot is obsolete after the next success.
\* It checks nothing itself: that the active package could be opened is the
\* caller's part (external: no caller exists in the repository).
BeginUnlock ==
    /\ Ready
    /\ journal # NoJournal
    /\ Opens(slot[journal.slot], journal.gen)
    /\ DropRetained("unlock")
    /\ UNCHANGED acked

\* cleanup_obsolete, once the 24 h window has elapsed.
BeginCleanup ==
    /\ Ready
    /\ journal # NoJournal
    /\ journal.retained # 0
    /\ DropRetained("cleanup")
    /\ UNCHANGED acked

-----------------------------------------------------------------------------
(* Operations: the writes. *)

Advance(step) == job' = [job EXCEPT !.at = step]
Finish == job' = Idle

\* write_slot_checked: the rename lands the file, or a file damaged on the way
\* to the disk, in its payload or beyond parsing.  provision goes on to the
\* journal without a read-back.
StepWriteSlot ==
    /\ job.at = "slot"
    /\ \E written \in {job.file, Altered(job.file), Damaged} :
           slot' = [slot EXCEPT ![job.target] = written]
    /\ Advance(IF job.op = "provision" THEN "journal" ELSE "verify")
    /\ UNCHANGED <<journal, sidecar, process, acked>>

\* read_slot and validate_slot of the file just written, with the key it was
\* sealed under if it has one; a failure is Fail.
StepVerify ==
    /\ job.at = "verify"
    /\ slot[job.target].mode = job.file.mode
    /\ Validates(slot[job.target], job.file.gen, job.key)
    /\ Advance("journal")
    /\ UNCHANGED <<disk, process, acked>>

\* write_journal: the atomic commit point of every operation.
StepWriteJournal ==
    /\ job.at = "journal"
    /\ journal' = job.next
    /\ IF job.op \in {"unlock", "cleanup"}
         THEN IF journal.retained = 0 THEN Finish ELSE Advance("remove")
         ELSE IF job.op = "stage" THEN Finish ELSE Advance("sidecar")
    /\ UNCHANGED <<slot, sidecar, process, acked>>

\* mirror_sidecar: mode and acknowledgement of the slot that became active.
StepMirrorSidecar ==
    /\ job.at = "sidecar"
    /\ sidecar' = [mode |-> job.file.mode, ack |-> job.ack]
    /\ Finish
    /\ UNCHANGED <<slot, journal, process, acked>>

\* remove_artifact of the obsolete rollback slot.
StepRemoveRollback ==
    /\ job.at = "remove"
    /\ slot' = [slot EXCEPT ![job.target] = NoFile]
    /\ Finish
    /\ UNCHANGED <<journal, sidecar, process, acked>>

\* A write, read-back or removal fails: the operation returns (an error, or
\* success for the best-effort steps) and the process runs on, unreconciled.
Fail ==
    /\ job # Idle
    /\ Finish
    /\ UNCHANGED <<disk, process, acked>>

\* Process kill, power loss or ordinary exit.
Crash ==
    /\ process # "down"
    /\ process' = "down"
    /\ Finish
    /\ UNCHANGED <<disk, acked>>

-----------------------------------------------------------------------------
(* Startup reconciliation. *)

\* No key is at hand: nothing is authenticated ("full envelope authentication
\* happens at unlock").
ReconcileAccepts ==
    /\ Validates(slot[journal.slot], journal.gen, NoKey)
    /\ journal.state = "pendingRotation" =>
           LET staged == slot[InactiveOf(journal.slot)]
           IN  Validates(staged, journal.gen, NoKey) /\ staged.mode = "osBacked"

\* No journal, no vault: orphan slots are removed, each removal best effort.
ReconcileNoVault ==
    /\ process = "down"
    /\ journal = NoJournal
    /\ \E gone \in SUBSET Slots :
           slot' = [s \in Slots |-> IF s \in gone THEN NoFile ELSE slot[s]]
    /\ process' = "up"
    /\ UNCHANGED <<journal, sidecar, job, acked>>

\* Wrong variant: slot-a is taken for the active slot, as the default of a
\* journal record without the field is.
ReconcileAssumingSlotA ==
    /\ process = "down"
    /\ journal.state \in {"active", "pendingRotation"}
    /\ ReconcileAccepts
    /\ slot' = IF journal.state = "active" /\ journal.retained = 0
                 THEN [slot EXCEPT !["B"] = NoFile]
                 ELSE slot
    /\ process' = "up"
    /\ UNCHANGED <<journal, sidecar, job, acked>>

\* The active slot validates; an inactive file the journal does not retain is
\* removed, and one that it retains (or has staged) is kept.
ReconcileVault ==
    /\ process = "down"
    /\ journal.state \in {"active", "pendingRotation"}
    /\ ReconcileAccepts
    /\ slot' = IF journal.state = "active" /\ journal.retained = 0
                 THEN [slot EXCEPT ![InactiveOf(journal.slot)] = NoFile]
                 ELSE slot
    /\ process' = "up"
    /\ UNCHANGED <<journal, sidecar, job, acked>>

\* The active slot or the staged package is lost or invalid: fail closed.
ReconcileFailsClosed ==
    /\ process = "down"
    /\ journal.state \in {"active", "pendingRotation"}
    /\ ~ReconcileAccepts
    /\ process' = "recovery"
    /\ UNCHANGED <<disk, job, acked>>

-----------------------------------------------------------------------------
Requests ==
    \/ \E mode \in Modes, key \in Keys \cup {NoKey}, ack \in BOOLEAN :
           \/ BeginProvision(mode, key, ack)
           \/ BeginCommit(mode, key, ack)
    \/ \E key \in Keys : BeginStage(key) \/ BeginPromote(key)
    \/ \E expected \in Generations, key \in Keys \cup {NoKey} :
           BeginRollback(expected, key)
    \/ BeginUnlock
    \/ BeginCleanup

Writes ==
    \/ StepWriteSlot
    \/ StepVerify
    \/ StepWriteJournal
    \/ StepMirrorSidecar
    \/ StepRemoveRollback

Reconcile == ReconcileNoVault \/ ReconcileVault \/ ReconcileFailsClosed

Next == Requests \/ Writes \/ Fail \/ Crash \/ Reconcile

Spec == Init /\ [][Next]_vars

-----------------------------------------------------------------------------
(* Properties. *)

\* The authoritative slot holds a package of the journal's generation that
\* can be opened.
ActiveReadable == journal # NoJournal /\ Opens(slot[journal.slot], journal.gen)

\* The operation in flight switches the journal to a package that the store
\* has read but could not authenticate: a password-only one, or one of a
\* rollback without a key.
SwitchUnauthenticated ==
    /\ job.op \in {"commit", "rollback"} /\ job.at = "journal"
    /\ job.file.mode = "passwordOnly" \/ job.key = NoKey

\* Crash safety of the two-slot scheme: once the vault has a recoverable
\* slot, no write, failure, crash or reconciliation takes it away (commit.rs:
\* "a process kill/power-loss at any step must preserve at least one verified
\* recoverable slot"), but for the switch to a damaged package the store
\* cannot authenticate; the readable package is then in the other slot.
RecoverableSlotPreserved ==
    [][ActiveReadable =>
           \/ ActiveReadable'
           \/ /\ SwitchUnauthenticated /\ slot[journal'.slot].payload = "altered"
              /\ Opens(slot'[InactiveOf(journal'.slot)], journal'.retained)]_vars

\* No automatic downgrade: a password-only vault becomes authoritative only
\* for a user who acknowledged the fallback at some point, also across
\* rollbacks, failed commits and restarts.
DowngradeAcknowledged ==
    (journal # NoJournal /\ slot[journal.slot].mode = "passwordOnly") => acked

\* What the crash-safety argument rests on, kept by every step:
\* the slot the journal names parses and has its generation, or is the damaged
\* first package; the other slot is at most one generation away;
SlotsMatchJournal ==
    journal # NoJournal =>
        /\ \/ Validates(slot[journal.slot], journal.gen, NoKey)
           \/ slot[journal.slot] = Damaged /\ journal.gen = 1
        /\ LET other == slot[InactiveOf(journal.slot)]
           IN  other \in Files =>
                   \/ other.gen \in {journal.gen, journal.gen + 1}
                   \/ other.gen + 1 = journal.gen

\* a removal in flight is aimed at the slot that is not authoritative;
RemovalMissesActiveSlot ==
    /\ job # Idle => process = "up"
    /\ job.at = "remove" =>
           journal # NoJournal /\ job.target = InactiveOf(journal.slot)

\* so is a write, and the journal about to be written names a slot read back by
\* then (job.at = "journal"): intact if it is OS-backed and sealed under the
\* key supplied, whatever was damaged.  The sidecar mirrors the file that
\* became active.
\* provision alone switches to a slot it did not read back.
PlannedSwitch ==
    /\ job.at = "sidecar" => job.file \in Files
    /\ job.at \in {"slot", "verify", "journal"} =>
         /\ job.op = "provision" =>
                /\ job.at # "verify"
                /\ journal = NoJournal
                /\ job.target = "A" /\ job.next = Record("active", 1, 0, "A")
                /\ job.file \in Packages /\ job.file.gen = 1
                /\ job.at = "journal" =>
                       slot["A"] \in {job.file, Altered(job.file), Damaged}
                /\ slot["B"] = NoFile
         /\ job.op # "provision" =>
                journal # NoJournal /\ job.target = InactiveOf(journal.slot)
         /\ job.op = "commit" =>
                /\ job.file \in Packages /\ job.file.gen = journal.gen + 1
                /\ job.file.key = job.key
                /\ job.next = Record("active", journal.gen + 1, journal.gen, job.target)
                /\ job.at = "verify" =>
                       slot[job.target] \in {job.file, Altered(job.file), Damaged}
                /\ job.at = "journal" =>
                       \/ slot[job.target] = job.file
                       \/ /\ job.key = NoKey /\ slot[job.target] = Altered(job.file)
         /\ job.op \in {"promote", "rollback"} =>
                /\ job.at = "journal"
                /\ slot[job.target] = job.file
                /\ Validates(job.file, job.file.gen, job.key)
                /\ job.op = "promote" => /\ job.file.mode = "osBacked" /\ job.key # NoKey
                                         /\ job.file.gen = journal.gen
                /\ job.next = Record("active", job.file.gen, journal.gen, job.target)
         /\ job.op = "stage" =>
                /\ job.file \in Packages /\ job.file.gen = journal.gen
                /\ job.next = [journal EXCEPT !.state = "pendingRotation"]
         /\ job.op \in {"unlock", "cleanup"} =>
                /\ job.at = "journal"
                /\ job.next = [journal EXCEPT !.retained = 0]

\* a password-only package, wherever it is, was acknowledged.
FallbackTracked ==
    (job.file.mode = "passwordOnly" \/ \E s \in Slots : slot[s].mode = "passwordOnly")
        => acked

\* The slots, the journal and the operation in flight agree, in every state a
\* crash or a failed write can leave behind (the store's inductive invariant).
StoreInvariant ==
    /\ SlotsMatchJournal
    /\ RemovalMissesActiveSlot
    /\ PlannedSwitch
    /\ FallbackTracked

\* The store implements the atomic vault: what callers see as current changes
\* only at a journal switch, to a package the operation asked for.
CurrentVault ==
    IF journal = NoJournal THEN [mode |-> "none", gen |-> 0, key |-> NoKey, payload |-> "intact"]
    ELSE IF slot[journal.slot] \in Files THEN slot[journal.slot]
    ELSE [mode |-> "broken", gen |-> 1, key |-> NoKey, payload |-> "altered"]

\* The switch a job is to make and has not made yet.
RequestOf(j) ==
    IF /\ j.op \in {"provision", "commit", "promote", "rollback"}
       /\ j.at \in {"slot", "verify", "journal"}
      THEN [op |-> j.op, key |-> j.key]
      ELSE [op |-> "none", key |-> NoKey]

Vault == INSTANCE AtomicVault WITH vault <- CurrentVault, request <- RequestOf(job)

ImplementsAtomicVault == Vault!Spec
=============================================================================
