-------------------------- MODULE BrowserAuthority --------------------------
(* The worker that owns a browser user's keys: WorkerAuthority               *)
(* (browser-vault/authority/authority.ts) admits one operation at a time     *)
(* from the tabs, SealedVaultEngine (production/sealed-vault.ts) runs it, the *)
(* two-slot journal (lifecycle/journal.ts) makes the vault record durable.   *)
(*                                                                           *)
(* The worker has one thread: everything between two awaits is one step, and *)
(* steps of different operations interleave.  An operation that a lock or a  *)
(* cancel revoked is not stopped: its continuation runs to its end.  The     *)
(* code detects that by comparing numbers captured when the operation began  *)
(* (the authority's epoch, the engine's secretGeneration); here a task       *)
(* carries the result of the comparison: `stale` when the epoch has moved on *)
(* since, `wiped` when the secrets have been wiped since.                    *)
EXTENDS Naturals

CONSTANTS
    Clients,           \* tabs: the client channels
    Tasks,             \* operations in flight, revoked ones included
    Identities,        \* users: pairs of signing and encryption keys
    NoOne,             \* the absence of one
    MaxVersion,        \* bound on the vault generations written
    MaxTransactions,   \* bound on the registration transactions signed
    MaxInterruptions   \* bound on the revocations that meet a running operation

ASSUME AuthorityAssumption ==
    /\ MaxVersion \in Nat \ {0}
    /\ MaxTransactions \in Nat
    /\ MaxInterruptions \in Nat
    /\ NoOne \notin Identities

VARIABLES
    channels,       \* acceptedChannels
    active,         \* activeOperationId: the task it names, if any
    interruptions,  \* revocations that met a running operation
    phase,          \* the engine's phase
    session,        \* the engine's session: kind, and the decrypted record
    journal,        \* the journal pointer: generation (0 = no vault), active slot
    slots,          \* the two encrypted slots
    tombstone,      \* removal tombstone in operationalSidecars
    task,           \* [Tasks -> state of the operation's continuation]
    signed,         \* number of transactions signed so far
    posted,         \* transactions handed to the network
    registered,     \* identities the network's index holds
    late            \* what operations changed after they had been revoked

client    == <<channels, active, interruptions>>
engine    == <<phase, session>>
storage   == <<journal, slots, tombstone>>
network   == <<signed, posted, registered>>
vars      == <<client, engine, storage, task, network, late>>

Owners   == Identities \cup {NoOne}
Phases   == {"noLocalUser", "locked", "verificationOnly", "authenticated"}
Ops      == {"provision", "provisionSessionOnly", "unlock", "verify", "submit",
             "promote", "changePassword", "remove"}
Points   == {"idle", "read", "derive", "lookup", "envelope", "encrypt", "stage",
             "write", "readBack", "switch", "sealed", "answer", "rewrap",
             "install", "probe", "tombstone", "delete", "deleteJournal",
             "verifyAbsence", "clear", "reply"}
SlotKeys == {"slot-a", "slot-b"}
Other(key) == IF key = "slot-a" THEN "slot-b" ELSE "slot-a"

\* A signed registration: whose key signed it, and its transaction id.
Tx       == [signer : Owners, id : 0 .. MaxTransactions]
NoTx     == [signer |-> NoOne, id |-> 0]
Record   == [owner : Owners, status : {"absent", "PendingRegistration", "Active"},
             pending : Tx]
Slot     == [version : 0 .. MaxVersion, record : Record]
Fresh(i) == [owner |-> i, status |-> "PendingRegistration", pending |-> NoTx]
NoRecord == [owner |-> NoOne, status |-> "absent", pending |-> NoTx]
NoSlot   == [version |-> 0, record |-> NoRecord]
NoJournal == [generation |-> 0, active |-> "slot-a"]
NoSession == [kind |-> "none", record |-> NoRecord]

Task == [op : Ops, at : Points, stale : BOOLEAN, wiped : BOOLEAN,
         version : 0 .. MaxVersion, slot : SlotKeys, record : Record,
         then : {"post", "reply"}]
IdleTask == [op |-> "unlock", at |-> "idle", stale |-> FALSE, wiped |-> FALSE,
             version |-> 0, slot |-> "slot-a", record |-> NoRecord, then |-> "reply"]

TypeOK ==
    /\ channels \subseteq Clients
    /\ active \subseteq Tasks
    /\ interruptions \in 0 .. MaxInterruptions
    /\ phase \in Phases
    /\ session \in [kind : {"none", "durable", "volatile"}, record : Record]
    /\ session.kind = "none" => session.record = NoRecord
    /\ journal \in [generation : 0 .. MaxVersion, active : SlotKeys]
    /\ slots \in [SlotKeys -> Slot]
    /\ tombstone \in BOOLEAN
    /\ task \in [Tasks -> Task]
    /\ signed \in 0 .. MaxTransactions
    /\ posted \subseteq Tx
    /\ registered \subseteq Identities
    /\ late \subseteq {"session", "storage"}

\* Some identities may be registered already, from another device.
Init ==
    /\ channels = {} /\ active = {}
    /\ interruptions = 0
    /\ phase = "locked" /\ session = NoSession
    /\ journal = NoJournal /\ slots = [key \in SlotKeys |-> NoSlot]
    /\ tombstone = FALSE
    /\ task = [t \in Tasks |-> IdleTask]
    /\ signed = 0 /\ posted = {} /\ registered \in SUBSET Identities
    /\ late = {}

Running(t) == task[t].at # "idle"

\* The slot the pointer names; readActiveEnvelope finds an envelope in it.
Vault    == slots[journal.active]
Readable == journal.generation # 0 /\ Vault.record.status # "absent"

-----------------------------------------------------------------------------
(* Revocation.                                                               *)

\* The operations that capture secretGeneration when they begin.
Capturing == {"provisionSessionOnly", "verify", "submit", "promote"}

\* mutant: the wipe leaves the decrypted record behind
WipeEngineKeepsRecord ==
    /\ phase' = "locked"
    /\ session' = [session EXCEPT !.kind = "none"]

\* SealedVaultEngine.wipeSecrets: every captured generation is now old.
WipeEngine ==
    /\ phase' = "locked"
    /\ session' = NoSession

Wiped(ts) == [t \in Tasks |->
    [ts[t] EXCEPT !.wiped = @ \/ (ts[t].at # "idle" /\ ts[t].op \in Capturing)]]
Stale(ts) == [t \in Tasks |-> [ts[t] EXCEPT !.stale = @ \/ ts[t].at # "idle"]]

\* Epoch bump, channels dropped, onInvalidate wipes.
Revoke ==
    /\ IF active = {} THEN UNCHANGED interruptions
                          ELSE /\ interruptions < MaxInterruptions
                               /\ interruptions' = interruptions + 1
    /\ active' = {}
    /\ channels' = {}
    /\ WipeEngine
    /\ task' = Stale(Wiped(task))
    /\ UNCHANGED <<storage, network>>

\* lockAll preempts: it is admitted while another operation is active, wipes,
\* and its own completion (no await on I/O) clears the channels.
LockAll(c) == c \in channels /\ Revoke

Cancel(c) == c \in channels /\ Revoke

\* pagehide and disconnect end a volatile session; disconnect otherwise only
\* forgets the channel.
Lifecycle(c) ==
    /\ c \in channels
    /\ IF session.kind = "volatile"
       THEN Revoke
       ELSE /\ channels' = channels \ {c}
            /\ UNCHANGED <<active, interruptions, engine, storage,
                           task, network>>

\* The worker dies; only storage survives.
WorkerDeath ==
    /\ channels' = {} /\ active' = {}
    /\ WipeEngine
    /\ task' = [t \in Tasks |-> IdleTask]
    /\ UNCHANGED <<interruptions, storage, network>>

-----------------------------------------------------------------------------
(* Admission: WorkerAuthority.handle.                                        *)

Handshake(c) ==
    /\ c \notin channels
    /\ channels' = channels \cup {c}
    /\ UNCHANGED <<active, interruptions, engine, storage, task,
                   network>>

\* handleOperation: a known channel and an idle authority.  (The fresh-password
\* capability some operations also consume is issued on request to any known
\* channel, so it restricts no order of operations and is not modelled.)
Admit(c) ==
    /\ c \in channels
    /\ active = {}
    /\ UNCHANGED <<channels, interruptions>>

\* runOperation calls the engine, which runs to its first await holding record r.
Enter(t, op, at, r) ==
    /\ ~Running(t)
    /\ active' = {t}
    /\ task' = [task EXCEPT ![t] = [IdleTask EXCEPT !.op = op, !.at = at, !.record = r]]

Goto(t, at) == task' = [task EXCEPT ![t].at = at]

\* The operation is over but for its reply; what it held is dropped.
Ended(t) == [IdleTask EXCEPT !.at = "reply", !.stale = task[t].stale]
Finish(t) == task' = [task EXCEPT ![t] = Ended(t)]

\* mutant: the authority is not freed when the operation ends
ReplyKeepsActive(t) ==
    /\ task[t].at = "reply"
    /\ task' = [task EXCEPT ![t] = IdleTask]
    /\ UNCHANGED <<client, engine, storage, network>>

\* The outcome is delivered unless the epoch moved on; `finally` frees the
\* authority if this operation still owns it.
Reply(t) ==
    /\ task[t].at = "reply"
    /\ active' = active \ {t}
    /\ task' = [task EXCEPT ![t] = IdleTask]
    /\ UNCHANGED <<channels, interruptions, engine, storage, network>>

-----------------------------------------------------------------------------
(* Rewriting the vault record.                                               *)

\* mutant: the transaction is handed to the network while it is being sealed
ReencryptPostsFirst(t, w, next, then) ==
    /\ task' = [task EXCEPT ![t] = [w EXCEPT
                   !.record = next, !.then = then, !.at = "envelope"]]
    /\ posted' = IF then = "post" THEN posted \cup {next.pending} ELSE posted
    /\ UNCHANGED session

\* reencryptCurrentRecord(next) to its first await, from operation t's state w.
\* A session-only record is replaced in memory and no storage is touched.
Reencrypt(t, w, next, then) ==
    IF session.kind = "volatile"
    THEN /\ session' = [session EXCEPT !.record = next]
         /\ posted' = IF then = "post" THEN posted \cup {next.pending} ELSE posted
         /\ task' = [task EXCEPT ![t] =
                IF then = "post" THEN [w EXCEPT !.record = next, !.at = "answer"]
                                 ELSE [IdleTask EXCEPT !.at = "reply", !.stale = w.stale]]
    ELSE /\ task' = [task EXCEPT ![t] = [w EXCEPT
                        !.record = next, !.then = then, !.at = "envelope"]]
         /\ UNCHANGED <<session, posted>>

ReadEnvelope(t) ==
    /\ task[t].at = "envelope"
    /\ IF Readable /\ session.kind # "none"
       THEN task' = [task EXCEPT ![t].version = Vault.version, ![t].at = "encrypt"]
       ELSE Finish(t)
    /\ UNCHANGED <<client, engine, storage, network>>

\* The generation is compared before the commit is started.
Encrypt(t) ==
    /\ task[t].op \in {"submit", "promote"} /\ task[t].at = "encrypt"
    /\ IF task[t].wiped \/ session.kind = "none" THEN Finish(t) ELSE Goto(t, "stage")
    /\ UNCHANGED <<client, engine, storage, network>>

Candidate(t) == [version |-> task[t].version + 1, record |-> task[t].record]

\* journal.commit reads the pointer and compares the generation (or the read
\* fails); the candidate is to go to the slot that is inactive now,
ReadState(t) ==
    /\ task[t].at = "stage"
    /\ \/ /\ journal.generation = task[t].version
          /\ task[t].version < MaxVersion
          /\ task' = [task EXCEPT ![t].at = "write", ![t].slot = Other(journal.active)]
       \/ Finish(t)
    /\ UNCHANGED <<client, engine, storage, network>>

\* is written there (or the write fails), whichever slot is active by then,
StageCandidate(t) ==
    /\ task[t].at = "write"
    /\ \/ /\ slots' = [slots EXCEPT ![task[t].slot] = Candidate(t)]
          /\ Goto(t, "readBack")
       \/ /\ Finish(t)
          /\ UNCHANGED slots
    /\ UNCHANGED <<client, engine, journal, tombstone, network>>

\* is read back and compared byte for byte (another commit may have written
\* the same record there under another nonce, or the read fails),
ReadBack(t) ==
    /\ task[t].at = "readBack"
    /\ \/ slots[task[t].slot] = Candidate(t) /\ Goto(t, "switch")
       \/ Finish(t)
    /\ UNCHANGED <<client, engine, storage, network>>

Landed(t) == task' = [task EXCEPT ![t].at = "sealed", ![t].version = 0, ![t].slot = "slot-a"]
Switched(t) == [generation |-> task[t].version + 1, active |-> task[t].slot]

\* mutant: the pointer is switched without comparing it
SwitchPointerBlindly(t) ==
    /\ task[t].at = "switch"
    /\ journal' = Switched(t)
    /\ Landed(t)
    /\ UNCHANGED <<client, engine, slots, tombstone, network>>

\* and the pointer is switched if it is still the one that was read (or the
\* write fails).
SwitchPointer(t) ==
    /\ task[t].at = "switch"
    /\ \/ /\ journal = [generation |-> task[t].version, active |-> Other(task[t].slot)]
          /\ journal' = Switched(t)
          /\ Landed(t)
       \/ /\ Finish(t)
          /\ UNCHANGED journal
    /\ UNCHANGED <<client, engine, slots, tombstone, network>>

\* Back in reencryptCurrentRecord: generation compared again, the session
\* adopts the record, and submitIdentityTransaction posts the sealed bytes.
Sealed(t) ==
    /\ task[t].at = "sealed"
    /\ task[t].op \in {"submit", "promote"}
    /\ IF task[t].wiped \/ session.kind = "none"
       THEN /\ Finish(t)
            /\ UNCHANGED <<session, posted>>
       ELSE /\ session' = [session EXCEPT !.record = task[t].record]
            /\ IF task[t].then = "post"
               THEN /\ posted' = posted \cup {task[t].record.pending}
                    /\ Goto(t, "answer")
               ELSE /\ Finish(t)
                    /\ UNCHANGED posted
    /\ UNCHANGED <<client, phase, storage, signed, registered>>

-----------------------------------------------------------------------------
(* provision and provisionSessionOnly.                                       *)

\* A candidate of identity i is held: createCandidate, derive* and
\* importFileCandidate put one into the engine's map, touch nothing else, and
\* are admitted whenever this is.
StartProvision(c, t, i) ==
    /\ Admit(c)
    /\ Enter(t, "provision", "derive", Fresh(i))
    /\ UNCHANGED <<engine, storage, network>>

\* KDF and encryption; the commit expects that no vault exists.
ProvisionDerived(t) ==
    /\ task[t].op = "provision" /\ task[t].at = "derive"
    /\ Goto(t, "stage")
    /\ UNCHANGED <<client, engine, storage, network>>

\* The code compares no generation between the KDF and this assignment: the
\* session is the candidate's that was looked up when the operation began.
ProvisionInstall(t) ==
    /\ task[t].op = "provision" /\ task[t].at = "sealed"
    /\ phase' = "verificationOnly"
    /\ session' = [kind |-> "durable", record |-> task[t].record]
    /\ Finish(t)
    /\ UNCHANGED <<client, storage, network>>

StartProvisionSessionOnly(c, t, i) ==
    /\ Admit(c)
    /\ session.kind = "none"
    /\ Enter(t, "provisionSessionOnly", "probe", Fresh(i))
    /\ UNCHANGED <<engine, storage, network>>

\* Tombstone, journal and slots are probed: any durable authority refuses.
Probe(t) ==
    /\ task[t].at = "probe"
    /\ IF tombstone \/ journal.generation # 0 \/ \E key \in SlotKeys : slots[key] # NoSlot
       THEN Finish(t) ELSE Goto(t, "install")
    /\ UNCHANGED <<client, engine, storage, network>>

\* The generation is compared and the candidate, which expires after ten
\* minutes, is looked up again.
InstallVolatile(t) ==
    /\ task[t].at = "install"
    /\ \/ /\ ~task[t].wiped
          /\ phase' = "verificationOnly"
          /\ session' = [kind |-> "volatile", record |-> task[t].record]
       \/ UNCHANGED engine
    /\ Finish(t)
    /\ UNCHANGED <<client, storage, network>>

-----------------------------------------------------------------------------
(* unlock, and the unlock inside changeDevicePassword.                       *)

StartUnlock(c, t) ==
    /\ Admit(c)
    /\ Enter(t, "unlock", "read", NoRecord)
    /\ UNCHANGED <<engine, storage, network>>

UnlockRead(t) ==
    /\ task[t].op \in {"unlock", "changePassword"} /\ task[t].at = "read"
    /\ IF Readable
       THEN task' = [task EXCEPT ![t].record = Vault.record, ![t].at = "derive"]
       ELSE Finish(t)
    /\ UNCHANGED <<client, engine, storage, network>>

WrongPassword(t) ==
    /\ task[t].op \in {"unlock", "changePassword"} /\ task[t].at = "derive"
    /\ Finish(t)
    /\ UNCHANGED <<client, engine, storage, network>>

\* The record read before the KDF becomes the session; no generation compared.
UnlockInstall(t) ==
    /\ task[t].op \in {"unlock", "changePassword"} /\ task[t].at = "derive"
    /\ session' = [kind |-> "durable", record |-> task[t].record]
    /\ phase' = "verificationOnly"
    /\ IF task[t].op = "unlock" THEN Finish(t) ELSE Goto(t, "rewrap")
    /\ UNCHANGED <<client, storage, network>>

StartChangePassword(c, t) ==
    /\ Admit(c)
    /\ session.kind = "durable"
    /\ Enter(t, "changePassword", "read", NoRecord)
    /\ UNCHANGED <<engine, storage, network>>

\* The envelope is read again and rewrapped under the new password.
Rewrap(t) ==
    /\ task[t].at = "rewrap"
    /\ IF Readable
       THEN task' = [task EXCEPT ![t].version = Vault.version, ![t].at = "encrypt"]
       ELSE Finish(t)
    /\ UNCHANGED <<client, engine, storage, network>>

\* this.session.record is read after the awaits; a null session throws.
RewrapEncrypt(t) ==
    /\ task[t].op = "changePassword" /\ task[t].at = "encrypt"
    /\ IF session.kind = "none"
       THEN Finish(t)
       ELSE task' = [task EXCEPT ![t].record = session.record, ![t].at = "stage"]
    /\ UNCHANGED <<client, engine, storage, network>>

ChangePasswordDone(t) ==
    /\ task[t].op = "changePassword" /\ task[t].at = "sealed"
    /\ WipeEngine
    /\ task' = [Wiped(task) EXCEPT ![t] = Ended(t)]
    /\ UNCHANGED <<client, storage, network>>

-----------------------------------------------------------------------------
(* verifyOnline, submitIdentityTransaction, promoteLifecycle.                *)

\* The binding looked up is the session's when the operation begins.
StartVerify(c, t) ==
    /\ Admit(c)
    /\ session.kind # "none"
    /\ phase \notin {"locked", "noLocalUser"}
    /\ Enter(t, "verify", "lookup", Fresh(session.record.owner))
    /\ UNCHANGED <<engine, storage, network>>

\* mutant: the answer is believed although the secrets were wiped meanwhile
VerifyAnswerLate(t) ==
    /\ task[t].op = "verify" /\ task[t].at = "lookup"
    /\ \E found \in {FALSE, task[t].record.owner \in registered} :
          phase' = IF found THEN "authenticated" ELSE phase
    /\ Goto(t, "reply")
    /\ UNCHANGED <<client, session, storage, network>>

\* The lookup answers, or times out (found = FALSE covers missing and error);
\* the answer is compared to the binding captured before it, and whichever
\* session is held by then is the one authenticated.
VerifyAnswer(t) ==
    /\ task[t].op = "verify" /\ task[t].at = "lookup"
    /\ \E found \in {FALSE, task[t].record.owner \in registered} :
          phase' = IF ~task[t].wiped /\ session.kind # "none" /\ found
                   THEN "authenticated" ELSE phase
    /\ Finish(t)
    /\ UNCHANGED <<client, session, storage, network>>

\* A retained transaction is looked up first and its exact bytes are reused;
\* only a record without one signs a new transaction.
StartSubmit(c, t) ==
    /\ Admit(c)
    /\ session.kind # "none"
    /\ phase \notin {"locked", "noLocalUser"}
    /\ ~Running(t)
    /\ active' = {t}
    /\ LET w == [IdleTask EXCEPT !.op = "submit"] IN
       IF session.record.pending # NoTx
       THEN /\ task' = [task EXCEPT ![t] = [w EXCEPT !.at = "lookup",
                                                     !.record = session.record]]
            /\ UNCHANGED <<session, posted, signed>>
       ELSE /\ signed < MaxTransactions
            /\ signed' = signed + 1
            /\ Reencrypt(t, w, [session.record EXCEPT !.pending =
                                  [signer |-> session.record.owner, id |-> signed + 1]], "post")
    /\ UNCHANGED <<phase, storage, registered>>

SubmitLookup(t) ==
    /\ task[t].op = "submit" /\ task[t].at = "lookup"
    /\ \/ /\ ~task[t].wiped /\ session.kind # "none" /\ task[t].record.owner \notin registered
          /\ Reencrypt(t, task[t],
                [session.record EXCEPT !.pending = task[t].record.pending], "post")
       \/ /\ Finish(t)
          /\ UNCHANGED <<session, posted>>
    /\ UNCHANGED <<client, phase, storage, signed, registered>>

\* mutant: an answered transaction is no longer retained
SubmitAnswerForgets(t) ==
    /\ task[t].at = "answer"
    /\ IF task[t].wiped \/ session.kind = "none"
       THEN /\ Finish(t)
            /\ UNCHANGED <<session, posted>>
       ELSE Reencrypt(t, task[t], [session.record EXCEPT !.pending = NoTx], "reply")
    /\ UNCHANGED <<client, phase, storage, signed, registered>>

\* The transport answered: the attempt is recorded next to the retained bytes.
SubmitAnswer(t) ==
    /\ task[t].at = "answer"
    /\ IF task[t].wiped \/ session.kind = "none"
       THEN /\ Finish(t)
            /\ UNCHANGED <<session, posted>>
       ELSE Reencrypt(t, task[t],
               [session.record EXCEPT !.pending = task[t].record.pending], "reply")
    /\ UNCHANGED <<client, phase, storage, signed, registered>>

\* mutant: promotion without the worker's own verification
StartPromoteUnverified(c, t) ==
    /\ Admit(c)
    /\ session.kind # "none"
    /\ ~Running(t)
    /\ active' = {t}
    /\ Reencrypt(t, [IdleTask EXCEPT !.op = "promote"],
                 [session.record EXCEPT !.status = "Active", !.pending = NoTx], "reply")
    /\ UNCHANGED <<phase, storage, signed, registered>>

\* promoteLifecycle: to Active after the worker's own verification only, and
\* the retained transaction goes; back to PendingRegistration at any time.
Promoted(next) ==
    \/ /\ phase = "authenticated"
       /\ next = [session.record EXCEPT !.status = "Active", !.pending = NoTx]
    \/ next = [session.record EXCEPT !.status = "PendingRegistration"]

StartPromote(c, t) ==
    /\ Admit(c)
    /\ session.kind # "none"
    /\ ~Running(t)
    /\ active' = {t}
    /\ \E next \in Record :
          /\ Promoted(next)
          /\ Reencrypt(t, [IdleTask EXCEPT !.op = "promote"], next, "reply")
    /\ UNCHANGED <<phase, storage, signed, registered>>

\* The network indexes the signer of a posted registration.
Index ==
    /\ \E tx \in posted, i \in Identities :
          tx.signer = i /\ registered' = registered \cup {i}
    /\ UNCHANGED <<client, engine, storage, task, signed, posted>>

-----------------------------------------------------------------------------
(* removeLocalUser.                                                          *)

StartRemove(c, t) ==
    /\ Admit(c)
    /\ ~Running(t)
    /\ active' = {t}
    /\ WipeEngine
    /\ task' = [Wiped(task) EXCEPT ![t] = [IdleTask EXCEPT
          !.op = "remove", !.at = IF session.kind = "volatile" THEN "reply" ELSE "tombstone"]]
    /\ UNCHANGED <<storage, network>>

PersistTombstone(t) ==
    /\ task[t].at = "tombstone"
    /\ tombstone' = TRUE
    /\ Goto(t, "delete")
    /\ UNCHANGED <<client, engine, journal, slots, network>>

DeleteSlots(t) ==
    /\ task[t].at = "delete"
    /\ slots' = [key \in SlotKeys |-> NoSlot]
    /\ Goto(t, "deleteJournal")
    /\ UNCHANGED <<client, engine, journal, tombstone, network>>

DeleteJournal(t) ==
    /\ task[t].at = "deleteJournal"
    /\ journal' = NoJournal
    /\ Goto(t, "verifyAbsence")
    /\ UNCHANGED <<client, engine, slots, tombstone, network>>

VerifyAbsence(t) ==
    /\ task[t].at = "verifyAbsence"
    /\ IF journal.generation = 0 /\ \A key \in SlotKeys : slots[key] = NoSlot
       THEN Goto(t, "clear") ELSE Finish(t)
    /\ UNCHANGED <<client, engine, storage, network>>

ClearTombstone(t) ==
    /\ task[t].at = "clear"
    /\ tombstone' = FALSE
    /\ phase' = "noLocalUser"
    /\ Finish(t)
    /\ UNCHANGED <<client, session, journal, slots, network>>

-----------------------------------------------------------------------------
Continue(t) ==
    \/ Reply(t)
    \/ ReadEnvelope(t)
    \/ Encrypt(t)
    \/ ReadState(t)
    \/ StageCandidate(t)
    \/ ReadBack(t)
    \/ SwitchPointer(t)
    \/ Sealed(t)
    \/ ProvisionDerived(t)
    \/ ProvisionInstall(t)
    \/ Probe(t)
    \/ InstallVolatile(t)
    \/ UnlockRead(t)
    \/ WrongPassword(t)
    \/ UnlockInstall(t)
    \/ Rewrap(t)
    \/ RewrapEncrypt(t)
    \/ ChangePasswordDone(t)
    \/ VerifyAnswer(t)
    \/ SubmitLookup(t)
    \/ SubmitAnswer(t)
    \/ PersistTombstone(t)
    \/ DeleteSlots(t)
    \/ DeleteJournal(t)
    \/ VerifyAbsence(t)
    \/ ClearTombstone(t)

Request(c, t) ==
    \/ \E i \in Identities : StartProvision(c, t, i) \/ StartProvisionSessionOnly(c, t, i)
    \/ StartUnlock(c, t)
    \/ StartChangePassword(c, t)
    \/ StartVerify(c, t)
    \/ StartSubmit(c, t)
    \/ StartPromote(c, t)
    \/ StartRemove(c, t)

\* What a continuation changes after its operation was revoked is recorded.
Changes == {w \in {"session", "storage"} :
               \/ w = "session" /\ session' # session
               \/ w = "storage" /\ storage' # storage}
RecordLate(t) == late' = IF task[t].stale THEN late \cup Changes ELSE late

Next ==
    \/ /\ \/ \E c \in Clients :
                \/ Handshake(c)
                \/ LockAll(c)
                \/ Cancel(c)
                \/ Lifecycle(c)
                \/ \E t \in Tasks : Request(c, t)
          \/ WorkerDeath
          \/ Index
       /\ UNCHANGED late
    \/ \E t \in Tasks : Continue(t) /\ RecordLate(t)

Spec == Init /\ [][Next]_vars
-----------------------------------------------------------------------------
(* Properties.  A revoked provision, unlock or password change compares      *)
(* nothing after its awaits: it installs its session, and any revoked commit *)
(* still writes.  Where that undoes a property in the code, the property says *)
(* so by naming `late`.                                                      *)

\* The authority is busy for exactly the one operation that runs and has not
\* been revoked: none is lost with the authority held, and never do two that
\* were admitted run side by side (handleOperation, runOperation's finally).
BusyIsRunning ==
    /\ active = {t \in Tasks : Running(t) /\ ~task[t].stale}
    /\ \A t, u \in active : t = u

\* Unless a revoked operation has touched the session, the engine is
\* authenticated only for the identity whose keys it holds, and only when the
\* network has indexed it: whatever was revoked, and whoever's vault a revoked
\* commit leaves behind, an answer never authenticates another identity than
\* the one asked about (verifyOnline).
AuthenticatedIsVerified ==
    phase = "authenticated" /\ "session" \notin late
        => session.kind # "none" /\ session.record.owner \in registered

\* On the same condition a record is Active only when the network has indexed
\* its owner, whichever slot or session holds it (promoteLifecycle).
ActiveRecord(r) == r.status = "Active" => r.owner \in registered
ActiveIsRegistered ==
    "session" \notin late =>
        /\ \A key \in SlotKeys : ActiveRecord(slots[key].record)
        /\ ActiveRecord(session.record)

\* Compare-and-swap: however commits overlap between reading the pointer,
\* writing a slot and switching, the pointer never goes back to an older
\* generation; only removal resets it (commit).
NeverRewound ==
    [][journal'.generation < journal.generation => journal'.generation = 0]_vars

\* As long as no revoked operation has installed or written anything, a posted
\* registration of a stored identity stays in the vault, byte for byte, until
\* the identity is Active or the vault is removed: a crash, a lock or a cancel
\* after the post cannot lead to a second transaction
\* (submitIdentityTransaction).
RetainedUntilActive ==
    [][ /\ late' = {}
        /\ Vault.record.pending \in posted
        /\ Vault'.record.pending # Vault.record.pending
        => Vault'.record.status \in {"Active", "absent"} ]_vars

\* On the same condition a transaction is posted only when the vault holds it;
\* a session-only identity has no vault (submitIdentityTransaction).
SealedBeforePost ==
    [][ session.kind = "durable" /\ late' = {}
        => posted' \subseteq posted \cup {Vault.record.pending} ]_vars
=============================================================================
