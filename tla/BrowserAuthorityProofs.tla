------------------------ MODULE BrowserAuthorityProofs ------------------------
(* For any number of tabs, users and overlapping operations: the authority   *)
(* is busy for one live operation, the vault never goes back to an older     *)
(* generation, and, unless a revoked operation has touched the session, the  *)
(* engine is authenticated and a record is Active only for an identity the   *)
(* network has indexed.                                                      *)
EXTENDS BrowserAuthority, TLAPS

\* The operations that act on the identity whose session was open when they
\* began, and only if the secrets were not wiped since.
Bound == {"verify", "submit", "promote"}
Acting(t) == Running(t) /\ task[t].op \in Bound /\ ~task[t].wiped

\* A revocation wipes: what was revoked and captured the generation knows it.
Flags(t) ==
    /\ task[t].at \in {"write", "readBack", "switch"} => task[t].version < MaxVersion
    /\ Running(t) /\ task[t].stale /\ task[t].op \in Capturing => task[t].wiped

StoredActive == \A key \in SlotKeys : ActiveRecord(slots[key].record)

\* What holds of sessions, slots and records in flight until a revoked
\* operation installs a session.
Sound ==
    /\ phase = "authenticated" => session.kind # "none" /\ session.record.owner \in registered
    /\ StoredActive
    /\ ActiveRecord(session.record)
    /\ \A t \in Tasks : ActiveRecord(task[t].record)
    /\ \A t \in Tasks : Acting(t) /\ session.kind # "none"
                           => session.record.owner = task[t].record.owner

AuthorityInv ==
    /\ TypeOK
    /\ BusyIsRunning
    /\ \A t \in Tasks : Flags(t)
    /\ "session" \notin late => Sound

SessionTyped ==
    /\ session \in [kind : {"none", "durable", "volatile"}, record : Record]
    /\ session.kind = "none" => session.record = NoRecord
StorageTyped ==
    /\ journal \in [generation : 0 .. MaxVersion, active : SlotKeys]
    /\ slots \in [SlotKeys -> Slot]
    /\ tombstone \in BOOLEAN

USE AuthorityAssumption

-----------------------------------------------------------------------------
\* The records written by name.
LEMMA ConstantsTyped ==
  /\ \A i \in Identities : Fresh(i) \in Record
  /\ NoRecord \in Record /\ NoSlot \in Slot /\ IdleTask \in Task /\ NoTx \in Tx
  /\ NoSession \in [kind : {"none", "durable", "volatile"}, record : Record]
  /\ NoJournal \in [generation : 0 .. MaxVersion, active : SlotKeys]
<1>1. 0 \in 0 .. MaxVersion /\ 0 \in 0 .. MaxTransactions
  OBVIOUS
<1>2. NoTx \in Tx
  BY <1>1 DEF Tx, NoTx, Owners
<1>3. NoRecord \in Record /\ \A i \in Identities : Fresh(i) \in Record
  BY <1>2 DEF Fresh, NoRecord, Record, Owners
<1>4. NoSlot \in Slot
  BY <1>1, <1>3 DEF NoSlot, Slot
<1>5. IdleTask \in Task
  BY <1>1, <1>3 DEF IdleTask, Task, Ops, Points, SlotKeys
<1>6. NoSession \in [kind : {"none", "durable", "volatile"}, record : Record]
  BY <1>3 DEF NoSession
<1> QED
  BY <1>1, <1>2, <1>3, <1>4, <1>5, <1>6 DEF NoJournal, SlotKeys

\* Records that are not Active.
LEMMA NotActive ==
  /\ \A i \in Identities : ActiveRecord(Fresh(i))
  /\ ActiveRecord(NoRecord)
BY DEF ActiveRecord, Fresh, NoRecord

LEMMA Fields ==
  ASSUME AuthorityInv, NEW t \in Tasks
  PROVE  /\ task \in [Tasks -> Task] /\ task[t] \in Task
         /\ task[t].record \in Record /\ task[t].version \in 0 .. MaxVersion
         /\ task[t].slot \in SlotKeys /\ task[t].op \in Ops /\ task[t].at \in Points
         /\ Flags(t) /\ (t \in active <=> Running(t) /\ ~task[t].stale)
         /\ session.record \in Record /\ SessionTyped /\ StorageTyped /\ Vault \in Slot
         /\ Vault.record \in Record /\ Vault.version \in 0 .. MaxVersion
<1>1. task[t] \in Task /\ Vault \in Slot
  BY DEF AuthorityInv, TypeOK, Vault
<1> QED
  BY <1>1 DEF AuthorityInv, TypeOK, BusyIsRunning, SessionTyped, StorageTyped, Task, Slot

LEMMA InitInv == Init => AuthorityInv
<1> SUFFICES ASSUME Init PROVE AuthorityInv
  OBVIOUS
<1>1. TypeOK
  <2>1. task \in [Tasks -> Task] /\ slots \in [SlotKeys -> Slot]
    BY ConstantsTyped DEF Init
  <2>2. /\ session \in [kind : {"none", "durable", "volatile"}, record : Record]
        /\ session.kind = "none" => session.record = NoRecord
    BY ConstantsTyped DEF Init, NoSession
  <2>3. journal \in [generation : 0 .. MaxVersion, active : SlotKeys]
    BY ConstantsTyped DEF Init
  <2>4. interruptions \in 0 .. MaxInterruptions /\ signed \in 0 .. MaxTransactions
    BY DEF Init
  <2> QED
    BY <2>1, <2>2, <2>3, <2>4 DEF Init, TypeOK, Phases
<1>2. \A t \in Tasks : task[t] = IdleTask /\ ~Running(t)
  BY DEF Init, Running, IdleTask
<1>3. BusyIsRunning
  BY <1>2 DEF Init, BusyIsRunning
<1>4. \A t \in Tasks : Flags(t)
  BY <1>2 DEF Flags, IdleTask
<1>5. \A t \in Tasks : ActiveRecord(task[t].record) /\ ~Acting(t)
  BY <1>2, NotActive DEF IdleTask, Acting
<1>6. StoredActive /\ ActiveRecord(session.record)
  BY NotActive DEF Init, StoredActive, NoSlot, NoSession
<1>7. Sound
  BY <1>5, <1>6 DEF Init, Sound
<1> QED
  BY <1>1, <1>3, <1>4, <1>7 DEF AuthorityInv

-----------------------------------------------------------------------------
(* An operation under way goes on: what has to be looked at is the state of  *)
(* its own continuation and what it writes.                                  *)

LEMMA ContinueInv ==
  ASSUME AuthorityInv, NEW t \in Tasks, NEW w \in Task, Running(t),
         task' = [task EXCEPT ![t] = w], w.at # "idle", w.stale = task[t].stale,
         w.at \in {"write", "readBack", "switch"} => w.version < MaxVersion,
         w.op \in Capturing => w.op = task[t].op /\ w.wiped = task[t].wiped,
         RecordLate(t), UNCHANGED <<client, signed, registered>>, posted' \subseteq Tx,
         phase' \in Phases, SessionTyped', StorageTyped',
         "session" \notin late =>
            /\ ActiveRecord(w.record) /\ ActiveRecord(session.record)' /\ StoredActive'
            /\ phase' = "authenticated" =>
                  session'.kind # "none" /\ session'.record.owner \in registered
            /\ w.op \in Bound /\ ~w.wiped /\ session'.kind # "none" =>
                  session'.record.owner = w.record.owner
  PROVE  AuthorityInv'
<1>1. /\ task' \in [Tasks -> Task] /\ task'[t] = w
      /\ \A u \in Tasks \ {t} : task'[u] = task[u]
  BY Fields
<1>2. TypeOK'
  <2>1. late' \subseteq {"session", "storage"}
    BY DEF RecordLate, Changes, AuthorityInv, TypeOK
  <2> QED
    BY <1>1, <2>1 DEF AuthorityInv, TypeOK, SessionTyped, StorageTyped, client
<1>3. BusyIsRunning'
  <2>1. \A u \in Tasks : (Running(u) /\ ~task[u].stale)' <=> Running(u) /\ ~task[u].stale
    BY <1>1 DEF Running
  <2> QED
    BY <2>1 DEF AuthorityInv, BusyIsRunning, client
<1>4. ASSUME NEW u \in Tasks PROVE Flags(u)'
  <2>1. CASE u = t
    BY <1>1, <2>1, Fields DEF Flags, Running
  <2>2. CASE u # t
    BY <1>1, <2>2, Fields DEF Flags, Running
  <2> QED  BY <2>1, <2>2
<1>5. ASSUME "session" \notin late' PROVE Sound'
  <2>1. Sound /\ (session' # session => ~task[t].stale)
    BY <1>5 DEF AuthorityInv, RecordLate, Changes
  <2>2. ASSUME NEW u \in Tasks PROVE ActiveRecord(task[u].record)'
    BY <1>1, <1>5, <2>1, <2>2 DEF Sound, ActiveRecord, RecordLate
  <2>3. ASSUME NEW u \in Tasks, Acting(u)', session'.kind # "none"
        PROVE  session'.record.owner = task'[u].record.owner
    <3>1. CASE u = t
      BY <1>1, <1>5, <2>3, <3>1 DEF Acting, RecordLate
    <3>2. CASE u # t /\ session' = session
      BY <1>1, <2>1, <2>3, <3>2 DEF Sound, Acting, Running
    <3>3. CASE u # t /\ session' # session
      <4>1. t \in active
        BY <2>1, <3>3, Fields
      <4>2. Running(u) /\ task[u].op \in Capturing /\ ~task[u].wiped
        BY <1>1, <2>3, <3>3 DEF Acting, Running, Bound, Capturing
      <4>3. ~task[u].stale
        BY <4>2, Fields DEF Flags
      <4>4. u \in active
        BY <4>2, <4>3, Fields
      <4> QED
        BY <3>3, <4>1, <4>4 DEF AuthorityInv, BusyIsRunning
    <3> QED
      BY <3>1, <3>2, <3>3
  <2> QED
    BY <1>5, <2>2, <2>3 DEF Sound, RecordLate
<1> QED
  BY <1>2, <1>3, <1>4, <1>5 DEF AuthorityInv

\* It moves on with the record and the version it has.
LEMMA GotoInv ==
  ASSUME AuthorityInv, NEW t \in Tasks, NEW at \in Points \ {"idle"}, Running(t), Goto(t, at),
         at \in {"write", "readBack", "switch"} => task[t].version < MaxVersion,
         RecordLate(t), UNCHANGED <<client, engine, network>>, StorageTyped',
         "session" \notin late => StoredActive'
  PROVE  AuthorityInv'
<1>1. PICK w \in Task : w = [task[t] EXCEPT !.at = at]
  BY Fields DEF Task
<1>2. /\ task' = [task EXCEPT ![t] = w] /\ w.at = at /\ w.stale = task[t].stale
      /\ w.op = task[t].op /\ w.wiped = task[t].wiped /\ w.record = task[t].record
      /\ w.version = task[t].version
  BY <1>1, Fields DEF Goto, Task
<1>3. /\ posted' \subseteq Tx /\ phase' \in Phases /\ SessionTyped'
  BY Fields DEF AuthorityInv, TypeOK, SessionTyped, engine, network
<1>4. "session" \notin late =>
        /\ ActiveRecord(w.record) /\ ActiveRecord(session.record)'
        /\ phase' = "authenticated" =>
              session'.kind # "none" /\ session'.record.owner \in registered
        /\ w.op \in Bound /\ ~w.wiped /\ session'.kind # "none" =>
              session'.record.owner = w.record.owner
  BY <1>2 DEF AuthorityInv, Sound, ActiveRecord, Acting, engine, network
<1> QED
  BY <1>2, <1>3, <1>4, ContinueInv DEF engine, network

\* It ends, having written the session and the phase, or storage.
LEMMA EndInv ==
  ASSUME AuthorityInv, NEW t \in Tasks, Running(t), Finish(t),
         RecordLate(t), UNCHANGED <<client, signed, registered>>, posted' \subseteq Tx,
         phase' \in Phases, SessionTyped', StorageTyped',
         "session" \notin late =>
            /\ ActiveRecord(session.record)' /\ StoredActive'
            /\ phase' = "authenticated" =>
                  session'.kind # "none" /\ session'.record.owner \in registered
  PROVE  AuthorityInv'
<1>1. PICK w \in Task : w = Ended(t)
  BY Fields, ConstantsTyped DEF Ended, Task, Points
<1>2. /\ task' = [task EXCEPT ![t] = w] /\ w.at = "reply" /\ w.stale = task[t].stale
      /\ w.op = "unlock" /\ w.record = NoRecord
  BY <1>1, Fields DEF Finish, Ended, IdleTask, Task
<1> QED
  BY <1>2, NotActive, ContinueInv DEF Capturing, Bound

\* It ends and leaves everything as it was.
LEMMA FinishInv ==
  ASSUME AuthorityInv, NEW t \in Tasks, Running(t), Finish(t), RecordLate(t),
         UNCHANGED <<client, engine, storage, network>>
  PROVE  AuthorityInv'
BY Fields, EndInv DEF AuthorityInv, TypeOK, Sound, SessionTyped, StorageTyped, StoredActive,
   ActiveRecord, engine, storage, network

\* It goes on with another record or version and changes nothing else.
LEMMA ReplaceInv ==
  ASSUME AuthorityInv, NEW t \in Tasks, NEW w \in Task, Running(t),
         task' = [task EXCEPT ![t] = w], w.at # "idle", w.stale = task[t].stale,
         w.at \in {"write", "readBack", "switch"} => w.version < MaxVersion,
         w.op = task[t].op, w.wiped = task[t].wiped,
         RecordLate(t), UNCHANGED <<client, engine, storage, network>>,
         "session" \notin late => ActiveRecord(w.record),
         w.op \in Bound => w.record = task[t].record
  PROVE  AuthorityInv'
<1>1. /\ posted' \subseteq Tx /\ phase' \in Phases /\ SessionTyped' /\ StorageTyped'
  BY Fields DEF AuthorityInv, TypeOK, SessionTyped, StorageTyped, engine, storage, network
<1>2. "session" \notin late =>
        /\ ActiveRecord(w.record) /\ ActiveRecord(session.record)' /\ StoredActive'
        /\ phase' = "authenticated" =>
              session'.kind # "none" /\ session'.record.owner \in registered
        /\ w.op \in Bound /\ ~w.wiped /\ session'.kind # "none" =>
              session'.record.owner = w.record.owner
  BY DEF AuthorityInv, Sound, StoredActive, ActiveRecord, Acting, engine, storage, network
<1> QED
  BY <1>1, <1>2, ContinueInv DEF engine, network

-----------------------------------------------------------------------------
(* Revocations, and the steps of the tabs.                                   *)

\* A wipe and an epoch change only set flags of the continuations.
LEMMA WipedFields ==
  ASSUME AuthorityInv
  PROVE  /\ Wiped(task) \in [Tasks -> Task]
         /\ \A t \in Tasks :
               /\ Wiped(task)[t].record = task[t].record
               /\ Wiped(task)[t].at = task[t].at /\ Wiped(task)[t].op = task[t].op
               /\ Wiped(task)[t].version = task[t].version
               /\ Wiped(task)[t].stale = task[t].stale
               /\ task[t].wiped => Wiped(task)[t].wiped
               /\ task[t].at # "idle" /\ task[t].op \in Capturing => Wiped(task)[t].wiped
<1> SUFFICES ASSUME NEW t \in Tasks
             PROVE  /\ Wiped(task)[t] \in Task
                    /\ Wiped(task)[t].record = task[t].record
                    /\ Wiped(task)[t].at = task[t].at /\ Wiped(task)[t].op = task[t].op
                    /\ Wiped(task)[t].version = task[t].version
                    /\ Wiped(task)[t].stale = task[t].stale
                    /\ task[t].wiped => Wiped(task)[t].wiped
                    /\ task[t].at # "idle" /\ task[t].op \in Capturing => Wiped(task)[t].wiped
  BY DEF Wiped
<1>1. PICK b \in BOOLEAN : b = (task[t].wiped \/ (task[t].at # "idle" /\ task[t].op \in Capturing))
  OBVIOUS
<1>2. Wiped(task)[t] = [task[t] EXCEPT !.wiped = b]
  BY <1>1 DEF Wiped
<1>3. task[t] \in Task
  BY Fields
<1> QED
  BY <1>1, <1>2, <1>3 DEF Task

LEMMA StaleFields ==
  ASSUME NEW ts \in [Tasks -> Task]
  PROVE  /\ Stale(ts) \in [Tasks -> Task]
         /\ \A t \in Tasks :
               /\ Stale(ts)[t].record = ts[t].record
               /\ Stale(ts)[t].at = ts[t].at /\ Stale(ts)[t].op = ts[t].op
               /\ Stale(ts)[t].version = ts[t].version /\ Stale(ts)[t].wiped = ts[t].wiped
               /\ ts[t].at # "idle" => Stale(ts)[t].stale
<1> SUFFICES ASSUME NEW t \in Tasks
             PROVE  /\ Stale(ts)[t] \in Task
                    /\ Stale(ts)[t].record = ts[t].record
                    /\ Stale(ts)[t].at = ts[t].at /\ Stale(ts)[t].op = ts[t].op
                    /\ Stale(ts)[t].version = ts[t].version /\ Stale(ts)[t].wiped = ts[t].wiped
                    /\ ts[t].at # "idle" => Stale(ts)[t].stale
  BY DEF Stale
<1>1. PICK b \in BOOLEAN : b = (ts[t].stale \/ ts[t].at # "idle")
  OBVIOUS
<1>2. Stale(ts)[t] = [ts[t] EXCEPT !.stale = b]
  BY <1>1 DEF Stale
<1>3. ts[t] \in Task
  OBVIOUS
<1> QED
  BY <1>1, <1>2, <1>3 DEF Task

\* The session and the phase after a wipe.
LEMMA WipeTyped ==
  ASSUME AuthorityInv, WipeEngine
  PROVE  /\ SessionTyped' /\ phase' = "locked" /\ phase' \in Phases
         /\ session'.kind = "none" /\ session'.record = NoRecord
BY ConstantsTyped DEF WipeEngine, SessionTyped, NoSession, Phases

LEMMA RevokeInv == ASSUME AuthorityInv, Revoke, UNCHANGED late PROVE AuthorityInv'
<1>1. /\ task' \in [Tasks -> Task]
      /\ \A t \in Tasks : /\ task'[t].at = task[t].at /\ task'[t].record = task[t].record
                          /\ task'[t].op = task[t].op /\ task'[t].version = task[t].version
                          /\ task[t].at # "idle" => task'[t].stale
                          /\ task[t].at # "idle" /\ task[t].op \in Capturing => task'[t].wiped
  BY WipedFields, StaleFields DEF Revoke
<1>2. TypeOK'
  <2>1. interruptions' \in 0 .. MaxInterruptions
    BY DEF AuthorityInv, TypeOK, Revoke
  <2> QED
    BY <1>1, <2>1, WipeTyped DEF Revoke, AuthorityInv, TypeOK, SessionTyped, storage, network
<1>3. BusyIsRunning'
  BY <1>1 DEF Revoke, BusyIsRunning, Running
<1>4. \A t \in Tasks : Flags(t)'
  BY <1>1, Fields DEF Flags, Running
<1>5. ASSUME "session" \notin late' PROVE Sound'
  BY <1>1, <1>5, WipeTyped, NotActive
     DEF Revoke, AuthorityInv, Sound, StoredActive, ActiveRecord, storage, network
<1> QED
  BY <1>2, <1>3, <1>4, <1>5 DEF AuthorityInv

LEMMA WorkerDeathInv == ASSUME AuthorityInv, WorkerDeath, UNCHANGED late PROVE AuthorityInv'
<1>1. \A t \in Tasks : task'[t] = IdleTask /\ task'[t] \in Task /\ ~Running(t)'
  BY ConstantsTyped DEF WorkerDeath, Running, IdleTask
<1>2. task' \in [Tasks -> Task]
  BY ConstantsTyped DEF WorkerDeath
<1>3. WipeEngine /\ UNCHANGED <<interruptions, storage, network>> /\ channels' = {} /\ active' = {}
  BY DEF WorkerDeath
<1>4. TypeOK'
  BY <1>2, <1>3, WipeTyped DEF AuthorityInv, TypeOK, SessionTyped, storage, network
<1>5. BusyIsRunning' /\ \A t \in Tasks : Flags(t)'
  BY <1>1, <1>3 DEF BusyIsRunning, Flags, IdleTask
<1>6. ASSUME "session" \notin late' PROVE Sound'
  <2>1. \A t \in Tasks : ActiveRecord(task[t].record)' /\ ~Acting(t)'
    BY <1>1, NotActive DEF IdleTask, Acting, ActiveRecord, NoRecord
  <2> QED
    BY <1>3, <1>6, <2>1, WipeTyped, NotActive
       DEF AuthorityInv, Sound, StoredActive, ActiveRecord, storage, network
<1> QED
  BY <1>4, <1>5, <1>6 DEF AuthorityInv

\* Only the channels change, or nothing, or the network's index grows.
LEMMA ElsewhereInv ==
  ASSUME AuthorityInv, channels' \subseteq Clients,
         registered' \subseteq Identities, registered \subseteq registered',
         UNCHANGED <<active, interruptions, engine, storage, task, signed, posted, late>>
  PROVE  AuthorityInv'
<1>1. TypeOK' /\ BusyIsRunning' /\ \A t \in Tasks : Flags(t)'
  BY DEF AuthorityInv, TypeOK, BusyIsRunning, Flags, Running, engine, storage
<1>2. ASSUME "session" \notin late' PROVE Sound'
  BY <1>2 DEF AuthorityInv, Sound, StoredActive, ActiveRecord, Acting, Running, engine, storage
<1> QED
  BY <1>1, <1>2 DEF AuthorityInv

LEMMA TabInv ==
  ASSUME AuthorityInv, NEW c \in Clients, UNCHANGED late,
         Handshake(c) \/ LockAll(c) \/ Cancel(c) \/ Lifecycle(c)
  PROVE  AuthorityInv'
<1>1. CASE Revoke
  BY <1>1, RevokeInv
<1>2. CASE ~Revoke
  <2>1. /\ channels' \in {channels \cup {c}, channels \ {c}}
        /\ UNCHANGED <<active, interruptions, engine, storage, task, network>>
    BY <1>2 DEF Handshake, LockAll, Cancel, Lifecycle
  <2> QED
    BY <2>1, ElsewhereInv DEF AuthorityInv, TypeOK, network
<1> QED
  BY <1>1, <1>2

LEMMA IndexInv == ASSUME AuthorityInv, Index, UNCHANGED late PROVE AuthorityInv'
BY ElsewhereInv DEF Index, AuthorityInv, TypeOK, client

-----------------------------------------------------------------------------
(* Steps that only move a continuation.                                      *)

LEMMA ReplyInv == ASSUME AuthorityInv, NEW t \in Tasks, Reply(t), RecordLate(t) PROVE AuthorityInv'
<1>1. /\ task' = [task EXCEPT ![t] = IdleTask] /\ task'[t] = IdleTask
      /\ \A u \in Tasks \ {t} : task'[u] = task[u]
      /\ task' \in [Tasks -> Task]
  BY Fields, ConstantsTyped DEF Reply
<1>2. late' = late
  BY DEF Reply, RecordLate, Changes, engine, storage
<1>3. TypeOK'
  BY <1>1, <1>2 DEF Reply, AuthorityInv, TypeOK, engine, storage, network
<1>4. BusyIsRunning'
  <2>1. ~Running(t)' /\ \A u \in Tasks \ {t} : Running(u)' <=> Running(u)
    BY <1>1 DEF Running, IdleTask
  <2> QED
    BY <1>1, <2>1 DEF Reply, AuthorityInv, BusyIsRunning
<1>5. \A u \in Tasks : Flags(u)'
  BY <1>1 DEF AuthorityInv, Flags, Running, IdleTask
<1>6. ASSUME "session" \notin late' PROVE Sound'
  <2>1. \A u \in Tasks : ActiveRecord(task[u].record)'
    BY <1>1, <1>2, <1>6, NotActive
       DEF Reply, AuthorityInv, Sound, ActiveRecord, IdleTask, network
  <2>2. \A u \in Tasks : Acting(u)' => Acting(u) /\ task'[u] = task[u]
    BY <1>1 DEF Acting, Running, IdleTask
  <2> QED
    BY <1>2, <1>6, <2>1, <2>2 DEF Reply, AuthorityInv, Sound, StoredActive, ActiveRecord,
       engine, storage, network
<1> QED
  BY <1>3, <1>4, <1>5, <1>6 DEF AuthorityInv

LEMMA MoveInv ==
  ASSUME AuthorityInv, NEW t \in Tasks, RecordLate(t),
         \/ ReadEnvelope(t) \/ Encrypt(t) \/ ReadState(t) \/ ReadBack(t)
         \/ ProvisionDerived(t) \/ Probe(t) \/ UnlockRead(t) \/ WrongPassword(t)
         \/ Rewrap(t) \/ RewrapEncrypt(t) \/ VerifyAbsence(t)
  PROVE  AuthorityInv'
<1>0. Running(t) /\ UNCHANGED <<client, engine, storage, network>>
  BY DEF ReadEnvelope, Encrypt, ReadState, ReadBack, ProvisionDerived, Probe, UnlockRead,
     WrongPassword, Rewrap, RewrapEncrypt, VerifyAbsence, Running
<1>1. CASE Finish(t)
  BY <1>0, <1>1, FinishInv
<1>2. ASSUME NEW at \in Points \ {"idle", "write"}, Goto(t, at),
             at \in {"readBack", "switch"} => task[t].version < MaxVersion
      PROVE  AuthorityInv'
  BY <1>0, <1>2, GotoInv, Fields
     DEF AuthorityInv, TypeOK, StorageTyped, Sound, StoredActive, ActiveRecord,
         storage, network
<1>3. CASE Encrypt(t) \/ ReadBack(t) \/ ProvisionDerived(t) \/ Probe(t) \/ VerifyAbsence(t)
  <2>1. CASE ReadBack(t)
    BY <1>1, <1>2, <2>1, Fields DEF ReadBack, Flags, Points
  <2> QED
    BY <1>1, <1>2, <1>3, <2>1 DEF Encrypt, ProvisionDerived, Probe, VerifyAbsence, Points
<1>4. CASE WrongPassword(t)
  BY <1>1, <1>4 DEF WrongPassword
<1>5. ASSUME NEW version \in 0 .. MaxVersion,
             task' = [task EXCEPT ![t].version = version, ![t].at = "encrypt"]
      PROVE  AuthorityInv'
  <2>1. PICK w \in Task : w = [task[t] EXCEPT !.version = version, !.at = "encrypt"]
    BY Fields DEF Task, Points
  <2>2. task' = [task EXCEPT ![t] = w]
    BY <1>5, <2>1, Fields
  <2>3. /\ w.at = "encrypt" /\ w.stale = task[t].stale /\ w.op = task[t].op
        /\ w.wiped = task[t].wiped /\ w.record = task[t].record
    BY <2>1, Fields DEF Task
  <2> QED
    BY <1>0, <2>2, <2>3, ReplaceInv DEF AuthorityInv, Sound
<1>6. CASE ReadEnvelope(t) \/ Rewrap(t)
  BY <1>1, <1>5, <1>6, Fields DEF ReadEnvelope, Rewrap
<1>7. CASE ReadState(t)
  <2>1. CASE /\ task[t].version < MaxVersion
             /\ task' = [task EXCEPT ![t].at = "write", ![t].slot = Other(journal.active)]
    <3>1. PICK w \in Task : w = [task[t] EXCEPT !.at = "write", !.slot = Other(journal.active)]
      BY Fields DEF Task, Points, Other, SlotKeys
    <3>2. task' = [task EXCEPT ![t] = w]
      BY <2>1, <3>1, Fields
    <3>3. /\ w.at = "write" /\ w.stale = task[t].stale /\ w.op = task[t].op
          /\ w.wiped = task[t].wiped /\ w.record = task[t].record
          /\ w.version = task[t].version
      BY <3>1, Fields DEF Task
    <3> QED
      BY <1>0, <2>1, <3>2, <3>3, ReplaceInv DEF AuthorityInv, Sound
  <2> QED
    BY <1>1, <1>7, <2>1 DEF ReadState
<1>8. ASSUME NEW r \in Record, NEW at \in {"derive", "stage"}, task[t].op \notin Bound,
             "session" \notin late => ActiveRecord(r),
             task' = [task EXCEPT ![t].record = r, ![t].at = at]
      PROVE  AuthorityInv'
  <2>1. PICK w \in Task : w = [task[t] EXCEPT !.record = r, !.at = at]
    BY Fields DEF Task, Points
  <2>2. task' = [task EXCEPT ![t] = w]
    BY <1>8, <2>1, Fields
  <2>3. /\ w.at = at /\ w.stale = task[t].stale /\ w.op = task[t].op
        /\ w.wiped = task[t].wiped /\ w.record = r
    BY <2>1, Fields DEF Task
  <2> QED
    BY <1>0, <1>8, <2>2, <2>3, ReplaceInv
<1>9. CASE UnlockRead(t)
  BY <1>1, <1>8, <1>9, Fields DEF UnlockRead, AuthorityInv, Sound, StoredActive, Vault,
     TypeOK, Bound
<1>10. CASE RewrapEncrypt(t)
  BY <1>1, <1>8, <1>10, Fields DEF RewrapEncrypt, AuthorityInv, Sound, Bound
<1> QED
  BY <1>3, <1>4, <1>6, <1>7, <1>9, <1>10

-----------------------------------------------------------------------------
(* Steps that write storage.                                                 *)

LEMMA StorageInv ==
  ASSUME AuthorityInv, NEW t \in Tasks, RecordLate(t),
         \/ StageCandidate(t) \/ SwitchPointer(t) \/ PersistTombstone(t)
         \/ DeleteSlots(t) \/ DeleteJournal(t) \/ ClearTombstone(t)
  PROVE  AuthorityInv'
<1>0. Running(t) /\ UNCHANGED <<client, session, network>>
  BY DEF StageCandidate, SwitchPointer, PersistTombstone, DeleteSlots, DeleteJournal,
     ClearTombstone, Running, engine
<1>1. ASSUME Finish(t), phase' \in Phases \ {"authenticated"} \/ phase' = phase,
             StorageTyped', "session" \notin late => StoredActive'
      PROVE  AuthorityInv'
  BY <1>0, <1>1, EndInv, Fields
     DEF AuthorityInv, TypeOK, SessionTyped, Sound, ActiveRecord, Phases, network
<1>2. slots' = slots => ("session" \notin late => StoredActive')
  BY <1>0 DEF AuthorityInv, Sound, StoredActive, ActiveRecord, network
<1>3. CASE StageCandidate(t)
  <2>1. CASE slots' = [slots EXCEPT ![task[t].slot] = Candidate(t)] /\ Goto(t, "readBack")
    <3>1. task[t].version < MaxVersion
      BY <1>3, Fields DEF StageCandidate, Flags
    <3>2. Candidate(t) \in Slot /\ Candidate(t).record = task[t].record
      <4>1. task[t].version + 1 \in 0 .. MaxVersion
        BY <3>1, Fields
      <4> QED
        BY <4>1, Fields DEF Candidate, Slot
    <3>3. StorageTyped'
      BY <1>3, <2>1, <3>2, Fields DEF StageCandidate, StorageTyped
    <3>4. "session" \notin late => StoredActive'
      BY <1>0, <2>1, <3>2, Fields
         DEF AuthorityInv, Sound, StoredActive, StorageTyped, ActiveRecord, network
    <3> QED
      BY <1>0, <1>3, <2>1, <3>1, <3>3, <3>4, GotoInv DEF StageCandidate, Points
  <2>2. CASE Finish(t) /\ UNCHANGED slots
    BY <1>1, <1>2, <1>3, <2>2, Fields DEF StageCandidate, StorageTyped, engine
  <2> QED
    BY <1>3, <2>1, <2>2 DEF StageCandidate
<1>4. CASE SwitchPointer(t)
  <2>1. CASE journal' = Switched(t) /\ Landed(t)
    <3>1. StorageTyped' /\ ("session" \notin late => StoredActive')
      <4>1. task[t].version + 1 \in 0 .. MaxVersion
        BY <1>4, Fields DEF SwitchPointer, Flags
      <4> QED
        BY <1>2, <1>4, <2>1, <4>1, Fields DEF SwitchPointer, Switched, StorageTyped
    <3>2. 0 \in 0 .. MaxVersion /\ "slot-a" \in SlotKeys /\ "sealed" \in Points
      BY DEF SlotKeys, Points
    <3>3. PICK w \in Task : w = [task[t] EXCEPT !.at = "sealed", !.version = 0,
                                                !.slot = "slot-a"]
      BY <3>2, Fields DEF Task
    <3>4. task' = [task EXCEPT ![t] = w]
      BY <2>1, <3>3, Fields DEF Landed
    <3>5. /\ w.at = "sealed" /\ w.stale = task[t].stale /\ w.op = task[t].op
          /\ w.wiped = task[t].wiped /\ w.record = task[t].record
      BY <3>3, Fields DEF Task
    <3>6. /\ posted' \subseteq Tx /\ phase' \in Phases /\ SessionTyped'
          /\ UNCHANGED <<client, engine, network>>
      BY <1>4, Fields DEF SwitchPointer, AuthorityInv, TypeOK, SessionTyped, engine, network
    <3>7. "session" \notin late =>
            /\ ActiveRecord(w.record) /\ ActiveRecord(session.record)' /\ StoredActive'
            /\ phase' = "authenticated" =>
                  session'.kind # "none" /\ session'.record.owner \in registered
            /\ w.op \in Bound /\ ~w.wiped /\ session'.kind # "none" =>
                  session'.record.owner = w.record.owner
      BY <1>0, <3>1, <3>5, <3>6 DEF AuthorityInv, Sound, ActiveRecord, Acting, engine, network
    <3>8. /\ w.at \notin {"idle", "write", "readBack", "switch"}
          /\ UNCHANGED <<client, signed, registered>>
      BY <1>0, <3>5 DEF network
    <3> QED
      BY <1>0, <3>1, <3>4, <3>5, <3>6, <3>7, <3>8, ContinueInv
  <2>2. CASE Finish(t) /\ UNCHANGED journal
    BY <1>1, <1>2, <1>4, <2>2, Fields DEF SwitchPointer, StorageTyped, engine
  <2> QED
    BY <1>4, <2>1, <2>2 DEF SwitchPointer
<1>5. ASSUME NEW at \in {"delete", "deleteJournal", "verifyAbsence"}, Goto(t, at), phase' = phase,
             StorageTyped', "session" \notin late => StoredActive'
      PROVE  AuthorityInv'
  BY <1>0, <1>5, GotoInv DEF Points, engine
<1>6. CASE PersistTombstone(t)
  BY <1>2, <1>5, <1>6, Fields DEF PersistTombstone, StorageTyped, engine
<1>7. CASE DeleteSlots(t)
  <2>1. slots' = [key \in SlotKeys |-> NoSlot] /\ NoSlot.record.status = "absent"
    BY <1>7 DEF DeleteSlots, NoSlot, NoRecord
  <2>2. StoredActive'
    BY <2>1 DEF StoredActive, ActiveRecord
  <2>3. StorageTyped'
    BY <1>7, <2>1, Fields, ConstantsTyped DEF DeleteSlots, StorageTyped
  <2> QED
    BY <1>5, <1>7, <2>2, <2>3 DEF DeleteSlots, engine
<1>8. CASE DeleteJournal(t)
  BY <1>2, <1>5, <1>8, Fields, ConstantsTyped DEF DeleteJournal, StorageTyped, engine
<1>9. CASE ClearTombstone(t)
  BY <1>1, <1>2, <1>9, Fields DEF ClearTombstone, StorageTyped, Phases
<1> QED
  BY <1>3, <1>4, <1>6, <1>7, <1>8, <1>9

-----------------------------------------------------------------------------
(* Steps that write the engine.                                              *)

LEMMA EngineInv ==
  ASSUME AuthorityInv, NEW t \in Tasks, RecordLate(t),
         \/ ProvisionInstall(t) \/ InstallVolatile(t) \/ UnlockInstall(t)
         \/ ChangePasswordDone(t) \/ VerifyAnswer(t)
  PROVE  AuthorityInv'
<1>0. Running(t) /\ UNCHANGED <<client, storage, network>>
  BY DEF ProvisionInstall, InstallVolatile, UnlockInstall, ChangePasswordDone, VerifyAnswer,
     Running
<1>1. /\ posted' \subseteq Tx /\ StorageTyped'
      /\ "session" \notin late => StoredActive'
  BY <1>0, Fields DEF AuthorityInv, TypeOK, Sound, StoredActive, ActiveRecord, StorageTyped,
     storage, network
<1>2. ASSUME NEW kind \in {"durable", "volatile"},
             session' = [kind |-> kind, record |-> task[t].record],
             phase' = "verificationOnly"
      PROVE  /\ SessionTyped' /\ phase' \in Phases /\ phase' # "authenticated"
             /\ "session" \notin late => ActiveRecord(session.record)'
             /\ session'.record = task[t].record
  BY <1>0, <1>2, Fields
     DEF SessionTyped, Phases, AuthorityInv, Sound, ActiveRecord, network
<1>3. CASE ProvisionInstall(t)
  BY <1>0, <1>1, <1>2, <1>3, EndInv DEF ProvisionInstall, network
<1>4. CASE InstallVolatile(t)
  <2>1. CASE UNCHANGED engine
    BY <1>0, <1>4, <2>1, FinishInv DEF InstallVolatile
  <2> QED
    BY <1>0, <1>1, <1>2, <1>4, <2>1, EndInv DEF InstallVolatile, network
<1>5. CASE UnlockInstall(t)
  <2>1. CASE Finish(t)
    BY <1>0, <1>1, <1>2, <1>5, <2>1, EndInv DEF UnlockInstall, network
  <2>2. CASE Goto(t, "rewrap")
    <3>1. PICK w \in Task : w = [task[t] EXCEPT !.at = "rewrap"]
      BY Fields DEF Task, Points
    <3>2. /\ task' = [task EXCEPT ![t] = w] /\ w.at = "rewrap" /\ w.stale = task[t].stale
          /\ w.op = task[t].op /\ w.wiped = task[t].wiped /\ w.record = task[t].record
      BY <2>2, <3>1, Fields DEF Goto, Task
    <3>3. w.op \notin Bound
      BY <1>5, <3>2 DEF UnlockInstall, Bound
    <3>4. "session" \notin late => ActiveRecord(w.record)
      BY <3>2 DEF AuthorityInv, Sound
    <3> QED
      BY <1>0, <1>1, <1>2, <1>5, <3>2, <3>3, <3>4, ContinueInv DEF UnlockInstall, network
  <2> QED
    BY <1>5, <2>1, <2>2 DEF UnlockInstall
<1>6. CASE ChangePasswordDone(t)
  <2>0. /\ Ended(t) \in Task /\ Ended(t).record = NoRecord /\ Ended(t).at = "reply"
        /\ Ended(t).op = "unlock" /\ Ended(t).stale = task[t].stale
    BY Fields, ConstantsTyped DEF Ended, Task, IdleTask, Points
  <2>1. /\ task' \in [Tasks -> Task] /\ task'[t] = Ended(t)
        /\ \A u \in Tasks \ {t} : task'[u] = Wiped(task)[u]
    BY <1>6, <2>0, WipedFields DEF ChangePasswordDone
  <2>2. /\ SessionTyped' /\ phase' = "locked" /\ phase' \in Phases
        /\ session'.kind = "none" /\ session'.record = NoRecord
    BY <1>6, WipeTyped DEF ChangePasswordDone
  <2>3. TypeOK'
    <3>1. late' \subseteq {"session", "storage"}
      BY DEF RecordLate, Changes, AuthorityInv, TypeOK
    <3> QED
      BY <1>0, <1>1, <2>1, <2>2, <3>1
         DEF AuthorityInv, TypeOK, SessionTyped, StorageTyped, client, network
  <2>4. BusyIsRunning'
    <3>1. \A u \in Tasks : (Running(u) /\ ~task[u].stale)' <=> Running(u) /\ ~task[u].stale
      BY <1>0, <2>0, <2>1, WipedFields DEF Running
    <3> QED
      BY <1>0, <3>1 DEF AuthorityInv, BusyIsRunning, client
  <2>5. ASSUME NEW u \in Tasks PROVE Flags(u)'
    <3>1. CASE u = t
      BY <2>0, <2>1, <3>1 DEF Flags, Capturing
    <3>2. CASE u # t
      BY <2>1, <3>2, WipedFields, Fields DEF Flags, Running
    <3> QED  BY <3>1, <3>2
  <2>6. ASSUME "session" \notin late' PROVE Sound'
    <3>1. Sound
      BY <2>6 DEF AuthorityInv, RecordLate
    <3>2. ASSUME NEW u \in Tasks PROVE ActiveRecord(task[u].record)'
      <4>1. task'[u].record \in {NoRecord, task[u].record}
        BY <2>0, <2>1, WipedFields
      <4> QED
        BY <1>0, <3>1, <4>1, NotActive DEF Sound, ActiveRecord, network
    <3> QED
      BY <1>0, <2>2, <3>1, <3>2, NotActive
         DEF Sound, StoredActive, ActiveRecord, storage, network
  <2> QED
    BY <2>3, <2>4, <2>5, <2>6 DEF AuthorityInv
<1>7. CASE VerifyAnswer(t)
  <2>1. phase' \in Phases /\ SessionTyped'
    BY <1>7, Fields DEF VerifyAnswer, AuthorityInv, TypeOK, Phases, SessionTyped
  <2>2. ASSUME "session" \notin late, phase' = "authenticated"
        PROVE  session'.kind # "none" /\ session'.record.owner \in registered
    <3>1. CASE phase = "authenticated"
      BY <1>7, <2>2, <3>1 DEF VerifyAnswer, AuthorityInv, Sound
    <3>2. CASE phase # "authenticated"
      <4>1. PICK found \in {FALSE, task[t].record.owner \in registered} :
               phase' = IF ~task[t].wiped /\ session.kind # "none" /\ found
                        THEN "authenticated" ELSE phase
        BY <1>7 DEF VerifyAnswer
      <4>2. ~task[t].wiped /\ session.kind # "none" /\ task[t].record.owner \in registered
        BY <2>2, <3>2, <4>1
      <4>3. Acting(t)
        BY <1>7, <4>2 DEF VerifyAnswer, Acting, Running, Bound
      <4> QED
        BY <1>7, <2>2, <4>2, <4>3 DEF VerifyAnswer, AuthorityInv, Sound
    <3> QED
      BY <3>1, <3>2
  <2>3. "session" \notin late => ActiveRecord(session.record)'
    BY <1>0, <1>7 DEF VerifyAnswer, AuthorityInv, Sound, ActiveRecord, network
  <2> QED
    BY <1>0, <1>1, <1>7, <2>1, <2>2, <2>3, EndInv DEF VerifyAnswer, network
<1> QED
  BY <1>3, <1>4, <1>5, <1>6, <1>7

-----------------------------------------------------------------------------
(* Rewriting the record, and the operations that do.                         *)

\* What the first step of a rewrite leaves: the new record waits in the
\* continuation, or it is the record of a volatile session by now.
LEMMA ReencryptFields ==
  ASSUME AuthorityInv, NEW t \in Tasks, NEW w \in Task, NEW next \in Record,
         NEW then \in {"post", "reply"}, Reencrypt(t, w, next, then), session.kind # "none"
  PROVE  /\ session'.kind = session.kind /\ session'.record \in {session.record, next}
         /\ SessionTyped' /\ posted' \subseteq Tx
         /\ \E v \in Task :
               /\ task' = [task EXCEPT ![t] = v] /\ v.at \in {"answer", "reply", "envelope"}
               /\ v.stale = w.stale
               /\ \/ v.op = w.op /\ v.wiped = w.wiped /\ v.record = next
                  \/ v.op = "unlock" /\ v.record = NoRecord
<1>1. CASE session.kind = "volatile"
  <2>1. session' = [session EXCEPT !.record = next]
    BY <1>1 DEF Reencrypt
  <2>2. posted' \subseteq Tx
    BY <1>1 DEF Reencrypt, AuthorityInv, TypeOK, Record
  <2>3. CASE then = "post"
    <3>1. PICK v \in Task : v = [w EXCEPT !.record = next, !.at = "answer"]
      BY DEF Task, Points
    <3>2. /\ v.at = "answer" /\ v.stale = w.stale /\ v.op = w.op /\ v.wiped = w.wiped
          /\ v.record = next
      BY <3>1 DEF Task
    <3>3. task' = [task EXCEPT ![t] = v]
      BY <1>1, <2>3, <3>1 DEF Reencrypt
    <3> QED
      BY <2>1, <2>2, <3>2, <3>3, Fields DEF SessionTyped
  <2>4. CASE then # "post"
    <3>1. PICK v \in Task : v = [IdleTask EXCEPT !.at = "reply", !.stale = w.stale]
      BY ConstantsTyped DEF Task, Points
    <3>2. v.at = "reply" /\ v.stale = w.stale /\ v.op = "unlock" /\ v.record = NoRecord
      BY <3>1 DEF IdleTask, Task
    <3>3. task' = [task EXCEPT ![t] = v]
      BY <1>1, <2>4, <3>1 DEF Reencrypt
    <3> QED
      BY <2>1, <2>2, <3>2, <3>3, Fields DEF SessionTyped
  <2> QED
    BY <2>3, <2>4
<1>2. CASE session.kind # "volatile"
  <2>1. PICK v \in Task : v = [w EXCEPT !.record = next, !.then = then, !.at = "envelope"]
    BY DEF Task, Points
  <2>2. /\ v.at = "envelope" /\ v.stale = w.stale /\ v.op = w.op /\ v.wiped = w.wiped
        /\ v.record = next
    BY <2>1 DEF Task
  <2>3. task' = [task EXCEPT ![t] = v] /\ UNCHANGED <<session, posted>>
    BY <1>2, <2>1 DEF Reencrypt
  <2> QED
    BY <2>2, <2>3, Fields DEF AuthorityInv, TypeOK, SessionTyped
<1> QED
  BY <1>1, <1>2

LEMMA RecordStepsInv ==
  ASSUME AuthorityInv, NEW t \in Tasks, RecordLate(t),
         Sealed(t) \/ SubmitLookup(t) \/ SubmitAnswer(t)
  PROVE  AuthorityInv'
<1>0. /\ Running(t) /\ UNCHANGED <<client, phase, storage, signed, registered>>
      /\ StorageTyped' /\ phase' \in Phases
      /\ "session" \notin late => StoredActive'
  BY Fields DEF Sealed, SubmitLookup, SubmitAnswer, Running, AuthorityInv, TypeOK, Sound,
     StoredActive, ActiveRecord, StorageTyped, storage
<1>1. CASE Finish(t) /\ UNCHANGED <<session, posted>>
  BY <1>0, <1>1, FinishInv DEF engine, network
<1>2. CASE Sealed(t)
  <2>1. CASE task[t].wiped \/ session.kind = "none"
    BY <1>1, <1>2, <2>1 DEF Sealed
  <2>2. CASE ~(task[t].wiped \/ session.kind = "none")
    <3>1. session' = [session EXCEPT !.record = task[t].record]
      BY <1>2, <2>2 DEF Sealed
    <3>2. SessionTyped' /\ session'.kind = session.kind /\ session'.record = task[t].record
      BY <2>2, <3>1, Fields DEF SessionTyped
    <3>3. posted' \subseteq Tx
      BY <1>2, <2>2, Fields DEF Sealed, AuthorityInv, TypeOK, Record
    <3>4. "session" \notin late =>
            /\ ActiveRecord(session.record)' /\ ActiveRecord(task[t].record)
            /\ phase' = "authenticated" =>
                  session'.kind # "none" /\ session'.record.owner \in registered
      <4>1. Acting(t)
        BY <1>0, <1>2, <2>2 DEF Sealed, Acting, Bound
      <4> QED
        BY <1>0, <2>2, <3>2, <4>1 DEF AuthorityInv, Sound, ActiveRecord
    <3>5. CASE Finish(t)
      BY <1>0, <3>2, <3>3, <3>4, <3>5, EndInv
    <3>6. CASE Goto(t, "answer")
      <4>1. PICK w \in Task : w = [task[t] EXCEPT !.at = "answer"]
        BY Fields DEF Task, Points
      <4>2. /\ task' = [task EXCEPT ![t] = w] /\ w.at = "answer" /\ w.stale = task[t].stale
            /\ w.op = task[t].op /\ w.wiped = task[t].wiped /\ w.record = task[t].record
        BY <3>6, <4>1, Fields DEF Goto, Task
      <4> QED
        BY <1>0, <3>2, <3>3, <3>4, <4>2, ContinueInv
    <3> QED
      BY <1>2, <2>2, <3>5, <3>6 DEF Sealed
  <2> QED
    BY <2>1, <2>2
\* Retaining a transaction changes nothing else in the record.
<1>3. ASSUME NEW next, next = [session.record EXCEPT !.pending = task[t].record.pending],
             NEW then \in {"post", "reply"}, Reencrypt(t, task[t], next, then),
             session.kind # "none"
      PROVE  AuthorityInv'
  <2>1. /\ next \in Record /\ next.owner = session.record.owner
        /\ next.status = session.record.status
    BY <1>3, Fields DEF Record
  <2>2. PICK w \in Task : w = task[t]
    BY Fields
  <2>3. Reencrypt(t, w, next, then)
    BY <1>3, <2>2
  <2>4. PICK v \in Task :
           /\ task' = [task EXCEPT ![t] = v] /\ v.at \in {"answer", "reply", "envelope"}
           /\ v.stale = w.stale
           /\ \/ v.op = w.op /\ v.wiped = w.wiped /\ v.record = next
              \/ v.op = "unlock" /\ v.record = NoRecord
    BY <1>3, <2>1, <2>2, <2>3, ReencryptFields
  <2>5. /\ session'.kind = session.kind /\ session'.record \in {session.record, next}
        /\ SessionTyped' /\ posted' \subseteq Tx
    BY <1>3, <2>1, <2>2, <2>3, ReencryptFields
  <2>6. session'.record.owner = session.record.owner
    BY <2>1, <2>5
  <2>7. "session" \notin late =>
          /\ ActiveRecord(v.record) /\ ActiveRecord(session.record)'
          /\ phase' = "authenticated" =>
                session'.kind # "none" /\ session'.record.owner \in registered
          /\ v.op \in Bound /\ ~v.wiped /\ session'.kind # "none" =>
                session'.record.owner = v.record.owner
    BY <1>0, <2>1, <2>4, <2>5, <2>6, NotActive DEF AuthorityInv, Sound, ActiveRecord, Bound
  <2>8. /\ v.at \notin {"idle", "write", "readBack", "switch"} /\ v.stale = task[t].stale
        /\ v.op \in Capturing => v.op = task[t].op /\ v.wiped = task[t].wiped
    BY <2>2, <2>4 DEF Capturing
  <2> QED
    BY <1>0, <2>4, <2>5, <2>7, <2>8, ContinueInv
<1>4. CASE SubmitLookup(t)
  BY <1>1, <1>3, <1>4 DEF SubmitLookup
<1>5. CASE SubmitAnswer(t)
  BY <1>1, <1>3, <1>5 DEF SubmitAnswer
<1> QED
  BY <1>2, <1>4, <1>5

-----------------------------------------------------------------------------
(* Starting an operation.                                                    *)

\* The authority is free: whatever still runs has been revoked.
LEMMA EnterInv ==
  ASSUME AuthorityInv, NEW t \in Tasks, ~Running(t), active = {}, active' = {t},
         UNCHANGED <<channels, interruptions, registered, storage, late>>,
         signed' \in 0 .. MaxTransactions, posted' \subseteq Tx, phase' \in Phases, SessionTyped',
         NEW w \in Task, NEW ts \in {task, Wiped(task)}, task' = [ts EXCEPT ![t] = w],
         w.at \notin {"idle", "write", "readBack", "switch"}, w.stale = FALSE,
         "session" \notin late =>
            /\ ActiveRecord(w.record) /\ ActiveRecord(session.record)'
            /\ phase' = "authenticated" =>
                  session'.kind # "none" /\ session'.record.owner \in registered
            /\ w.op \in Bound /\ session'.kind # "none" =>
                  session'.record.owner = w.record.owner
  PROVE  AuthorityInv'
<1>1. /\ task' \in [Tasks -> Task] /\ task'[t] = w
      /\ \A u \in Tasks \ {t} : task'[u] = ts[u]
  BY Fields, WipedFields
<1>2. ASSUME NEW u \in Tasks \ {t}
      PROVE  /\ task'[u].at = task[u].at /\ task'[u].op = task[u].op
             /\ task'[u].record = task[u].record /\ task'[u].version = task[u].version
             /\ task'[u].stale = task[u].stale
             /\ task[u].wiped => task'[u].wiped
             /\ Running(u) => task[u].stale
  BY <1>1, WipedFields, Fields
<1>3. TypeOK'
  BY <1>1 DEF AuthorityInv, TypeOK, SessionTyped, storage
<1>4. BusyIsRunning'
  BY <1>1, <1>2 DEF BusyIsRunning, Running
<1>5. ASSUME NEW u \in Tasks PROVE Flags(u)'
  <2>1. CASE u = t
    BY <1>1, <2>1 DEF Flags
  <2>2. CASE u # t
    BY <1>2, <2>2, Fields DEF Flags, Running
  <2> QED  BY <2>1, <2>2
<1>6. ASSUME "session" \notin late' PROVE Sound'
  <2>1. Sound
    BY <1>6 DEF AuthorityInv
  <2>2. ASSUME NEW u \in Tasks PROVE ActiveRecord(task[u].record)'
    <3>1. task'[u].record \in {w.record, task[u].record}
      BY <1>1, <1>2
    <3> QED
      BY <1>6, <2>1, <3>1 DEF Sound, ActiveRecord
  <2>3. ASSUME NEW u \in Tasks \ {t} PROVE ~Acting(u)'
    BY <1>2, Fields DEF Flags, Acting, Running, Bound, Capturing
  <2> QED
    BY <1>1, <1>6, <2>1, <2>2, <2>3 DEF Sound, StoredActive, ActiveRecord, Acting, storage
<1> QED
  BY <1>3, <1>4, <1>5, <1>6 DEF AuthorityInv

\* Operations whose first await comes before they write anything.
LEMMA RequestedInv ==
  ASSUME AuthorityInv, NEW c \in Clients, NEW t \in Tasks, NEW op \in Ops, NEW r \in Record,
         NEW at \in Points \ {"idle", "write", "readBack", "switch"},
         Admit(c), Enter(t, op, at, r), UNCHANGED <<engine, storage, network, late>>,
         "session" \notin late => ActiveRecord(r),
         op \in Bound => session.record.owner = r.owner
  PROVE  AuthorityInv'
<1>1. PICK w \in Task : w = [IdleTask EXCEPT !.op = op, !.at = at, !.record = r]
  BY ConstantsTyped DEF Task
<1>2. w.op = op /\ w.at = at /\ w.record = r /\ w.stale = FALSE
  BY <1>1, ConstantsTyped DEF IdleTask, Task
<1>3. /\ signed' \in 0 .. MaxTransactions /\ posted' \subseteq Tx /\ phase' \in Phases
      /\ SessionTyped' /\ UNCHANGED <<channels, interruptions, registered>>
  BY Fields DEF Admit, AuthorityInv, TypeOK, SessionTyped, engine, network
<1>4. PICK ts \in {task, Wiped(task)} : ts = task
  OBVIOUS
<1>5. task' = [ts EXCEPT ![t] = w] /\ active' = {t} /\ active = {} /\ ~Running(t)
  BY <1>1, <1>4 DEF Enter, Admit
<1>6. "session" \notin late =>
        /\ ActiveRecord(w.record) /\ ActiveRecord(session.record)'
        /\ phase' = "authenticated" =>
              session'.kind # "none" /\ session'.record.owner \in registered
        /\ w.op \in Bound /\ session'.kind # "none" =>
              session'.record.owner = w.record.owner
  BY <1>2 DEF AuthorityInv, Sound, ActiveRecord, engine, network
<1> QED
  BY <1>2, <1>3, <1>5, <1>6, EnterInv

\* An operation that begins by rewriting the record of the session.
LEMMA RewriteInv ==
  ASSUME AuthorityInv, NEW c \in Clients, NEW t \in Tasks, Admit(c), ~Running(t),
         active' = {t}, NEW op \in {"submit", "promote"}, NEW next \in Record,
         NEW then \in {"post", "reply"},
         Reencrypt(t, [IdleTask EXCEPT !.op = op], next, then), session.kind # "none",
         signed' \in 0 .. MaxTransactions, UNCHANGED <<phase, storage, registered, late>>,
         next.owner = session.record.owner,
         "session" \notin late => ActiveRecord(next)
  PROVE  AuthorityInv'
<1>1. PICK w \in Task : w = [IdleTask EXCEPT !.op = op]
  BY ConstantsTyped DEF Task, Ops
<1>2. w.op = op /\ w.stale = FALSE /\ Reencrypt(t, w, next, then)
  BY <1>1, ConstantsTyped DEF IdleTask, Task
<1>3. PICK v \in Task :
         /\ task' = [task EXCEPT ![t] = v] /\ v.at \in {"answer", "reply", "envelope"}
         /\ v.stale = w.stale
         /\ \/ v.op = w.op /\ v.wiped = w.wiped /\ v.record = next
            \/ v.op = "unlock" /\ v.record = NoRecord
  BY <1>2, ReencryptFields
<1>4. /\ session'.kind = session.kind /\ session'.record \in {session.record, next}
      /\ SessionTyped' /\ posted' \subseteq Tx
  BY <1>2, ReencryptFields
<1>5. "session" \notin late =>
        /\ ActiveRecord(v.record) /\ ActiveRecord(session.record)'
        /\ phase' = "authenticated" =>
              session'.kind # "none" /\ session'.record.owner \in registered
        /\ v.op \in Bound /\ session'.kind # "none" =>
              session'.record.owner = v.record.owner
  BY <1>3, <1>4, NotActive DEF AuthorityInv, Sound, ActiveRecord, Bound
<1>6. /\ UNCHANGED <<channels, interruptions, registered, storage, late>> /\ phase' \in Phases
      /\ active = {} /\ v.at \notin {"idle", "write", "readBack", "switch"} /\ v.stale = FALSE
  BY <1>2, <1>3 DEF Admit, AuthorityInv, TypeOK
<1>7. PICK ts \in {task, Wiped(task)} : ts = task
  OBVIOUS
<1> QED
  BY <1>3, <1>4, <1>5, <1>6, <1>7, EnterInv

LEMMA RequestInv ==
  ASSUME AuthorityInv, NEW c \in Clients, NEW t \in Tasks, Request(c, t), UNCHANGED late
  PROVE  AuthorityInv'
<1>1. ASSUME NEW i \in Identities, StartProvision(c, t, i) PROVE AuthorityInv'
  BY <1>1, RequestedInv, ConstantsTyped, NotActive DEF StartProvision, Ops, Points, Bound
<1>2. ASSUME NEW i \in Identities, StartProvisionSessionOnly(c, t, i) PROVE AuthorityInv'
  BY <1>2, RequestedInv, ConstantsTyped, NotActive
     DEF StartProvisionSessionOnly, Ops, Points, Bound
<1>3. CASE StartUnlock(c, t)
  BY <1>3, RequestedInv, ConstantsTyped, NotActive DEF StartUnlock, Ops, Points, Bound
<1>4. CASE StartChangePassword(c, t)
  BY <1>4, RequestedInv, ConstantsTyped, NotActive DEF StartChangePassword, Ops, Points, Bound
<1>5. CASE StartVerify(c, t)
  <2>1. PICK r \in Record : r = Fresh(session.record.owner)
    BY Fields, ConstantsTyped DEF Fresh, Record
  <2>2. r.owner = session.record.owner /\ ActiveRecord(r)
    BY <2>1 DEF Fresh, ActiveRecord
  <2> QED
    BY <1>5, <2>1, <2>2, RequestedInv DEF StartVerify, Ops, Points
<1>6. CASE StartSubmit(c, t)
  <2>1. CASE session.record.pending # NoTx
    <3>1. Enter(t, "submit", "lookup", session.record)
      BY <1>6, <2>1 DEF StartSubmit, Enter
    <3> QED
      BY <1>6, <2>1, <3>1, Fields, RequestedInv
         DEF StartSubmit, Ops, Points, AuthorityInv, Sound, engine, network
  <2>2. CASE session.record.pending = NoTx
    <3>1. signed < MaxTransactions /\ signed' = signed + 1
      BY <1>6, <2>2 DEF StartSubmit
    <3>2. signed + 1 \in 0 .. MaxTransactions
      BY <3>1 DEF AuthorityInv, TypeOK
    <3>3. PICK tx \in Tx : tx = [signer |-> session.record.owner, id |-> signed + 1]
      BY <3>2, Fields DEF Tx, Record
    <3>4. PICK next : next = [session.record EXCEPT !.pending = tx]
      OBVIOUS
    <3>5. /\ next \in Record /\ next.owner = session.record.owner
          /\ next.status = session.record.status
      BY <3>4, Fields DEF Record
    <3>6. Reencrypt(t, [IdleTask EXCEPT !.op = "submit"], next, "post")
      BY <1>6, <2>2, <3>3, <3>4 DEF StartSubmit
    <3>7. "session" \notin late => ActiveRecord(next)
      BY <3>5 DEF AuthorityInv, Sound, ActiveRecord
    <3> QED
      BY <1>6, <3>1, <3>2, <3>5, <3>6, <3>7, RewriteInv DEF StartSubmit
  <2> QED
    BY <2>1, <2>2
<1>7. CASE StartPromote(c, t)
  <2>1. PICK next \in Record :
           Promoted(next) /\ Reencrypt(t, [IdleTask EXCEPT !.op = "promote"], next, "reply")
    BY <1>7 DEF StartPromote
  <2>2. next.owner = session.record.owner
    BY <2>1, Fields DEF Promoted, Record
  <2>3. "session" \notin late => ActiveRecord(next)
    BY <2>1, <2>2, Fields DEF Promoted, Record, AuthorityInv, Sound, ActiveRecord
  <2> QED
    BY <1>7, <2>1, <2>2, <2>3, RewriteInv DEF StartPromote, AuthorityInv, TypeOK
<1>8. CASE StartRemove(c, t)
  <2>1. PICK w \in Task :
           w = [IdleTask EXCEPT !.op = "remove",
                  !.at = IF session.kind = "volatile" THEN "reply" ELSE "tombstone"]
    BY ConstantsTyped DEF Task, Ops, Points
  <2>2. w.record = NoRecord /\ w.at \in {"reply", "tombstone"} /\ w.op = "remove"
        /\ w.stale = FALSE
    BY <2>1, ConstantsTyped DEF IdleTask, Task
  <2>3. PICK ts \in {task, Wiped(task)} : ts = Wiped(task)
    OBVIOUS
  <2>4. task' = [ts EXCEPT ![t] = w]
    BY <1>8, <2>1, <2>3 DEF StartRemove
  <2>5. /\ active = {} /\ active' = {t} /\ ~Running(t)
        /\ UNCHANGED <<channels, interruptions, registered, storage, late>>
        /\ signed' \in 0 .. MaxTransactions /\ posted' \subseteq Tx
    BY <1>8 DEF StartRemove, Admit, AuthorityInv, TypeOK, storage, network
  <2>6. /\ phase' \in Phases /\ SessionTyped' /\ phase' # "authenticated"
        /\ ActiveRecord(w.record) /\ ActiveRecord(session.record)'
    BY <1>8, <2>2, WipeTyped, NotActive DEF StartRemove, ActiveRecord, NoRecord
  <2> QED
    BY <2>2, <2>4, <2>5, <2>6, EnterInv DEF Bound
<1> QED
  BY <1>1, <1>2, <1>3, <1>4, <1>5, <1>6, <1>7, <1>8 DEF Request

LEMMA NextInv == AuthorityInv /\ [Next]_vars => AuthorityInv'
<1> SUFFICES ASSUME AuthorityInv, [Next]_vars PROVE AuthorityInv'
  OBVIOUS
<1>1. CASE UNCHANGED vars
  BY <1>1 DEF vars, client, engine, storage, network, AuthorityInv, TypeOK, BusyIsRunning,
     Flags, Running, Sound, StoredActive, ActiveRecord, Acting
<1>2. ASSUME NEW c \in Clients, NEW t \in Tasks, Request(c, t), UNCHANGED late
      PROVE  AuthorityInv'
  BY <1>2, RequestInv
<1>3. ASSUME NEW t \in Tasks, Continue(t), RecordLate(t) PROVE AuthorityInv'
  BY <1>3, ReplyInv, MoveInv, StorageInv, EngineInv, RecordStepsInv DEF Continue
<1>4. ASSUME NEW c \in Clients, UNCHANGED late,
             Handshake(c) \/ LockAll(c) \/ Cancel(c) \/ Lifecycle(c)
      PROVE  AuthorityInv'
  BY <1>4, TabInv
<1> QED
  BY <1>1, <1>2, <1>3, <1>4, WorkerDeathInv, IndexInv DEF Next

LEMMA Always == Spec => []AuthorityInv
BY InitInv, NextInv, PTL DEF Spec

\* The worker and its vault keep their types, whatever a revoked operation
\* still writes.
THEOREM AuthorityTypes == Spec => []TypeOK
<1>1. AuthorityInv => TypeOK
  BY DEF AuthorityInv
<1> QED
  BY <1>1, Always, PTL

\* The authority is held by the one operation that runs and was not revoked,
\* and by nobody else: it is never lost, and never given away twice.
THEOREM BusyTheorem == Spec => []BusyIsRunning
<1>1. AuthorityInv => BusyIsRunning
  BY DEF AuthorityInv
<1> QED
  BY <1>1, Always, PTL

\* Whatever locks, cancels, crashes and overlaps, and whichever user's vault
\* is opened meanwhile: until a revoked operation has installed a session, the
\* engine is authenticated only with the keys of an indexed identity.
THEOREM VerifiedTheorem == Spec => []AuthenticatedIsVerified
<1>1. AuthorityInv => AuthenticatedIsVerified
  BY DEF AuthorityInv, Sound, AuthenticatedIsVerified
<1> QED
  BY <1>1, Always, PTL

\* On the same condition no slot and no session ever holds an Active record of
\* an identity the network has not indexed.
THEOREM PromotionTheorem == Spec => []ActiveIsRegistered
<1>1. AuthorityInv => ActiveIsRegistered
  BY DEF AuthorityInv, Sound, StoredActive, ActiveIsRegistered
<1> QED
  BY <1>1, Always, PTL

-----------------------------------------------------------------------------
(* Generations.                                                              *)

\* Only the pointer switch and the removal of the journal touch the pointer.
LEMMA JournalSteps ==
  ASSUME [Next]_vars, journal' # journal
  PROVE  \E t \in Tasks : SwitchPointer(t) \/ DeleteJournal(t)
<1> USE DEF storage
<1>1. ASSUME NEW t \in Tasks, Continue(t), ~SwitchPointer(t), ~DeleteJournal(t)
      PROVE  UNCHANGED journal
  BY <1>1 DEF Continue, Reply, ReadEnvelope, Encrypt, ReadState, StageCandidate, ReadBack,
     Sealed, ProvisionDerived, ProvisionInstall, Probe, InstallVolatile, UnlockRead,
     WrongPassword, UnlockInstall, Rewrap, RewrapEncrypt, ChangePasswordDone, VerifyAnswer,
     SubmitLookup, SubmitAnswer, PersistTombstone, DeleteSlots, VerifyAbsence, ClearTombstone
<1>2. ASSUME NEW c \in Clients, NEW t \in Tasks, Request(c, t) PROVE UNCHANGED journal
  BY <1>2 DEF Request, StartProvision, StartProvisionSessionOnly, StartUnlock,
     StartChangePassword, StartVerify, StartSubmit, StartPromote, StartRemove
<1>3. ASSUME NEW c \in Clients,
             Handshake(c) \/ LockAll(c) \/ Cancel(c) \/ Lifecycle(c)
      PROVE  UNCHANGED journal
  BY <1>3 DEF Handshake, LockAll, Cancel, Lifecycle, Revoke
<1>4. CASE WorkerDeath \/ Index \/ UNCHANGED vars
  BY <1>4 DEF WorkerDeath, Index, vars
<1> QED
  BY <1>1, <1>2, <1>3, <1>4 DEF Next

LEMMA RewindStep ==
  AuthorityInv /\ [Next]_vars =>
    (journal'.generation < journal.generation => journal'.generation = 0)
<1> SUFFICES ASSUME AuthorityInv, [Next]_vars, journal'.generation < journal.generation
             PROVE  journal'.generation = 0
  OBVIOUS
<1>0. journal.generation \in Nat
  BY DEF AuthorityInv, TypeOK
<1>1. PICK t \in Tasks : SwitchPointer(t) \/ DeleteJournal(t)
  BY <1>0, JournalSteps
<1>2. CASE DeleteJournal(t)
  BY <1>2 DEF DeleteJournal, NoJournal
<1>3. CASE SwitchPointer(t)
  <2>1. \/ journal.generation = task[t].version /\ journal'.generation = task[t].version + 1
        \/ journal' = journal
    BY <1>3 DEF SwitchPointer, Switched
  <2> QED
    BY <1>0, <2>1
<1> QED
  BY <1>1, <1>2, <1>3

\* However commits overlap between reading the pointer, writing a slot and
\* switching, the vault never goes back to an older generation.
THEOREM GenerationTheorem == Spec => NeverRewound
BY Always, RewindStep, PTL DEF Spec, NeverRewound
=============================================================================
