-------------------- MODULE BrowserAuthorityRetainedProofs --------------------
(* What the worker promises of a registration, whatever locks, cancels and   *)
(* deaths meet the operations, as long as no revoked operation writes: no    *)
(* transaction is posted before the vault holds it, and one that was posted  *)
(* stays there until the identity is Active or removed.  For any number of   *)
(* tabs, users, operations, generations and transactions; the invariant says *)
(* what the one live operation knows of the vault.                           *)
EXTENDS BrowserAuthorityProofs

-----------------------------------------------------------------------------
\* The operation that holds the authority.
Live(t) == Running(t) /\ ~task[t].stale

\* The points between which a rewrite carries the record it will commit.
Carrying == {"rewrap", "envelope", "encrypt", "stage", "write", "readBack", "switch"}
Removing == {"tombstone", "delete", "deleteJournal", "verifyAbsence", "clear"}

\* Committing record r forgets no transaction the vault retains.
Keeps(r) ==
    \/ r.status = "Active"
    \/ r.pending = Vault.record.pending
    \/ Vault.record.pending = NoTx

\* What the live operation knows of the vault.
Holds(t) ==
    LET w == task[t] IN
    /\ w.wiped => session.kind = "none" /\ w.op \in Capturing
    /\ w.then = "post" => w.op = "submit"
    /\ w.op = "submit" /\ w.at # "reply" => w.record.pending # NoTx
    /\ w.at = "derive" /\ w.op # "provision" => w.record = Vault.record
    /\ w.op = "provision" => w.version = 0
    /\ w.at \in {"rewrap", "envelope", "encrypt", "answer"} => w.op # "provision"
    /\ w.at = "answer" => w.op = "submit"
    /\ w.at \in Carrying /\ w.op # "provision" => Keeps(w.record)
    /\ w.at \in {"write", "readBack", "switch"} => w.slot # journal.active
    /\ w.at = "switch" => slots[w.slot] = Candidate(t)
    /\ w.at = "sealed" => Vault.record = w.record
    /\ session.kind = "durable" /\ (w.at = "answer" \/ (w.op = "submit" /\ w.at = "lookup")) =>
          w.record.pending = Vault.record.pending
    /\ w.at \in Removing => session.kind = "none"
    /\ w.at = "deleteJournal" => slots = [key \in SlotKeys |-> NoSlot]
    /\ w.op = "changePassword" /\ w.at # "reply" => session.kind # "volatile"

\* An open session of a stored identity is what the vault holds, except
\* between the commit of a rewrite and its adoption.
Adopted ==
    session.kind = "durable" /\ (\A t \in Tasks : Live(t) => task[t].at # "sealed") =>
        session.record = Vault.record

Kept ==
    /\ NoTx \notin posted
    /\ journal.generation = 0 => Vault.record.pending = NoTx

RetainedInv ==
    late = {} => Kept /\ Adopted /\ \A t \in Tasks : Live(t) => Holds(t)

-----------------------------------------------------------------------------
(* The live operation moves.                                                 *)

\* It is the only one.
LEMMA OnlyLive ==
  ASSUME AuthorityInv, RetainedInv, late = {}, NEW t \in Tasks, Live(t)
  PROVE  /\ active = {t} /\ Holds(t) /\ Kept
         /\ session.kind = "durable" /\ task[t].at # "sealed" => session.record = Vault.record
<1>1. active = {t}
  BY DEF AuthorityInv, BusyIsRunning, Live
<1>2. \A u \in Tasks : Live(u) => u = t
  BY <1>1 DEF AuthorityInv, BusyIsRunning, Live
<1> QED
  BY <1>1, <1>2 DEF RetainedInv, Adopted

\* Of a free authority: nothing is live.
LEMMA NoneLive ==
  ASSUME AuthorityInv, RetainedInv, late = {}, active = {}
  PROVE  Kept /\ (session.kind = "durable" => session.record = Vault.record)
<1>1. \A u \in Tasks : ~Live(u)
  BY DEF AuthorityInv, BusyIsRunning, Live
<1> QED
  BY <1>1 DEF RetainedInv, Adopted

LEMMA OneMoves ==
  ASSUME AuthorityInv', NEW t \in Tasks, active' \subseteq {t}, Kept', Holds(t)',
         active' = {t} \/ task'[t].at # "sealed",
         session'.kind = "durable" /\ task'[t].at # "sealed" => session'.record = Vault'.record
  PROVE  RetainedInv'
<1>1. \A u \in Tasks : Live(u)' <=> u \in active'
  BY DEF AuthorityInv, BusyIsRunning, Live
<1>2. Adopted'
  <2> SUFFICES ASSUME session'.kind = "durable",
                      \A u \in Tasks : Live(u)' => task'[u].at # "sealed"
               PROVE  session'.record = Vault'.record
    BY DEF Adopted
  <2>1. task'[t].at # "sealed"
    BY <1>1
  <2> QED  BY <2>1
<1>3. \A u \in Tasks : Live(u)' => Holds(u)'
  BY <1>1
<1> QED
  BY <1>2, <1>3 DEF RetainedInv

\* The fields of a continuation that goes on as it is, and of one that ends.
LEMMA GoneTo ==
  ASSUME AuthorityInv, NEW t \in Tasks, NEW at, Goto(t, at)
  PROVE  /\ task'[t].at = at /\ task'[t].op = task[t].op /\ task'[t].record = task[t].record
         /\ task'[t].version = task[t].version /\ task'[t].then = task[t].then
         /\ task'[t].wiped = task[t].wiped /\ task'[t].slot = task[t].slot
BY Fields DEF Goto, Task

LEMMA EndedFields ==
  ASSUME AuthorityInv, NEW t \in Tasks, task'[t] = Ended(t)
  PROVE  /\ task'[t].at = "reply" /\ Holds(t)'
<1>1. /\ task'[t].at = "reply" /\ task'[t].op = "unlock" /\ task'[t].then = "reply"
      /\ task'[t].wiped = FALSE
  BY DEF Ended, IdleTask
<1> QED
  BY <1>1 DEF Holds, Carrying, Removing

\* It ends: nothing is left to know, if the session is in order.
LEMMA FinishStep ==
  ASSUME AuthorityInv, AuthorityInv', NEW t \in Tasks, Finish(t), active' \subseteq {t}, Kept',
         session'.kind = "durable" => session'.record = Vault'.record
  PROVE  RetainedInv'
<1>1. task'[t] = Ended(t)
  BY Fields DEF Finish
<1> QED
  BY <1>1, EndedFields, OneMoves

\* Nothing but the phase and the tombstone is written beside the continuation.
LEMMA QuietFacts ==
  ASSUME Kept, UNCHANGED <<session, journal, slots, posted>>
  PROVE  Kept' /\ Vault' = Vault
BY DEF Kept, Vault

\* The record is read, or a point is passed, and nothing is written.
LEMMA PassRetained ==
  ASSUME AuthorityInv, AuthorityInv', RetainedInv, late = {}, NEW t \in Tasks, Live(t),
         \/ ReadEnvelope(t) \/ Encrypt(t) \/ ReadState(t) \/ ReadBack(t)
         \/ ProvisionDerived(t) \/ Probe(t) \/ UnlockRead(t) \/ WrongPassword(t)
         \/ Rewrap(t) \/ RewrapEncrypt(t) \/ VerifyAbsence(t)
  PROVE  RetainedInv'
<1>0. task[t].at # "sealed" /\ UNCHANGED <<client, engine, storage, network>>
  BY DEF ReadEnvelope, Encrypt, ReadState, ReadBack, ProvisionDerived, Probe, UnlockRead,
     WrongPassword, Rewrap, RewrapEncrypt, VerifyAbsence
<1>1. /\ Holds(t) /\ Kept' /\ Vault' = Vault /\ active' = {t}
      /\ UNCHANGED <<session, journal, slots, posted>>
      /\ session.kind = "durable" => session.record = Vault.record
  BY <1>0, OnlyLive, QuietFacts DEF client, engine, storage, network
<1>2. CASE Finish(t)
  BY <1>1, <1>2, FinishStep
<1>3. ASSUME Holds(t)' PROVE RetainedInv'
  BY <1>1, <1>3, OneMoves
<1>4. ASSUME NEW at, Goto(t, at),
             \/ task[t].at = "encrypt" /\ at = "stage" /\ Encrypt(t)
             \/ task[t].at = "readBack" /\ at = "switch" /\ slots[task[t].slot] = Candidate(t)
             \/ task[t].at = "derive" /\ at = "stage" /\ task[t].op = "provision"
             \/ task[t].at = "probe" /\ at = "install"
             \/ task[t].at = "verifyAbsence" /\ at = "clear"
      PROVE  RetainedInv'
  <2>1. Candidate(t)' = Candidate(t)
    BY <1>4, GoneTo DEF Candidate
  <2>2. Holds(t)'
    BY <1>1, <1>4, <2>1, GoneTo DEF Holds, Keeps, Carrying, Removing, Encrypt
  <2> QED  BY <1>3, <2>2
<1>5. CASE Encrypt(t) \/ ReadBack(t) \/ ProvisionDerived(t) \/ Probe(t) \/ VerifyAbsence(t)
  BY <1>2, <1>4, <1>5 DEF Encrypt, ReadBack, ProvisionDerived, Probe, VerifyAbsence
<1>6. CASE WrongPassword(t)
  BY <1>2, <1>6 DEF WrongPassword
<1>7. ASSUME task' = [task EXCEPT ![t].version = Vault.version, ![t].at = "encrypt"],
             task[t].at \in {"envelope", "rewrap"}
      PROVE  RetainedInv'
  <2>1. /\ task'[t].at = "encrypt" /\ task'[t].op = task[t].op
        /\ task'[t].record = task[t].record
        /\ task'[t].then = task[t].then /\ task'[t].wiped = task[t].wiped
    BY <1>7, Fields DEF Task
  <2>2. Holds(t)'
    BY <1>1, <1>7, <2>1 DEF Holds, Keeps, Carrying, Removing
  <2> QED  BY <1>3, <2>2
<1>8. CASE ReadEnvelope(t) \/ Rewrap(t)
  BY <1>2, <1>7, <1>8 DEF ReadEnvelope, Rewrap
<1>9. CASE ReadState(t)
  <2>1. CASE task' = [task EXCEPT ![t].at = "write", ![t].slot = Other(journal.active)]
    <3>1. /\ task'[t].at = "write" /\ task'[t].op = task[t].op
          /\ task'[t].record = task[t].record /\ task'[t].version = task[t].version
          /\ task'[t].then = task[t].then /\ task'[t].wiped = task[t].wiped
          /\ task'[t].slot = Other(journal.active)
      BY <2>1, Fields DEF Task
    <3>2. task'[t].slot # journal'.active
      BY <1>1, <3>1 DEF Other
    <3>3. Holds(t)'
      BY <1>1, <1>9, <3>1, <3>2 DEF ReadState, Holds, Keeps, Carrying, Removing
    <3> QED  BY <1>3, <3>3
  <2> QED  BY <1>2, <1>9, <2>1 DEF ReadState
<1>10. CASE UnlockRead(t)
  <2>1. CASE Readable
    <3>1. /\ task'[t].at = "derive" /\ task'[t].op = task[t].op
          /\ task'[t].record = Vault.record
          /\ task'[t].then = task[t].then /\ task'[t].wiped = task[t].wiped
      BY <1>10, <2>1, Fields DEF UnlockRead, Task
    <3>2. Holds(t)'
      BY <1>1, <1>10, <3>1 DEF UnlockRead, Holds, Carrying, Removing
    <3> QED  BY <1>3, <3>2
  <2> QED  BY <1>2, <1>10, <2>1 DEF UnlockRead
<1>11. CASE RewrapEncrypt(t)
  <2>1. CASE session.kind # "none"
    <3>1. /\ task'[t].at = "stage" /\ task'[t].op = "changePassword"
          /\ task'[t].record = session.record
          /\ task'[t].then = task[t].then /\ task'[t].wiped = task[t].wiped
      BY <1>11, <2>1, Fields DEF RewrapEncrypt, Task
    <3>2. session.kind = "durable"
      BY <1>1, <1>11, <2>1, Fields DEF RewrapEncrypt, Holds, SessionTyped
    <3>3. Holds(t)'
      BY <1>1, <1>11, <3>1, <3>2 DEF RewrapEncrypt, Holds, Keeps, Carrying, Removing
    <3> QED  BY <1>3, <3>3
  <2> QED  BY <1>2, <1>11, <2>1 DEF RewrapEncrypt
<1> QED  BY <1>5, <1>6, <1>8, <1>9, <1>10, <1>11

LEMMA ReplyRetained ==
  ASSUME AuthorityInv, AuthorityInv', RetainedInv, late = {}, NEW t \in Tasks, Live(t), Reply(t)
  PROVE  RetainedInv'
<1>1. task'[t] = IdleTask /\ task[t].at = "reply" /\ active' \subseteq {t}
  BY Fields, OnlyLive DEF Reply
<1>2. task'[t].at = "idle" /\ Holds(t)'
  BY <1>1 DEF Holds, IdleTask, Carrying, Removing
<1>3. Kept' /\ Vault' = Vault /\ session' = session
  BY OnlyLive, QuietFacts DEF Reply, engine, storage, network
<1> QED  BY <1>1, <1>2, <1>3, OnlyLive, OneMoves

LEMMA StorageRetained ==
  ASSUME AuthorityInv, AuthorityInv', RetainedInv, late = {}, NEW t \in Tasks, Live(t),
         \/ StageCandidate(t) \/ SwitchPointer(t) \/ PersistTombstone(t)
         \/ DeleteSlots(t) \/ DeleteJournal(t) \/ ClearTombstone(t)
  PROVE  RetainedInv'
<1>0. /\ task[t].at # "sealed" /\ UNCHANGED <<client, session, posted>>
  BY DEF StageCandidate, SwitchPointer, PersistTombstone, DeleteSlots, DeleteJournal,
     ClearTombstone, engine, network
<1>1. /\ Holds(t) /\ Kept /\ active' = {t}
      /\ session.kind = "durable" => session.record = Vault.record
  BY <1>0, OnlyLive DEF client
<1>2. ASSUME UNCHANGED <<journal, Vault>> PROVE Kept'
  BY <1>0, <1>1, <1>2 DEF Kept
<1>3. CASE StageCandidate(t)
  <2>1. CASE slots' = [slots EXCEPT ![task[t].slot] = Candidate(t)] /\ Goto(t, "readBack")
    <3>1. task[t].slot # journal.active /\ journal' = journal
      BY <1>1, <1>3 DEF StageCandidate, Holds
    <3>2. Vault' = Vault
      BY <2>1, <3>1, Fields DEF Vault, StorageTyped
    <3>3. Holds(t)'
      BY <1>0, <1>1, <1>3, <2>1, <3>1, <3>2, GoneTo
         DEF StageCandidate, Holds, Keeps, Carrying, Removing
    <3>4. task'[t].at = "readBack"
      BY <2>1, GoneTo
    <3> QED  BY <1>0, <1>1, <1>2, <3>1, <3>2, <3>3, <3>4, OneMoves
  <2>2. CASE Finish(t) /\ UNCHANGED slots
    BY <1>0, <1>1, <1>2, <1>3, <2>2, FinishStep DEF StageCandidate, Vault
  <2> QED  BY <1>3, <2>1, <2>2 DEF StageCandidate
<1>4. CASE SwitchPointer(t)
  <2>1. CASE journal' = Switched(t) /\ Landed(t)
    <3>1. /\ task'[t].at = "sealed" /\ task'[t].op = task[t].op
          /\ task'[t].record = task[t].record /\ task'[t].version = 0
          /\ task'[t].then = task[t].then /\ task'[t].wiped = task[t].wiped
      BY <2>1, Fields DEF Landed, Task
    <3>2. Vault'.record = task[t].record
      BY <1>1, <1>4, <2>1 DEF SwitchPointer, Holds, Candidate, Switched, Vault
    <3>3. journal'.generation # 0
      BY <2>1, Fields DEF Switched
    <3>4. Kept'
      BY <1>0, <1>1, <3>3 DEF Kept
    <3>5. Holds(t)'
      BY <1>0, <1>1, <1>4, <3>1, <3>2 DEF SwitchPointer, Holds, Carrying, Removing
    <3> QED  BY <1>1, <3>1, <3>4, <3>5, OneMoves
  <2>2. CASE Finish(t) /\ UNCHANGED journal
    BY <1>0, <1>1, <1>2, <1>4, <2>2, FinishStep DEF SwitchPointer, Vault
  <2> QED  BY <1>4, <2>1, <2>2 DEF SwitchPointer
<1>5. CASE PersistTombstone(t)
  <2>1. Vault' = Vault /\ journal' = journal /\ slots' = slots /\ Goto(t, "delete")
    BY <1>5 DEF PersistTombstone, Vault
  <2>2. Holds(t)'
    BY <1>0, <1>1, <1>5, <2>1, GoneTo DEF PersistTombstone, Holds, Carrying, Removing
  <2> QED  BY <1>0, <1>1, <1>2, <2>1, <2>2, GoneTo, OneMoves
<1>6. CASE DeleteSlots(t)
  <2>1. /\ Vault'.record = NoRecord /\ Goto(t, "deleteJournal") /\ session.kind = "none"
        /\ slots' = [key \in SlotKeys |-> NoSlot]
    BY <1>1, <1>6, Fields DEF DeleteSlots, Holds, Removing, Vault, NoSlot, StorageTyped
  <2>2. Kept'
    BY <1>0, <1>1, <2>1 DEF Kept, NoRecord
  <2>3. Holds(t)'
    BY <1>0, <1>1, <1>6, <2>1, GoneTo DEF DeleteSlots, Holds, Carrying, Removing
  <2> QED  BY <1>0, <1>1, <2>1, <2>2, <2>3, OneMoves
<1>7. CASE DeleteJournal(t)
  <2>1. /\ slots' = [key \in SlotKeys |-> NoSlot] /\ Goto(t, "verifyAbsence")
        /\ session.kind = "none" /\ journal' = NoJournal
    BY <1>1, <1>7 DEF DeleteJournal, Holds, Removing
  <2>2. Vault'.record = NoRecord
    BY <2>1 DEF Vault, NoJournal, NoSlot, SlotKeys
  <2>3. Kept'
    BY <1>0, <1>1, <2>2 DEF Kept, NoRecord
  <2>4. Holds(t)'
    BY <1>0, <1>1, <1>7, <2>1, GoneTo DEF DeleteJournal, Holds, Carrying, Removing
  <2> QED  BY <1>0, <1>1, <2>1, <2>3, <2>4, OneMoves
<1>8. CASE ClearTombstone(t)
  BY <1>0, <1>1, <1>2, <1>8, FinishStep DEF ClearTombstone, Vault
<1> QED  BY <1>3, <1>4, <1>5, <1>6, <1>7, <1>8

LEMMA EngineRetained ==
  ASSUME AuthorityInv, AuthorityInv', RetainedInv, late = {}, NEW t \in Tasks, Live(t),
         \/ ProvisionInstall(t) \/ InstallVolatile(t) \/ UnlockInstall(t)
         \/ ChangePasswordDone(t) \/ VerifyAnswer(t)
  PROVE  RetainedInv'
<1>0. UNCHANGED <<client, journal, slots, posted>>
  BY DEF ProvisionInstall, InstallVolatile, UnlockInstall, ChangePasswordDone, VerifyAnswer,
     storage, network
<1>1. /\ Holds(t) /\ Kept' /\ active' = {t} /\ Vault' = Vault
      /\ task[t].at # "sealed" /\ session.kind = "durable" => session.record = Vault.record
  BY <1>0, OnlyLive DEF Kept, Vault, client
<1>2. CASE ProvisionInstall(t)
  <2>1. Finish(t) /\ session'.record = Vault'.record
    BY <1>1, <1>2 DEF ProvisionInstall, Holds
  <2> QED  BY <1>1, <2>1, FinishStep
<1>3. CASE InstallVolatile(t)
  <2>1. Finish(t) /\ (session' = session \/ session'.kind = "volatile") /\ task[t].at = "install"
    BY <1>3 DEF InstallVolatile, engine
  <2> QED  BY <1>1, <2>1, FinishStep
<1>4. CASE UnlockInstall(t)
  <2>1. /\ task[t].at = "derive" /\ task[t].op \in {"unlock", "changePassword"}
        /\ session'.kind = "durable"
        /\ session'.record = Vault.record /\ task[t].record = Vault.record
    BY <1>1, <1>4 DEF UnlockInstall, Holds
  <2>2. CASE Finish(t)
    BY <1>1, <2>1, <2>2, FinishStep
  <2>3. CASE Goto(t, "rewrap") /\ task[t].op # "unlock"
    <3>1. ~task'[t].wiped
      <4>1. task[t].op \notin Capturing
        BY <2>1 DEF Capturing
      <4> QED  BY <1>1, <2>3, <4>1, GoneTo DEF Holds
    <3>2. Holds(t)'
      BY <1>0, <1>1, <2>1, <2>3, <3>1, GoneTo DEF Holds, Keeps, Carrying, Removing
    <3>3. task'[t].at = "rewrap"
      BY <2>3, GoneTo
    <3> QED  BY <1>1, <2>1, <3>2, <3>3, OneMoves
  <2> QED  BY <1>4, <2>2, <2>3 DEF UnlockInstall
<1>5. CASE ChangePasswordDone(t)
  <2>1. task'[t] = Ended(t) /\ session'.kind = "none"
    BY <1>5, WipedFields DEF ChangePasswordDone, WipeEngine, NoSession
  <2> QED  BY <1>1, <2>1, EndedFields, OneMoves
<1>6. CASE VerifyAnswer(t)
  <2>1. Finish(t) /\ session' = session /\ task[t].at = "lookup"
    BY <1>6 DEF VerifyAnswer
  <2> QED  BY <1>1, <2>1, FinishStep
<1> QED  BY <1>2, <1>3, <1>4, <1>5, <1>6

-----------------------------------------------------------------------------
(* Rewriting the record.                                                     *)

\* A record that keeps the retained transaction may be rewritten.
LEMMA ReencryptRetained ==
  ASSUME AuthorityInv, AuthorityInv', NEW t \in Tasks,
         NEW w \in Task, NEW next \in Record, NEW then \in {"post", "reply"},
         Reencrypt(t, w, next, then), session.kind # "none", Kept,
         ~w.wiped, w.op \in {"submit", "promote"}, w.then = "post" => w.op = "submit",
         then = "post" => w.op = "submit",
         w.op = "submit" => next.pending # NoTx,
         session.kind = "durable" => Keeps(next) /\ session.record = Vault.record,
         active' = {t}, UNCHANGED storage
  PROVE  RetainedInv'
<1>0. /\ UNCHANGED <<journal, slots>> /\ Vault' = Vault /\ task \in [Tasks -> Task]
      /\ session.kind \in {"durable", "volatile"}
  BY Fields DEF storage, Vault, SessionTyped
<1>1. CASE session.kind = "volatile"
  <2>1. session'.kind = "volatile" /\ Kept'
    BY <1>0, <1>1, Fields DEF Reencrypt, Kept, SessionTyped
  <2>2. CASE then = "post"
    <3>1. /\ task'[t].at = "answer" /\ task'[t].op = w.op /\ task'[t].record = next
          /\ task'[t].then = w.then /\ task'[t].wiped = w.wiped
      <4>1. task' = [task EXCEPT ![t] = [w EXCEPT !.record = next, !.at = "answer"]]
        BY <1>1, <2>2 DEF Reencrypt
      <4>2. task'[t] = [w EXCEPT !.record = next, !.at = "answer"]
        BY <1>0, <4>1
      <4> QED  BY <4>2 DEF Task
    <3>2. Holds(t)'
      BY <2>1, <2>2, <3>1 DEF Holds, Carrying, Removing
    <3> QED  BY <2>1, <3>1, <3>2, OneMoves
  <2>3. CASE then # "post"
    <3>1. /\ task'[t].at = "reply" /\ task'[t].op = "unlock"
          /\ task'[t].then = "reply" /\ task'[t].wiped = FALSE
      BY <1>0, <1>1, <2>3 DEF Reencrypt, IdleTask
    <3>2. Holds(t)'
      BY <2>1, <3>1 DEF Holds, Carrying, Removing
    <3> QED  BY <2>1, <3>1, <3>2, OneMoves
  <2> QED  BY <2>2, <2>3
<1>2. CASE session.kind = "durable"
  <2>1. session' = session /\ Kept'
    BY <1>0, <1>2 DEF Reencrypt, Kept
  <2>2. /\ task'[t].at = "envelope" /\ task'[t].op = w.op /\ task'[t].record = next
        /\ task'[t].then = then /\ task'[t].wiped = w.wiped
    BY <1>0, <1>2 DEF Reencrypt, Task
  <2>3. Keeps(next)'
    BY <1>0, <1>2 DEF Keeps
  <2>4. Holds(t)'
    BY <2>1, <2>2, <2>3 DEF Holds, Keeps, Removing
  <2> QED  BY <1>0, <1>2, <2>1, <2>2, <2>4, OneMoves
<1> QED  BY <1>0, <1>1, <1>2

LEMMA RecordRetained ==
  ASSUME AuthorityInv, AuthorityInv', RetainedInv, late = {}, NEW t \in Tasks, Live(t),
         Sealed(t) \/ SubmitLookup(t) \/ SubmitAnswer(t)
  PROVE  RetainedInv'
<1>0. UNCHANGED <<client, storage>> /\ UNCHANGED <<journal, slots>> /\ Vault' = Vault
  BY DEF Sealed, SubmitLookup, SubmitAnswer, storage, Vault
<1>1. /\ Holds(t) /\ Kept /\ active' = {t}
      /\ task[t].at # "sealed" /\ session.kind = "durable" => session.record = Vault.record
  BY <1>0, OnlyLive DEF client
<1>2. CASE Sealed(t)
  <2>1. CASE task[t].wiped \/ session.kind = "none"
    <3>1. Finish(t) /\ session' = session /\ session.kind = "none" /\ posted' = posted
      BY <1>1, <1>2, <2>1 DEF Sealed, Holds
    <3>2. Kept'
      BY <1>0, <1>1, <3>1 DEF Kept
    <3> QED  BY <1>1, <3>1, <3>2, FinishStep
  <2>2. CASE ~(task[t].wiped \/ session.kind = "none")
    <3>1. session'.record = Vault'.record
      BY <1>0, <1>1, <1>2, <2>2, Fields DEF Sealed, Holds, SessionTyped
    <3>2. CASE task[t].then = "post"
      <4>1. /\ task'[t].at = "answer" /\ task'[t].op = task[t].op
            /\ task'[t].record = task[t].record
            /\ task'[t].then = task[t].then /\ task'[t].wiped = task[t].wiped
        BY <1>2, <2>2, <3>2, GoneTo DEF Sealed
      <4>2. posted' = posted \cup {task[t].record.pending} /\ task[t].record.pending # NoTx
        BY <1>1, <1>2, <2>2, <3>2 DEF Sealed, Holds
      <4>3. Kept'
        BY <1>0, <1>1, <4>2 DEF Kept
      <4>4. Holds(t)'
        BY <1>0, <1>1, <1>2, <2>2, <3>2, <4>1 DEF Sealed, Holds, Carrying, Removing
      <4> QED  BY <1>1, <3>1, <4>1, <4>3, <4>4, OneMoves
    <3>3. CASE task[t].then # "post"
      <4>1. Finish(t) /\ posted' = posted
        BY <1>2, <2>2, <3>3 DEF Sealed
      <4>2. Kept'
        BY <1>0, <1>1, <4>1 DEF Kept
      <4> QED  BY <1>1, <3>1, <4>1, <4>2, FinishStep
    <3> QED  BY <3>2, <3>3
  <2> QED  BY <2>1, <2>2
<1>3. ASSUME Finish(t), UNCHANGED <<session, posted>>, task[t].at # "sealed"
      PROVE  RetainedInv'
  <2>1. Kept'
    BY <1>0, <1>1, <1>3 DEF Kept
  <2> QED  BY <1>0, <1>1, <1>3, <2>1, FinishStep
\* The transaction carried is the retained one: retaining it again is safe.
<1>4. PICK next : next = [session.record EXCEPT !.pending = task[t].record.pending]
  OBVIOUS
<1>5. ASSUME NEW then \in {"post", "reply"}, Reencrypt(t, task[t], next, then),
             task[t].op = "submit", task[t].at \in {"lookup", "answer"},
             session.kind # "none"
      PROVE  RetainedInv'
  <2>1. next \in Record /\ next.pending = task[t].record.pending
    BY <1>4, Fields DEF Record
  <2>2. next.pending # NoTx /\ ~task[t].wiped
    BY <1>1, <1>5, <2>1 DEF Holds
  <2>3. session.kind = "durable" => Keeps(next) /\ session.record = Vault.record
    BY <1>1, <1>5, <2>1 DEF Holds, Keeps
  <2>4. PICK w \in Task : w = task[t]
    BY Fields
  <2>5. Reencrypt(t, w, next, then) /\ ~w.wiped /\ w.op = "submit"
    BY <1>5, <2>2, <2>4
  <2> QED  BY <1>0, <1>1, <1>5, <2>1, <2>2, <2>3, <2>5, ReencryptRetained
<1>6. CASE SubmitLookup(t)
  BY <1>3, <1>4, <1>5, <1>6 DEF SubmitLookup
<1>7. CASE SubmitAnswer(t)
  <2>1. task[t].op = "submit"
    BY <1>1, <1>7 DEF SubmitAnswer, Holds
  <2> QED  BY <1>3, <1>4, <1>5, <1>7, <2>1 DEF SubmitAnswer
<1> QED  BY <1>2, <1>6, <1>7

-----------------------------------------------------------------------------
(* A revoked operation that writes neither session nor storage goes on.      *)

\* It touches no other continuation, but for the wipe of a password change.
LEMMA OthersKept ==
  ASSUME AuthorityInv, NEW t \in Tasks, Continue(t), NEW u \in Tasks \ {t}
  PROVE  task'[u] = task[u] \/ (task'[u] = Wiped(task)[u] /\ session'.kind = "none")
<1>1. CASE ChangePasswordDone(t)
  BY <1>1, WipedFields DEF ChangePasswordDone, WipeEngine, NoSession
<1>2. ASSUME NEW w, NEW next, NEW then, Reencrypt(t, w, next, then)
      PROVE  task'[u] = task[u]
  BY <1>2, Fields DEF Reencrypt
<1>3. CASE Sealed(t) \/ SubmitLookup(t) \/ SubmitAnswer(t)
  BY <1>2, <1>3, Fields DEF Sealed, SubmitLookup, SubmitAnswer, Finish, Goto
<1>4. CASE \/ Reply(t) \/ ReadEnvelope(t) \/ Encrypt(t) \/ ReadState(t) \/ StageCandidate(t)
           \/ ReadBack(t) \/ SwitchPointer(t) \/ ProvisionDerived(t) \/ ProvisionInstall(t)
  BY <1>4, Fields DEF Reply, ReadEnvelope, Encrypt, ReadState, StageCandidate, ReadBack,
     SwitchPointer, Landed, ProvisionDerived, ProvisionInstall, Finish, Goto
<1>5. CASE \/ Probe(t) \/ InstallVolatile(t) \/ UnlockRead(t) \/ WrongPassword(t)
           \/ UnlockInstall(t) \/ Rewrap(t) \/ RewrapEncrypt(t) \/ VerifyAnswer(t)
  BY <1>5, Fields DEF Probe, InstallVolatile, UnlockRead, WrongPassword, UnlockInstall,
     Rewrap, RewrapEncrypt, VerifyAnswer, Finish, Goto
<1>6. CASE \/ PersistTombstone(t) \/ DeleteSlots(t) \/ DeleteJournal(t) \/ VerifyAbsence(t)
           \/ ClearTombstone(t)
  BY <1>6, Fields DEF PersistTombstone, DeleteSlots, DeleteJournal, VerifyAbsence,
     ClearTombstone, Finish, Goto
<1> QED
  BY <1>1, <1>3, <1>4, <1>5, <1>6 DEF Continue

\* A revoked registration or promotion knows that it was wiped, so it posts
\* nothing more.
LEMMA StalePostsNothing ==
  ASSUME AuthorityInv, NEW t \in Tasks, Continue(t), task[t].stale
  PROVE  posted' = posted
<1>1. CASE Sealed(t) \/ SubmitLookup(t)
  <2>1. task[t].wiped
    BY <1>1, Fields DEF Sealed, SubmitLookup, Flags, Running, Capturing
  <2> QED  BY <1>1, <2>1 DEF Sealed, SubmitLookup
<1>2. CASE SubmitAnswer(t)
  BY <1>2 DEF SubmitAnswer, Reencrypt
<1>3. CASE ~Sealed(t) /\ ~SubmitLookup(t) /\ ~SubmitAnswer(t)
  BY <1>3 DEF Continue, Reply, ReadEnvelope, Encrypt, ReadState, StageCandidate, ReadBack,
     SwitchPointer, ProvisionDerived, ProvisionInstall, Probe, InstallVolatile, UnlockRead,
     WrongPassword, UnlockInstall, Rewrap, RewrapEncrypt, ChangePasswordDone, VerifyAnswer,
     PersistTombstone, DeleteSlots, DeleteJournal, VerifyAbsence, ClearTombstone, network
<1> QED  BY <1>1, <1>2, <1>3

\* Who is live stays live, or is replied to.
LEMMA ContinueActive ==
  ASSUME NEW t \in Tasks, Continue(t)
  PROVE  Running(t) /\ active' \subseteq active
<1>1. CASE Reply(t)
  BY <1>1 DEF Reply, Running
<1>2. CASE \/ ReadEnvelope(t) \/ Encrypt(t) \/ ReadState(t) \/ StageCandidate(t) \/ ReadBack(t)
           \/ SwitchPointer(t) \/ Sealed(t) \/ ProvisionDerived(t) \/ ProvisionInstall(t)
           \/ Probe(t) \/ InstallVolatile(t) \/ UnlockRead(t) \/ WrongPassword(t)
  BY <1>2 DEF ReadEnvelope, Encrypt, ReadState, StageCandidate, ReadBack, SwitchPointer,
     Sealed, ProvisionDerived, ProvisionInstall, Probe, InstallVolatile, UnlockRead,
     WrongPassword, Running, client
<1>3. CASE \/ UnlockInstall(t) \/ Rewrap(t) \/ RewrapEncrypt(t) \/ ChangePasswordDone(t)
           \/ VerifyAnswer(t) \/ SubmitLookup(t) \/ SubmitAnswer(t) \/ PersistTombstone(t)
           \/ DeleteSlots(t) \/ DeleteJournal(t) \/ VerifyAbsence(t) \/ ClearTombstone(t)
  BY <1>3 DEF UnlockInstall, Rewrap, RewrapEncrypt, ChangePasswordDone, VerifyAnswer,
     SubmitLookup, SubmitAnswer, PersistTombstone, DeleteSlots, DeleteJournal, VerifyAbsence,
     ClearTombstone, Running, client
<1> QED  BY <1>1, <1>2, <1>3 DEF Continue

LEMMA StaleRetained ==
  ASSUME AuthorityInv, AuthorityInv', RetainedInv, NEW t \in Tasks, Continue(t), RecordLate(t),
         ~Live(t)
  PROVE  RetainedInv'
<1> SUFFICES ASSUME late' = {} PROVE Kept' /\ Adopted' /\ \A u \in Tasks : Live(u)' => Holds(u)'
  BY DEF RetainedInv
<1>1. task[t].stale
  BY ContinueActive DEF Live
<1>2. late = {} /\ session' = session /\ storage' = storage
  BY <1>1 DEF RecordLate, Changes
<1>3. /\ posted' = posted /\ Vault' = Vault /\ UNCHANGED <<journal, slots>>
  BY <1>1, <1>2, StalePostsNothing DEF storage, Vault
<1>4. ASSUME NEW u \in Tasks, Live(u)'
      PROVE  /\ Live(u) /\ Holds(u)
             /\ task'[u].at = task[u].at /\ task'[u].op = task[u].op
             /\ task'[u].record = task[u].record /\ task'[u].version = task[u].version
             /\ task'[u].slot = task[u].slot /\ task'[u].then = task[u].then
             /\ task'[u].wiped => task[u].wiped
                    \/ (session'.kind = "none" /\ task'[u].op \in Capturing)
  <2>1. u \in active' /\ u \in active
    BY <1>4, ContinueActive DEF AuthorityInv, BusyIsRunning, Live
  <2>2. Live(u) /\ Holds(u) /\ u # t
    BY <1>2, <2>1 DEF AuthorityInv, BusyIsRunning, Live, RetainedInv
  <2>3. CASE task'[u] = task[u]
    BY <2>2, <2>3
  <2>4. CASE task'[u] = Wiped(task)[u] /\ session'.kind = "none"
    <3>1. PICK b \in BOOLEAN : b = (task[u].wiped \/ (task[u].at # "idle" /\ task[u].op \in Capturing))
      OBVIOUS
    <3>2. task'[u] = [task[u] EXCEPT !.wiped = b]
      BY <2>4, <3>1 DEF Wiped
    <3> QED  BY <2>2, <2>4, <3>1, <3>2, Fields DEF Task
  <2> QED  BY <2>2, <2>3, <2>4, OthersKept
<1>5. ASSUME NEW u \in Tasks, Live(u)' PROVE Holds(u)'
  <2>2. Candidate(u)' = Candidate(u)
    BY <1>4, <1>5 DEF Candidate
  <2>3. task'[u].wiped => session'.kind = "none" /\ task'[u].op \in Capturing
    BY <1>2, <1>4, <1>5 DEF Holds
  <2>4. (task[u].at \in Carrying /\ task[u].op # "provision" => Keeps(task[u].record))'
    BY <1>3, <1>4, <1>5 DEF Holds, Keeps
  <2>5. task'[u].at = "switch" => slots'[task'[u].slot] = Candidate(u)'
    BY <1>3, <1>4, <1>5, <2>2 DEF Holds
  <2>6. /\ Holds(u)
        /\ task'[u].at = task[u].at /\ task'[u].op = task[u].op
        /\ task'[u].record = task[u].record /\ task'[u].version = task[u].version
        /\ task'[u].slot = task[u].slot /\ task'[u].then = task[u].then
    BY <1>4, <1>5
  <2> QED  BY <1>2, <1>3, <2>3, <2>4, <2>5, <2>6 DEF Holds
<1>6. Adopted'
  <2>1. \A u \in Tasks : Live(u) => Live(u)' /\ task'[u].at = task[u].at
    <3> SUFFICES ASSUME NEW u \in Tasks, Live(u) PROVE Live(u)' /\ task'[u].at = task[u].at
      OBVIOUS
    <3>1. u # t
      OBVIOUS
    <3>2. task'[u].at = task[u].at /\ task'[u].stale = task[u].stale
      BY <3>1, OthersKept, WipedFields
    <3> QED  BY <3>2 DEF Live, Running
  <2> QED  BY <1>2, <1>3, <2>1 DEF RetainedInv, Adopted
<1>7. Kept'
  BY <1>2, <1>3 DEF RetainedInv, Kept
<1> QED  BY <1>5, <1>6, <1>7

-----------------------------------------------------------------------------
(* Requests, and the steps of the tabs.                                      *)

LEMMA EnterRetained ==
  ASSUME AuthorityInv, AuthorityInv', RetainedInv, late = {}, NEW c \in Clients,
         NEW t \in Tasks, Admit(c), NEW op, NEW at, NEW r, Enter(t, op, at, r),
         \/ op = "provision" /\ at = "derive"
         \/ op = "provisionSessionOnly" /\ at = "probe"
         \/ op = "unlock" /\ at = "read"
         \/ op = "changePassword" /\ at = "read" /\ session.kind = "durable"
         \/ op = "verify" /\ at = "lookup"
         \/ op = "submit" /\ at = "lookup" /\ r = session.record /\ r.pending # NoTx,
         UNCHANGED <<engine, storage, network>>
  PROVE  RetainedInv'
<1>0. /\ active = {} /\ active' = {t} /\ UNCHANGED <<session, journal, slots, posted>>
  BY DEF Admit, Enter, engine, storage, network
<1>1. Kept /\ (session.kind = "durable" => session.record = Vault.record)
  BY <1>0, NoneLive
<1>2. /\ task'[t].op = op /\ task'[t].at = at /\ task'[t].record = r /\ task'[t].version = 0
      /\ task'[t].then = "reply" /\ task'[t].wiped = FALSE
  BY Fields DEF Enter, IdleTask
<1>3. Kept' /\ Vault' = Vault
  BY <1>0, <1>1, QuietFacts
<1>4. Holds(t)'
  BY <1>0, <1>1, <1>2, <1>3 DEF Holds, Carrying, Removing
<1> QED  BY <1>0, <1>1, <1>2, <1>3, <1>4, OneMoves

LEMMA RequestRetained ==
  ASSUME AuthorityInv, AuthorityInv', RetainedInv, late = {}, NEW c \in Clients,
         NEW t \in Tasks, Request(c, t)
  PROVE  RetainedInv'
<1>0. active = {} /\ UNCHANGED storage /\ UNCHANGED <<journal, slots>> /\ Vault' = Vault
  BY DEF Request, StartProvision, StartProvisionSessionOnly, StartUnlock,
     StartChangePassword, StartVerify, StartSubmit, StartPromote, StartRemove, Admit,
     storage, Vault
<1>1. Kept /\ (session.kind = "durable" => session.record = Vault.record)
  BY <1>0, NoneLive
<1>2. CASE \/ \E i \in Identities : StartProvision(c, t, i) \/ StartProvisionSessionOnly(c, t, i)
           \/ StartUnlock(c, t) \/ StartChangePassword(c, t) \/ StartVerify(c, t)
  BY <1>2, EnterRetained DEF StartProvision, StartProvisionSessionOnly, StartUnlock,
     StartChangePassword, StartVerify
<1>3. CASE StartSubmit(c, t)
  <2>1. CASE session.record.pending # NoTx
    <3>1. Enter(t, "submit", "lookup", session.record)
      BY <1>3, <2>1 DEF StartSubmit, Enter
    <3> QED  BY <1>3, <2>1, <3>1, EnterRetained DEF StartSubmit, engine, network
  <2>2. CASE session.record.pending = NoTx
    <3>1. PICK w \in Task : w = [IdleTask EXCEPT !.op = "submit"]
      BY ConstantsTyped DEF Task, Ops
    <3>2. w.op = "submit" /\ w.wiped = FALSE /\ w.then = "reply"
      BY <3>1 DEF IdleTask
    <3>3. signed + 1 \in 0 .. MaxTransactions /\ signed + 1 # 0
      BY <1>3, <2>2 DEF StartSubmit, AuthorityInv, TypeOK
    <3>4. PICK tx \in Tx : tx = [signer |-> session.record.owner, id |-> signed + 1]
      BY <3>3, Fields DEF Tx, Record
    <3>5. tx # NoTx
      BY <3>3, <3>4 DEF NoTx
    <3>6. PICK next : next = [session.record EXCEPT !.pending = tx]
      OBVIOUS
    <3>7. next \in Record /\ next.pending # NoTx
      BY <3>5, <3>6, Fields DEF Record
    <3>8. session.kind = "durable" => Keeps(next)
      BY <1>1, <2>2 DEF Keeps
    <3>9. Reencrypt(t, w, next, "post") /\ active' = {t} /\ session.kind # "none"
      BY <1>3, <2>2, <3>1, <3>4, <3>6 DEF StartSubmit
    <3> QED  BY <1>0, <1>1, <3>2, <3>7, <3>8, <3>9, ReencryptRetained
  <2> QED  BY <2>1, <2>2
<1>4. CASE StartPromote(c, t)
  <2>1. PICK w \in Task : w = [IdleTask EXCEPT !.op = "promote"]
    BY ConstantsTyped DEF Task, Ops
  <2>2. w.op = "promote" /\ w.wiped = FALSE /\ w.then = "reply"
    BY <2>1 DEF IdleTask
  <2>3. PICK next \in Record : Promoted(next) /\ Reencrypt(t, w, next, "reply")
    BY <1>4, <2>1 DEF StartPromote
  <2>4. session.kind = "durable" => Keeps(next)
    BY <1>1, <2>3, Fields DEF Promoted, Keeps, Record
  <2>5. active' = {t} /\ session.kind # "none"
    BY <1>4 DEF StartPromote
  <2> QED  BY <1>0, <1>1, <2>2, <2>3, <2>4, <2>5, ReencryptRetained
<1>5. CASE StartRemove(c, t)
  <2>1. PICK w : w = [IdleTask EXCEPT !.op = "remove",
                        !.at = IF session.kind = "volatile" THEN "reply" ELSE "tombstone"]
    OBVIOUS
  <2>2. /\ w.op = "remove" /\ w.at \in {"reply", "tombstone"} /\ w.then = "reply"
        /\ w.wiped = FALSE
    BY <2>1 DEF IdleTask
  <2>3. task'[t] = w
    BY <1>5, <2>1, WipedFields DEF StartRemove
  <2>4. active' = {t} /\ session'.kind = "none" /\ posted' = posted
    BY <1>5 DEF StartRemove, WipeEngine, NoSession, network
  <2>5. Holds(t)' /\ Kept'
    BY <1>0, <1>1, <2>2, <2>3, <2>4 DEF Holds, Kept, Carrying, Removing
  <2> QED  BY <2>2, <2>3, <2>4, <2>5, OneMoves
<1> QED  BY <1>2, <1>3, <1>4, <1>5 DEF Request

\* Nothing is live any more, and the session is gone.
LEMMA NothingLive ==
  ASSUME AuthorityInv', RetainedInv, UNCHANGED <<late, storage, posted>>, active' = {},
         session'.kind = "none"
  PROVE  RetainedInv'
<1>1. \A u \in Tasks : ~Live(u)'
  BY DEF AuthorityInv, BusyIsRunning, Live
<1> QED  BY <1>1 DEF RetainedInv, Adopted, Kept, Vault, storage

\* Steps that change nothing a continuation relies on.
LEMMA Unrelated ==
  ASSUME RetainedInv, UNCHANGED <<session, storage, task, posted, late>>
  PROVE  RetainedInv'
<1>1. \A u \in Tasks : Holds(u)' <=> Holds(u)
  BY DEF Holds, Keeps, Candidate, Vault, storage
<1> QED  BY <1>1 DEF RetainedInv, Adopted, Kept, Vault, Live, Running, storage

LEMMA TabRetained ==
  ASSUME AuthorityInv, AuthorityInv', RetainedInv, UNCHANGED late, NEW c \in Clients,
         Handshake(c) \/ LockAll(c) \/ Cancel(c) \/ Lifecycle(c)
  PROVE  RetainedInv'
<1>1. CASE Revoke
  BY <1>1, NothingLive DEF Revoke, WipeEngine, NoSession, network
<1>2. CASE ~Revoke
  BY <1>2, Unrelated DEF Handshake, LockAll, Cancel, Lifecycle, engine, network
<1> QED  BY <1>1, <1>2

LEMMA InitRetained == Init => RetainedInv
<1> SUFFICES ASSUME Init PROVE RetainedInv
  OBVIOUS
<1>1. \A t \in Tasks : ~Live(t)
  BY DEF Init, Live, Running, IdleTask
<1>2. Vault.record.pending = NoTx
  BY DEF Init, Vault, NoSlot, NoRecord, NoJournal, SlotKeys
<1> QED
  BY <1>1, <1>2 DEF Init, RetainedInv, Adopted, Kept, NoSession

LEMMA NextRetained ==
  ASSUME AuthorityInv, AuthorityInv', RetainedInv, [Next]_vars
  PROVE  RetainedInv'
<1>1. ASSUME NEW t \in Tasks, Continue(t), RecordLate(t), Live(t) PROVE RetainedInv'
  <2>1. late' = late
    BY <1>1 DEF RecordLate, Live
  <2>2. CASE late = {}
    BY <1>1, <2>2, ReplyRetained, PassRetained, StorageRetained, EngineRetained,
       RecordRetained DEF Continue
  <2>3. CASE late # {}
    BY <2>1, <2>3 DEF RetainedInv
  <2> QED  BY <2>2, <2>3
<1>2. ASSUME NEW t \in Tasks, Continue(t), RecordLate(t), ~Live(t) PROVE RetainedInv'
  BY <1>2, StaleRetained
<1>3. ASSUME NEW c \in Clients, NEW t \in Tasks, Request(c, t), UNCHANGED late
      PROVE  RetainedInv'
  <2>1. CASE late = {}
    BY <1>3, <2>1, RequestRetained
  <2>2. CASE late # {}
    BY <1>3, <2>2 DEF RetainedInv
  <2> QED  BY <2>1, <2>2
<1>4. CASE WorkerDeath /\ UNCHANGED late
  BY <1>4, NothingLive DEF WorkerDeath, WipeEngine, NoSession, network
<1>5. CASE (Index /\ UNCHANGED late) \/ UNCHANGED vars
  BY <1>5, Unrelated DEF Index, vars, client, engine, network
<1>6. ASSUME NEW c \in Clients, UNCHANGED late,
             Handshake(c) \/ LockAll(c) \/ Cancel(c) \/ Lifecycle(c)
      PROVE  RetainedInv'
  BY <1>6, TabRetained
<1> QED  BY <1>1, <1>2, <1>3, <1>4, <1>5, <1>6 DEF Next

-----------------------------------------------------------------------------
(* What the vault promises the network.                                      *)

\* Every step is one of the live operation, or of a revoked one, or of the
\* tabs, the network and the worker, which write no record.
LEMMA VaultSteps ==
  ASSUME [Next]_vars, Vault' # Vault, late' = {}
  PROVE  \E t \in Tasks : /\ ~task[t].stale
                          /\ \/ StageCandidate(t) \/ SwitchPointer(t)
                             \/ DeleteSlots(t) \/ DeleteJournal(t)
<1>0. storage' # storage
  BY DEF storage, Vault
<1>1. ASSUME NEW t \in Tasks, Continue(t), RecordLate(t)
      PROVE  /\ ~task[t].stale
             /\ \/ StageCandidate(t) \/ SwitchPointer(t) \/ DeleteSlots(t) \/ DeleteJournal(t)
  <2>1. ~task[t].stale
    BY <1>0, <1>1 DEF RecordLate, Changes
  <2>2. CASE PersistTombstone(t) \/ ClearTombstone(t)
    BY <2>2 DEF PersistTombstone, ClearTombstone, Vault
  <2>3. CASE /\ ~PersistTombstone(t) /\ ~ClearTombstone(t) /\ ~StageCandidate(t)
             /\ ~SwitchPointer(t) /\ ~DeleteSlots(t) /\ ~DeleteJournal(t)
    BY <1>0, <1>1, <2>3 DEF Continue, Reply, ReadEnvelope, Encrypt, ReadState, ReadBack,
       Sealed, ProvisionDerived, ProvisionInstall, Probe, InstallVolatile, UnlockRead,
       WrongPassword, UnlockInstall, Rewrap, RewrapEncrypt, ChangePasswordDone, VerifyAnswer,
       SubmitLookup, SubmitAnswer, VerifyAbsence
  <2> QED  BY <2>1, <2>2, <2>3
<1>2. ASSUME NEW c \in Clients, NEW t \in Tasks, Request(c, t) PROVE FALSE
  BY <1>0, <1>2 DEF Request, StartProvision, StartProvisionSessionOnly, StartUnlock,
     StartChangePassword, StartVerify, StartSubmit, StartPromote, StartRemove
<1>3. ASSUME NEW c \in Clients,
             Handshake(c) \/ LockAll(c) \/ Cancel(c) \/ Lifecycle(c)
      PROVE  FALSE
  BY <1>0, <1>3 DEF Handshake, LockAll, Cancel, Lifecycle, Revoke
<1>4. ~WorkerDeath /\ ~Index /\ ~UNCHANGED vars
  BY <1>0 DEF WorkerDeath, Index, vars
<1> QED  BY <1>1, <1>2, <1>3, <1>4 DEF Next

LEMMA LateStays == [Next]_vars /\ late' = {} => late = {}
BY DEF Next, RecordLate, vars

\* Only a rewrite of the live operation and the removal touch the record.
LEMMA RetainStep ==
  ASSUME AuthorityInv, RetainedInv, [Next]_vars, late' = {}, Vault.record.pending \in posted,
         Vault'.record.pending # Vault.record.pending
  PROVE  Vault'.record.status \in {"Active", "absent"}
<1>0. late = {}
  BY LateStays
<1>1. PICK t \in Tasks : /\ ~task[t].stale
                         /\ \/ StageCandidate(t) \/ SwitchPointer(t)
                            \/ DeleteSlots(t) \/ DeleteJournal(t)
  BY VaultSteps
<1>2. Holds(t) /\ Kept /\ Vault.record.pending # NoTx
  <2>1. Live(t)
    BY <1>1 DEF StageCandidate, SwitchPointer, DeleteSlots, DeleteJournal, Live, Running
  <2> QED  BY <1>0, <2>1 DEF RetainedInv, Kept
<1>3. CASE StageCandidate(t)
  BY <1>2, <1>3, Fields DEF StageCandidate, Holds, Vault, StorageTyped
<1>4. CASE SwitchPointer(t)
  <2>1. journal = [generation |-> task[t].version, active |-> Other(task[t].slot)]
        /\ journal' = Switched(t) /\ slots' = slots
    BY <1>4 DEF SwitchPointer, Vault
  <2>2. Vault'.record = task[t].record
    BY <1>2, <1>4, <2>1 DEF SwitchPointer, Holds, Candidate, Switched, Vault
  <2>3. task[t].op # "provision"
    BY <1>2, <2>1 DEF Holds, Kept
  <2>4. Keeps(task[t].record)
    BY <1>2, <1>4, <2>3 DEF SwitchPointer, Holds, Carrying
  <2> QED  BY <1>2, <2>2, <2>4 DEF Keeps
<1>5. CASE DeleteSlots(t)
  BY <1>5, Fields DEF DeleteSlots, Vault, NoSlot, NoRecord, StorageTyped
<1>6. CASE DeleteJournal(t)
  BY <1>2, <1>6 DEF DeleteJournal, Holds, Vault, NoJournal, NoSlot, NoRecord, SlotKeys
<1> QED  BY <1>1, <1>3, <1>4, <1>5, <1>6

\* Only the adoption of a committed record posts for a stored identity.
LEMMA PostStep ==
  ASSUME AuthorityInv, RetainedInv, [Next]_vars, session.kind = "durable", late' = {}
  PROVE  posted' \subseteq posted \cup {Vault.record.pending}
<1> USE DEF network
<1>0. late = {}
  BY LateStays
<1>1. ASSUME NEW t \in Tasks, Sealed(t)
      PROVE  posted' \subseteq posted \cup {Vault.record.pending}
  <2>1. CASE task[t].stale
    <3>1. Continue(t)
      BY <1>1 DEF Continue
    <3> QED  BY <2>1, <3>1, StalePostsNothing
  <2>2. CASE ~task[t].stale
    <3>1. Vault.record = task[t].record
      BY <1>0, <1>1, <2>2 DEF Sealed, RetainedInv, Holds, Live, Running
    <3> QED  BY <1>1, <3>1 DEF Sealed
  <2> QED  BY <2>1, <2>2
<1>2. ASSUME NEW t \in Tasks, NEW w, NEW next, NEW then, Reencrypt(t, w, next, then)
      PROVE  UNCHANGED posted
  BY <1>2 DEF Reencrypt
<1>3. ASSUME NEW t \in Tasks, SubmitLookup(t) \/ SubmitAnswer(t) PROVE UNCHANGED posted
  BY <1>2, <1>3 DEF SubmitLookup, SubmitAnswer
<1>4. ASSUME NEW t \in Tasks, Continue(t), ~Sealed(t), ~SubmitLookup(t), ~SubmitAnswer(t)
      PROVE  UNCHANGED posted
  BY <1>4 DEF Continue, Reply, ReadEnvelope, Encrypt, ReadState, StageCandidate, ReadBack,
     SwitchPointer, ProvisionDerived, ProvisionInstall, Probe, InstallVolatile, UnlockRead,
     WrongPassword, UnlockInstall, Rewrap, RewrapEncrypt, ChangePasswordDone, VerifyAnswer,
     PersistTombstone, DeleteSlots, DeleteJournal, VerifyAbsence, ClearTombstone
<1>5. ASSUME NEW c \in Clients, NEW t \in Tasks, StartSubmit(c, t) \/ StartPromote(c, t)
      PROVE  UNCHANGED posted
  <2>1. CASE StartSubmit(c, t)
    BY <1>2, <2>1 DEF StartSubmit
  <2>2. CASE StartPromote(c, t)
    BY <1>2, <2>2 DEF StartPromote
  <2> QED  BY <1>5, <2>1, <2>2
<1>6. ASSUME NEW c \in Clients, NEW t \in Tasks, Request(c, t),
             ~StartSubmit(c, t), ~StartPromote(c, t)
      PROVE  UNCHANGED posted
  BY <1>6 DEF Request, StartProvision, StartProvisionSessionOnly, StartUnlock,
     StartChangePassword, StartVerify, StartRemove
<1>7. ASSUME NEW c \in Clients,
             Handshake(c) \/ LockAll(c) \/ Cancel(c) \/ Lifecycle(c)
      PROVE  UNCHANGED posted
  BY <1>7 DEF Handshake, LockAll, Cancel, Lifecycle, Revoke
<1>8. CASE WorkerDeath \/ Index \/ UNCHANGED vars
  BY <1>8 DEF WorkerDeath, Index, vars
<1> QED  BY <1>1, <1>3, <1>4, <1>5, <1>6, <1>7, <1>8 DEF Next

LEMMA RetainedAlways == Spec => [](AuthorityInv /\ RetainedInv)
<1>1. AuthorityInv /\ RetainedInv /\ [Next]_vars => (AuthorityInv /\ RetainedInv)'
  <2> SUFFICES ASSUME AuthorityInv, RetainedInv, [Next]_vars
               PROVE  AuthorityInv' /\ RetainedInv'
    OBVIOUS
  <2>1. AuthorityInv'
    BY NextInv
  <2> QED  BY <2>1, NextRetained
<1> QED  BY <1>1, InitInv, InitRetained, PTL DEF Spec

\* Whatever locks, cancels and deaths meet the operations: until a revoked one
\* writes the session or the vault, the vault keeps a posted transaction until
\* the identity is Active or removed, so that no second one is signed for it.
THEOREM RetainedTheorem == Spec => RetainedUntilActive
<1>1. AuthorityInv /\ RetainedInv /\ [Next]_vars =>
        (/\ late' = {}
         /\ Vault.record.pending \in posted
         /\ Vault'.record.pending # Vault.record.pending
         => Vault'.record.status \in {"Active", "absent"})
  BY RetainStep
<1> QED  BY <1>1, RetainedAlways, PTL DEF Spec, RetainedUntilActive

\* On the same condition a stored identity's transaction is posted only when
\* the vault already holds it.
THEOREM SealedTheorem == Spec => SealedBeforePost
<1>1. AuthorityInv /\ RetainedInv /\ [Next]_vars =>
        (session.kind = "durable" /\ late' = {} =>
            posted' \subseteq posted \cup {Vault.record.pending})
  BY PostStep
<1> QED  BY <1>1, RetainedAlways, PTL DEF Spec, SealedBeforePost
=============================================================================
