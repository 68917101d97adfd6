# HushVoting! client: a TLA+ model of its vaults

The client keeps a voter's keys on the device and talks to a network that must
index the voter's identity.  What can go wrong is rarely a single function: it
is a write cut short by a power loss, an answer that arrives after the user has
locked the application, an operation that goes on after it was revoked, or a
removal that stops half-way.  This project models those parts of the code as
TLA+ modules, checks them with TLC on small instances and proves the main
results with TLAPS.

All paths are relative to the repository root; `U/` stands for
`src-tauri/src/ubuntu_vault/`, `V/` for `src/lib/browser-vault/` and `A/` for
`src/lib/auth/`.

## 1. The system

| Component | State | Operations | Hard behaviour | Here |
|---|---|---|---|---|
| Authentication machine `A/state/machine.ts` | root phase, epoch, active operation, outcome, receipt; connectivity; election access | intents of the user, results of its actors, authority lost, connectivity | results of an operation that is no longer current; locks by other tabs | `AuthMachine` |
| Authentication bridges `A/web` | one runtime per onboarding flow: stage, candidates, polls, cleanup; election queries | create an identity, restore from words, restore from a file; Back, Lock, cleanup | late answers, retries, cancellation in flight | `CreateUserChild`, `RecoveryWordsChild`, `CredentialFileChild`, `Onboarding` |
| Worker client `V/production/client.ts` | pending operations, capability resolvers, port | post, resolve, reject on invalidation | order of messages, a revocation under way, answers without an id | in the bridges and the machine |
| Browser authority `V/authority`, `V/production` | epoch, active operation, channels; session, phase, candidate; journal and slots | handshake, operation, cancel, lifecycle; provision, unlock, verify, submit, promote, change password, remove | one thread, interleaving at every await; revoked operations run on; worker death | `BrowserAuthority` |
| Browser journal `V/lifecycle/journal.ts` | pointer and two slots in IndexedDB | commit, rollback | compare-and-swap between overlapping operations | in `BrowserAuthority` |
| Licence coordinator and session `lib/licensing`, `V/production/licence-session.ts` | phase, pending transaction, sealed journal | query, baseline, upgrade, retry, lock | submit at most once over retries, locks and crashes | `LicenceSession` |
| Ubuntu vault store `U/storage` | two slots, a journal that names the active one, a mode sidecar | provision, commit, stage/promote rotation, rollback, unlock, cleanup, reconcile | kill between any two writes, failed and damaged writes | `AtomicVault`, `UbuntuVaultStore` |
| Ubuntu removal `U/lifecycle/removal.rs` | tombstone with a stage, keyring items | run_removal, resumed at startup | interruption anywhere, deletions that fail on their own | `UbuntuVaultRemoval` |
| Ubuntu ownership `U/lifecycle/ownership.rs`, `lib.rs` | flock on `vault.lock` | try_acquire at startup, kernel release | open, lock and unlink are separate steps | `VaultOwnership` |
| Worker coordination `V/coordination` | leases | connect, takeover | two workers | no |
| Password throttle `U/lifecycle/throttle.rs`, `V/production/sealed-vault.ts` | failed count, cooldown | attempt, success | overlap, restart | no |
| Ubuntu rotation, session, commands | keyring items old/new; epoch, phase, pending secret | rotate; handshake, dispatch, lock | crash between keyring and store; stale requests | no |
| Android vault, native licence vault | as on Ubuntu | as on Ubuntu | other write order | no |
| Identity convergence `lib/identity-convergence` | sealed pending record | submit, poll, reconcile | retry | no |
| Vault core, compatibility, contracts, crypto, licence presentation | none | pure | | no |
| BFF routes, UI, scripts, bundles | none | forwarding, rendering | | no |

How they interact.  The UI drives the authentication machine; the machine's
actors, and the child runtimes of its onboarding flows, send operations over a
message port to the browser authority, which runs them in the sealed-vault
engine; the engine writes the journal and calls the network through the BFF.
The worker serves every tab, so a lock, an unlock or a removal in one tab
changes what is below the machine of another.  The licence session runs inside
the same worker, uses the engine's keys and is torn down by the same
revocations.  On Ubuntu and Android the native host plays the worker's part;
its store, removal and ownership code is complete but has no production caller
yet, so its callers are modelled as the APIs allow.

The three levels of the browser are modelled separately, each with what it sees
of the one below: `AuthMachine` has a worker with a session, a vault and a
revocation notice, and an onboarding flow as one call; `Onboarding` has the
root's onboarding states, the flows call by call, and a worker that runs one
operation at a time with its candidates; `BrowserAuthority` has the worker's
operations await by await.  What crosses the levels is restated where it
matters: the provision that outlives its revocation is the `ghost` of
`OnboardingRoot`, and the client's queue of capability resolvers, which belongs
to the page and not to a flow, is in both upper levels.

What makes each component correct is stated with its module below; PROJECT.json
lists every component, and every hazard with its line and the properties that
cover it.

## 2. The modules

### The authentication machine: `AuthMachine`

| In the model | In the code |
|---|---|
| `m.auth`, `epoch`, `activeOp`, `outcome`, `kind`, `cleanupFailed`, `receipt` | the state of the authentication region and its context |
| `m.call` | the invoked actor that still waits for its port, and the operation id it asked under |
| `locking` | `lockSession`, of this machine or of the one before |
| `left` | what a stopped machine has left the worker to do, and whether its cancellation is on the way |
| `resolvers` | `pendingCapabilityResolvers` of the page's one client (`web-composition.ts:37`): requests whose answer a revocation has taken away, oldest first |
| `connectivity`, `request`, `access`, `queries`, `asked` | the connectivity region, the election access of the machine, the queries and the counter of `entitlement-bridge.ts` |
| `session`, `vault`, `notice` | the worker below: its session, the durable record, a global invalidation not yet received |
| `orphaned`, `hadAccess`, `restored` | histories |

XState runs an event to completion, so an event is a function from a machine to
a machine (`Enter`, `Invoke`, `Inspected`, `Unlocked`, `Verified`, ...), and an
action is one message: the user's, the worker's, another tab's.  `Rebuild` and
`Compose` are `AuthRoot`, which on Browser Back stops the machine and builds
another one while the worker still runs what the first has asked for.

| Property | What it says |
|---|---|
| `TypeOK` | types; a call has an id, an acknowledged Lock its notice on the way |
| `HearsItsOperation` | a state that waits has asked under the id it listens for: no answer is dropped as stale, and none is missing |
| `AccessHasSession` | an access has an open session below it, unless a notice is on its way or another tab has removed the user |
| `ScopedAccessIsFresh` | election access is shown to the access that asked, and only if the network has been there ever since |
| `ReceiptIsOfLastFlow` | "restored" is said of the flow completed last, in its own epoch |
| `AccessIsNew` | two accesses of one machine have different epochs |
| `ActivatedBeforeAccess` | a verified identity is not shown before its activation has finished |
| `BusyEnds` | startup, cleanup, unlock and removal end, whatever other tabs revoke |

A capability is answered without an id, and an invalidation rejects operations
and not capabilities: a resolver whose request met a revocation stays queued and
takes the answer of the next one, in whatever access, flow or machine that is.
A removal that still waits then removes the user in place of the one that asked
(`CapabilityAnswered`), a flow that is robbed can only be left (`FlowRobbed`).

`BusyEnds` leaves two kinds of waits out, because the code never ends them: a
flow, and a verification that found no network (run `claim_VerificationRetried`);
and a removal that was not given its capability (`NotGiven`), because a
revocation met the request ("unheard"), an older resolver took the answer
("robbed") or the worker was not reached ("rejected", an unhandled rejection of
the adapter).  That these end is false in the code, and no document says that
they do.

### The onboarding flows: `OnboardingRoot`, three children, `Onboarding`

`OnboardingRoot` is what the three runtimes of `A/web/child-bridge.ts` share.  A
page is one thread; an async function that has called the worker or the network
is a member of `calls`, with the function it belongs to (`fn`, instance `n`),
the operation, and its answer.  A function whose answer is in runs on to its
next await before any other event (`Quiet`: microtasks).  A message port
delivers in order (`turn`); the worker admits one operation at a time and turns
others away (`TurnedAway`, which may happen at any moment, because the operation
in its way may be another tab's), runs the synchronous ones at once (`ServeSync`)
and the others as `StartAsync` ... `FinishAsync`.  `live` are the candidates it
holds, `vault` and `session` as above, `owner` whose session it is, `profile` and
`posted` the network.  `Revoke` is a lock or a cancellation, of this page or of
another tab: secrets wiped, every pending operation answered
`AUTHORITY_INVALIDATED`, a provision under way left as a `ghost` that may still
install its session (`GhostProvision`; the session is then `stray`).  Capability
requests are not answered by it: their resolvers stay (`lost` those of flows
before, `unanswered` those of this one) and take the answers of later requests.

| Module | The runtime | Its stages |
|---|---|---|
| `CreateUserChild` | `CreateUserChildRuntime` | preflight, profile, generation, reveal, challenge, protection, submission, lookup-first reconciliation with poll and deadline, verification, promotion |
| `RecoveryWordsChild` | `RecoveryWordsChildRuntime` | guard, derivation of one or two candidates, lookup of each, choice and destruction of the others, review of a missing profile, staging with or without a vault, registration, activation |
| `CredentialFileChild` | `CredentialFileChildRuntime` | file read and transfer, import under a password, lookup, review, staging, registration with bounded lookups, and the Back that comes out at a fresh picker |

Each action is a callback, a timer or the continuation of one function from the
answer it waited for to its next await.  `cleanup` is the chain of the
runtime's `cleanupPromise`: cancel a provision, revoke a failed staging,
destroy or discard candidates, lock.  `Onboarding` instantiates the three over
one worker and lets the user choose a flow again and again, beside what the
flow before has left: candidates, a provision that still runs, a lock on its
way, resolvers.  `Choose` waits for none of them; `MaxLeft` only bounds how many
there are.

| Property | What it says |
|---|---|
| `TypeOK` | types; the worker's active operation is one somebody waits for |
| `SubmittedOnce` | a flow posts at most one registration, however often the user presses, the connection drops or a poll fires |
| `PostedAsAsked` | it is posted only for words the user confirmed, or for a profile reviewed as missing |
| `OneIdentity` | the identity the user protects is the only one the worker holds |
| `BackLeavesNothing` | Back comes out with every candidate, file and session given up; the exceptions are the operations under way, named in each module |
| `InspectionUndisturbed` | one Lock or Back revokes once, and not the inspection the root starts after it |
| `RegistrationPolls` | a registration the user waits for is asked about again by itself |
| `HandedOverVerified` | what a flow hands to the root is verified, with its session open, and kept as the user chose |
| `BackIsAnswered` | the root does not wait for a cleanup for ever |

Several of these have the exceptions the code has, found by TLC and kept in the
statement:

- a candidate that is still being generated when the user presses Back stays in
  the worker until the next revocation;
- the files the file runtime has forgotten (`abandoned`): a decryption the user
  has left, whose discard is turned away, and an import or a discard answered
  `AUTHORITY_BUSY` because of another operation, after which the runtime drops
  the import's id and the worker keeps the bytes;
- a `stray` session, which a provision that outlived its revocation installs in
  the next flow: what is handed over and what Back leaves is then that session;
- the Lock of the recovery words locks a second time from the root's cleanup,
  which can end in `blockedError`.

### The browser authority: `BrowserAuthority`

One worker thread.  A task is the continuation of one operation; `at` is the
await it is suspended in, and an action is the code between two awaits.  Epoch
and `secretGeneration` are not counters: a task carries the result of the
comparison the code makes (`stale`, `wiped`), set by `Revoke`.  A lock or a
cancel frees the authority but does not stop the task, exactly as `invalidate`
leaves `executeOperation` running; that is what `Tasks` with two members is for.

`Identities` are the users whose keys the vault and the session may hold: a
removal, or a revoked provision beside a new one, puts another user's session in
place.  `StartVerify` captures the binding of the session it finds, and
`VerifyAnswer` authenticates whatever session there is when the network answers,
as the code does.  The journal's `commit` is four steps with an await between
any two: the pointer is read (`ReadState`), the inactive slot written
(`StageCandidate`), read back (`ReadBack`), and the pointer switched by
compare-and-swap (`SwitchPointer`); two commits may overlap at each of them.
The network is `posted` and `registered`, sets of transactions and identities.

| Property | What it says |
|---|---|
| `TypeOK` | types and value ranges |
| `BusyIsRunning` | the authority is busy for exactly the one operation that runs and was not revoked |
| `AuthenticatedIsVerified` | authenticated only with the keys of an indexed identity, whatever answers late, unless a revoked operation has touched the session |
| `ActiveIsRegistered` | on the same condition, no slot or session is Active before the network indexed its identity |
| `NeverRewound` | overlapping commits never take the vault to an older generation |
| `RetainedUntilActive` | until a revoked operation changes something, a posted transaction stays in the record until Active or removal |
| `SealedBeforePost` | on the same condition, a stored identity posts only what its vault holds |

The history `late` names what operations have changed after they were revoked:
the session, the storage, or both.  It is part of the properties because the
code breaks each of the four without it, and TLC shows how:

- a revoked provision or unlock compares nothing after its awaits
  (sealed-vault.ts:738-759, 959-968) and installs its session.  A verification
  that asked about another user then authenticates that session
  (sealed-vault.ts:997-1011), and a promotion makes its record Active;
- a revoked commit still writes: `changeDevicePassword` (sealed-vault.ts:1375)
  re-encrypts the record it read before a lock, and so takes a transaction that
  was posted meanwhile out of the vault, against sealed-vault.ts:1124 ("Fresh
  unlock may rebind the operation epoch, never the bytes.").

`BrowserAuthorityClaims` holds the statement of a comment that is behind them
all, `LockRevokes`: that an operation of an earlier epoch gives the engine no
session.  The locks and cancels themselves are not excepted: the four properties
hold with any number of them, at any await, as long as no operation they revoked
gets to install or to write.

### The licence session: `LicenceSession`

The part of the worker that obtains the licence: `LicenceBootstrapSession` with
the coordinator it hosts, and the loop of `worker-env.ts` that pumps it every
second.

| In the model | In the code |
|---|---|
| `sess[s]` | one session object and its coordinator; an object nothing refers to any more is `Collected` and its name used again |
| `sess[s].mirror` | the in-memory map of pending records |
| `sess[s].pendId`, `pendRec` | `pendingTransactionId`, `pendingRecord`, two variables that can differ |
| `journal` | the committed encrypted journal; `Corrupt` after a clear cut short |
| `task[t]` | a continuation: the operation in the lane, an operation a lock overtook, or a chain of the loop |
| `current`, `loop` | `licenceSession`, `licenceLoopTimer` |
| `index`, `ingress` | what the network has active, what it has received |
| `waiting` | history: transactions built or loaded since the session last saw an active licence |

`Start` to `Acknowledge` are the operations of a page up to their first await;
`LoopFires` is the timer; `Hydrated`, `QueryAnswered`, `Persisted`,
`SubmitAnswered` and `Flushed` are the continuations after each await, each up
to the next one; `Revoke` is a lock or a cancel, `Die` the end of the worker.
The operators between them (`Tick`, `HandleNoActive`, `Admitted`, ...) are the
synchronous code, in the order the code runs it.

Abstracted: one identity on one network; users of a session-only vault (their
journal is volatile) are left out; a journal write or clear is one storage
operation, in any order with those of other tasks; time only enables (a poll
that is due, a window that ran out, a boundary that passed are choices); the
de-duplication of equal connectivity reports is dropped, because a page gets
around it by a report in between; `entitlementRepair` stands for
`entitlementUnsupported`, which no step tells from it; a query is answered from
the index as it was when it was sent or as it is when the answer arrives.

| Property | What it says |
|---|---|
| `TypeOK` | types; in particular nothing unparsed enters the mirror |
| `PendingIsMirrored` | an operation the coordinator waits for is in the mirror, so that no flush forgets it |
| `AccessIsIndexed` | a projection is always a licence the network has had active, and the phase is ready only with one |
| `SuccessIsOwnUpgrade` | local success only for the own indexed upgrade, whatever other devices activate meanwhile |
| `NoSecondTransaction` | a session never waits for two transactions: a second is built only after an active licence was seen |

### The Ubuntu store: `AtomicVault`, `UbuntuVaultStore`

`AtomicVault` is what a caller may believe: the vault is one value that a
requested operation replaces in one step and nothing else changes.
`UbuntuVaultStore` is the code: `slot` holds the two files (mode, generation, key
and whether the payload is intact), `journal` the pointer with its state and
retained generation, `sidecar` the mirrored mode, `job` the operation in flight.
`Begin*` is the part of an operation before its first write; `Step*` is one file
write; `Fail` is a write that returns an error, `Crash` a kill, `Reconcile*` the
startup.

A slot write may land damaged: either the file no longer parses, or it parses
and its payload is altered (one hex digit for another).  `Validates` is
`validate_slot` (writer.rs:396-432): only an OS-backed package is authenticated,
and only if the caller has a wrapping key.  A password-only package is
hex-decoded (envelope.rs:195-203), and rollback and reconciliation pass no key,
so these accept an altered package, and so does the read-back of a commit of a
password-only one.  The properties say what is left:

| Property | What it says |
|---|---|
| `TypeOK` | types, and a package has a key exactly if it is OS-backed |
| `StoreInvariant` | the journal names a slot that parses with the journal's generation (but for the first package, which `provision` does not read back); an operation in flight never writes the active slot; a rollback is what the journal says |
| `RecoverableSlotPreserved` | no step takes the authoritative package from readable to unreadable, not a failed write, not a kill, not reconcile, but the switch to a package that nothing has authenticated (`SwitchUnauthenticated`); the readable one is then the one retained |
| `DowngradeAcknowledged` | a password-only package replaces an OS-backed one only with the acknowledgement |
| `ImplementsAtomicVault` | the store implements `AtomicVault`: every switch is one that was asked for, one generation away at most, authenticated under the request's key if it names one |

That the readable package is retained is not for ever: the next cleanup deletes
it (section 4).

### Removal: `UbuntuVaultRemoval`

Extends the store with the tombstone, the keyring and the run of `run_removal`
in progress.  Store operations stay possible between an interrupted run and the
one that resumes it, because nothing in the store looks at the tombstone.

| Property | What it says |
|---|---|
| `RemovalTypeOK` | types, and those of the store below it |
| `HalfRemovedIsRecorded` | without a tombstone the store is as its own operations left it |
| `WrappingKeyKept` | without a tombstone an OS-backed active package has its key in the keyring |
| `RemovalCompletes` | a recorded removal is finished |

### Ownership: `VaultOwnership`

Launches open, lock, lose and release a file whose name may be taken away.
`OwnershipInvariant`: until a removal deletes `vault.lock` there is one lock
file and one owner.  After it, a newcomer creates and locks a new file while
the process that removed the vault still holds the old one: ownership.rs:5
("Exactly one") does not hold then, and only the single-instance plugin keeps
the second launch out, so the invariant stops at the deletion.

## 3. The runs and their bounds

| Run | Instance | Distinct states | What it shows |
|---|---|---|---|
| `machine` | 2 epochs, 1 election query, 1 resolver awaited in vain | 716,691 | the machine over a worker that other tabs lock, unlock, provision and remove from under it; startup, cleanup, unlock and removal end |
| `onboarding` | 3 candidates, 2 files, 2 lookups, 1 revocation by another tab per flow, 1 thing left behind | 1,659,968 | the flows one after the other on one worker that other tabs keep busy, with every late answer, Back, Lock and cleanup failure |
| `authority` | 1 tab, 2 tasks, 1 identity, 3 versions, 1 transaction, 1 interruption | 1,593,938 | a revoked operation running beside a new one: the authority, the generations, the pending transaction through locks, cancels and worker deaths at every await |
| `authority_users` | the same with 2 identities and 2 versions | 1,424,575 | two users' vaults and sessions replacing one another under a verification or a promotion |
| `licence` | 2 tasks, 2 transactions, 1 session object, 3 operations, 1 fault | 814,907 | the five licence properties |
| `store` | 2 keys, 3 generations | STORECOUNT | all interleavings of operations, failed and damaged writes, kills, restarts; the five store properties |
| `removal` | 1 key, 2 generations, 2 faults | REMOVALCOUNT | removal over a store that keeps working, and that it completes |
| `ownership` | 3 launches, 3 files | 2,900 | mutual exclusion until the lock file is deleted |
| `claim_LockRevokes` | 1 tab, 2 tasks | | violated: an operation that a lock revoked installs its session in the locked worker |
| `claim_JournalSurvivesLock` | 2 tasks, 1 transaction | | violated: a poll overtaken by a lock clears the journal of a submitted transaction |
| `claim_VerificationRetried` | 2 epochs, a network that always comes back | | violated: a verification that found no network is never asked again |
| `claim_RemovalLocksEveryTab` | 2 epochs | | violated: another tab goes on showing the access of a removed user |

The last four check one documented statement each; the finding in PROJECT.json
quotes it and says how it fails.

Why these bounds.  Two epochs are an access and what follows it, with the
answers of the first still under way; one election query per machine is enough,
because a query is told from the one before by its number only, and a reconnect
or a new access between question and answer is possible with one.  One resolver
awaited in vain is what robs a removal of its answer; the bound keeps out a
second removal that meets a revocation while one resolver is queued already,
which is robbed by the same step.  Three
candidates are two derivations of a phrase that fits two producers and a late
one, or a generation, its replacement and a late one; two files are the one
under decryption and its replacement; two lookups are one that is not the last
and one that is.  One revocation by another tab in each flow meets every stage of
it.  One thing left behind is a ghost provision, a lock on its way or a
resolver, each of which meets every stage of the next flow.
Three generations of the store are the least with which a commit runs on top of
a retained slot and a rollback runs over it; two keys tell a rotated package
from the old one.  Two faults let a removal and its first resumption fail.
Three launches are an owner, a waiter that holds the file open, and a newcomer
that creates another.  Two tasks are the revoked operation and the one after it
(authority), or an operation beside a pump (licence).  Two identities are the one
asked about and the one whose session is installed meanwhile; two versions are a
provision and the rewrite that overlaps another, three are a provision, a
retention and an activation.  `authority_users` explores no further once a revoked
operation has touched the session (`CONSTRAINT SessionUntouched`): `late` never
shrinks and its two properties promise nothing there, so no violation is cut
off; the properties of `authority` are explored there as well.  In both runs the
tab disconnects only with a revocation and connects again before anything else
happens (`ACTION_CONSTRAINT Connected`): only admissions and revocations read the
channels, and a connected tab can do what another cannot, so that every
behaviour has one of these with the same worker.  Two transactions are what
`NoSecondTransaction` and `SuccessIsOwnUpgrade` need (baseline, then upgrade);
three operations are start, upgrade and retry.  The licence model was also
explored with two faults and two operations, with three tasks, two sessions
and two operations, and with index changes bounded apart from the faults (2.58
million states): the properties hold there too.  Tasks are symmetric: no action
names one, and no liveness is checked under symmetry.  `CHECK_DEADLOCK FALSE`
stands where the system, or the instance at its bounds, may really stop: a user
who has arrived, a licence session with nothing left to do.

### Fairness

| Specification | Assumed | Why |
|---|---|---|
| `AuthMachine!FairSpec` | WF of `SystemStep` while the machine is busy | the worker answers, its notices arrive, React builds a machine again after stopping one |
| `AuthMachine!OnlineSpec` | and SF of coming online | the network comes back however often it is lost; used only by a violation run |
| `Onboarding!FairSpec` | WF of `SystemStep` while the root cleans up | the worker answers what it admits, a fetch ends or times out, microtasks run |
| `UbuntuVaultRemoval!FairRemovalSpec` | WF of reconcile, of a store operation in flight, of a removal run; SF of the resumption | the program is started again and goes on; startup resumes a recorded removal although other operations may come in between |

Nothing is assumed of the user, of other tabs or of the chain.  Faults of the
removal are bounded, so that "in the end nothing fails" is part of the instance.

## 4. Differences from the comments

Met while modelling.  The first four have a run and a finding; the others are
visible in the named action, and the properties above are stated so that they
hold beside them.

- `LockRevokes`, `JournalSurvivesLock`, `VerificationRetried`,
  `RemovalLocksEveryTab`: see the violation runs.
- *Machine.*  `INTENT.RETRY` of a verification that found no network targets
  the state it is in, which XState 5 does not re-enter.  A confirmation of a
  missing profile that found no network keeps its operation as the active one
  (`ConfirmMissingProfile`), and the way through a missing profile asks for no
  promotion.  A removal whose capability request meets an invalidation waits for
  ever, and its resolver takes the capability of the next removal or of the next
  flow, which wait for ever as well (`CapabilityAnswered`, `FlowRobbed`).  A
  removal that is turned away leaves the session as it was, and is reported like
  one that failed.  Browser Back in a settled state cancels an operation, which
  the worker takes for a revocation, unless the client has no connection
  (`LeftBy`); the new machine may meet its notice in `blockedError` (`Rebuild`).
- *Create.*  A candidate that arrives after Back is destroyed by nobody: the
  next inspection refuses to call the storage absent until a revocation.
- *Words.*  Lock revokes twice, once by the flow and once by the root's
  cleanup; a retried cleanup destroys a candidate that a revocation has wiped,
  and fails again until the user retries by another way.
- *File.*  The discard of a file under decryption is turned away with
  `AUTHORITY_BUSY` and not repeated; a wrong password then puts the file back
  into the worker's book.  An import that another tab's operation turns away is
  forgotten by the runtime and kept by the worker (child-bridge.ts:1663-1668).
- *All flows.*  A provision that a lock revoked installs its session in the flow
  that comes next (`GhostProvision`).
- *Authority.*  What a revoked operation installs or writes, see `late` above.
- *Licence.*  `submitPending` ignores `inFlight` (`Submit` has no guard), so the
  "at most one in-flight call" of coordinator.ts:11 is not kept when Retry meets
  a poll; that same meeting can leave a `pendingRecord` without a
  `pendingTransactionId`, and then `ConfirmUpgrade` is refused until the session
  is started again.  While the network answers ALREADY_EXISTS and no active
  licence in turn, one operation alternates between the two without a pause.  A
  lock in the middle of `Start` leaves a bound coordinator without an actor.
- *Ubuntu store.*  `provision` makes a slot authoritative that it has not read
  back (`BeginProvision`, `StepWriteSlot`).  The read-back of a password-only
  commit decodes the package and does not open it, so an altered one becomes
  current, against writer.rs:604 (`Validates`, `StepVerify`);
  `promote_rollback` and reconcile pass no key and accept an altered OS-backed
  package as well (`BeginRollback`, `ReconcileAccepts`).  The cleanup that
  follows deletes the readable package, although the store is "never" to delete
  "the only recovery slot" (`BeginCleanup`).  `stage_rotation` after a commit that
  retained a rollback leaves `retained_generation` naming the slot it stages
  into, so that the next unlock or cleanup deletes the staged package.
  `promote_rollback` after a commit that failed half-way activates the candidate
  that was never committed.  `ReconcileVault` leaves the candidate of a crashed
  commit in place when a rollback generation is retained.  No reconcile action
  touches the sidecar.  Generations are reused after `promote_rollback`, so the
  number of a package does not identify it.
- *Ubuntu ownership.*  Opening `vault.lock` fails while the vault root does not
  exist, so the first launch on a fresh machine is refused although nobody owns
  the vault (`OpenFails`).

## 5. What is proved

OBLIGATIONS obligations in seven modules, for every value of the constants, from the
named assumptions of the modules (`MaxGeneration`, `MaxVersion`, `MaxEpoch` and
the other bounds are naturals; the sets of keys, tabs and tasks are arbitrary).

| Theorem | Module | Property |
|---|---|---|
| `MachineTypes`, `AnswersAreHeard`, `AccessHasItsSession`, `ElectionAccessIsFresh`, `ReceiptTheorem` | `AuthMachineProofs` | `TypeOK`, `HearsItsOperation`, `AccessHasSession`, `ScopedAccessIsFresh`, `ReceiptIsOfLastFlow` |
| `EpochsOfAccesses`, `AccessIsActivated` | `AuthMachineProofs` | `AccessIsNew`, `ActivatedBeforeAccess` |
| `AuthorityTypes`, `BusyTheorem`, `VerifiedTheorem`, `PromotionTheorem`, `GenerationTheorem` | `BrowserAuthorityProofs` | `TypeOK`, `BusyIsRunning`, `AuthenticatedIsVerified`, `ActiveIsRegistered`, `NeverRewound` |
| `RetainedTheorem`, `SealedTheorem` | `BrowserAuthorityRetainedProofs` | `RetainedUntilActive`, `SealedBeforePost` |
| `LicenceTypes`, `AccessTheorem`, `SuccessTheorem`, `MirrorTheorem`, `SecondTransactionTheorem` | `LicenceSessionProofs` | `TypeOK`, `AccessIsIndexed`, `SuccessIsOwnUpgrade`, `PendingIsMirrored`, `NoSecondTransaction` |
| `StoreTypes`, `StoreSafety`, `DowngradeSafety`, `RecoverableSlotTheorem`, `Refinement` | `UbuntuVaultStoreProofs` | `TypeOK`, `StoreInvariant`, `DowngradeAcknowledged`, `RecoverableSlotPreserved`, `ImplementsAtomicVault` |
| `RemovalTypes`, `TombstoneTheorem`, `KeyTheorem` | `UbuntuVaultRemovalProofs` | `RemovalTypeOK`, `HalfRemovedIsRecorded`, `WrappingKeyKept` |
| `OwnershipTypes`, `OwnershipSafety` | `VaultOwnershipProofs` | `TypeOK`, `OwnershipInvariant` |

*Machine.*  None of the properties is inductive: that no answer is dropped
depends on how every transition treats the active operation.  The invariant
`IInv` says it of the record (`Sound`: a call is under the active operation, of
the kind its state asks for; a settled state has none), and the proof follows
the code's shape: a lemma for each transition (`Goes`: to which state, with
which epoch and receipt), one for an invalidation and a Lock (`Follows`: out of
an access only into a later epoch), and then one step per action.  An answer that
may go to an older resolver is one of the steps (`CapabilityAnswered`).
`AccessHasSession` needs in addition that what a stopped machine has left to the
worker is gone before another machine has its access: a removal left there closes
the session without a notice.

*Authority.*  `AuthenticatedIsVerified` and `ActiveIsRegistered` need a
statement about what operations carry (`Sound`): until a revoked operation
touches the session, every verification, submission or promotion whose
generation is current was asked about the identity whose session is open, and no
record in flight is Active for an identity that is not indexed.  That rests on
`Flags`: a revoked operation that captured the generation knows that it was
wiped.  `NeverRewound` and `BusyIsRunning` are proved without a condition, for
any overlap of revoked and current operations and of the four steps of their
commits.

The two theorems of `BrowserAuthorityRetainedProofs` assume nothing of locks and
cancels.  Their invariant `RetainedInv` speaks of the one operation that holds
the authority (`Live`, unique by `BusyIsRunning`): what it knows of the vault at
each of its awaits (`Holds`: the record read before the key derivation is still
the vault's, the candidate still staged, and a rewrite drops no retained
transaction, `Keeps`), that an open session of a stored identity is the vault's
record except between the pointer switch and its adoption (`Adopted`), and that
an empty vault retains nothing (`Kept`).  A revoked operation needs no such
knowledge: as soon as it changes anything, `late` is no longer empty.

*Licence session.*  The code between two awaits runs through several operators
(`Tick`, `HandleNoActive`, `Admitted`, ...), so the invariant `IInv` is about one
session (`Good`) and one continuation (`TaskGood`), and every operator has one
lemma, from the end of an operation back to its beginning: given a good session
it leaves a good one, and touches nothing but its own session and task
(`Moved`).  `NoSecondTransaction` is not inductive.  It needs that a bound session
that waits has something in its mirror, so that `handleNoActive` does not
build; that a ready one has an upgrade as its pending record, so that
`confirmUpgrade` does not build; and that only a continuation that has just seen
an active licence retires an upgrade after a review (`Reviewable`).

*Store.*  The invariant `StoreInvariant` is inductive with `TypeOK`; it needs, for
every operation in flight, that the file it is about to switch to is the one it
wrote or that its slot is still the inactive one, because a crash or a failure
may come at any step.  A package that was read back under a key is intact
(`PlannedSwitch`), another one may be altered.  `DowngradeSafety` and `RecoverableSlotTheorem` are
action properties that follow from it one action at a time; `Refinement` maps
every write to a step of `AtomicVault` or a stutter: only the journal switch is
visible.

*Removal.*  The deletions of a run break the store's invariant, so it is
claimed only while there is no tombstone (`Whole`), together with the key of
every OS-backed package, and of the one being written, being in the keyring.
What must hold with a tombstone as well is that every operation in flight has a
proper file (`JobFiled`) and that a run about to clear the tombstone has seen
everything gone (`RunInv`); these four conjuncts are `RInv`.  The store's own
lemmas are cited for its steps.

*Ownership.*  Mutual exclusion alone is not inductive.  It needs that, before
the first deletion, everyone who has a file open has the only one there is.

## 6. Model-checked only, and not modelled

Liveness (`RemovalCompletes`, `BackIsAnswered`, `BusyEnds`)
is checked by TLC only: fairness and ENABLED are out of the prover's reach. The
properties of `Onboarding` are model-checked only as well: they have no proof yet. Liveness of the licence session is
not stated: while the network neither indexes nor rejects, the code waits, by
design, for ever.

Not modelled inside modelled components: the entitlement stages inside
`authenticated` and the fields of the context that are only shown; history
tokens and idle budgets (timers are events that may come at any moment); typed
errors that leave a screen as it was (word count, alias, password policy); the
preview sidecar and file permissions of the Ubuntu store; the browser's password
throttle, the fresh-password capabilities (issued on request to any known tab,
they restrict no order of operations), `retainTransactionDigest` (no client
sends it), the legacy wrapper repair of `unlock`, and `promoteRollback` of the
browser journal (no caller).

Not modelled, and why:

- *Password throttle.*  Reading it shows two things a module would state: the
  stored deadline is not clamped to a plausible one, and overlapping attempts
  lose or repeat a count (`unlock` reads it before the key derivation and writes
  it after).
- *Leases and takeover* (`V/coordination`): the production client connects to
  one SharedWorker and never takes over; the coordinator has no caller.
- *Identity convergence*: no production caller.  Read, not modelled: a
  correction after a rejection leaves the sealed record, so the old bytes are
  submitted again; a restart restores the time of acceptance and not the
  record, so reconciliation does not poll; two overlapping confirmations seal
  two transactions.
- *Ubuntu rotation, session and commands, native licence vault*: decisions
  without state, or without callers as yet; the store's side of a rotation is in
  `UbuntuVaultStore`.
- *Android vault*: no production caller.  Its commit writes the inactive slot
  and neither switches the active one nor raises the generation, so it would not
  refine `AtomicVault`; its removal deletes the tombstone before it checks for
  absence.
- *Licence contracts and presentation, vault core, compatibility, crypto,
  runtime configuration*: parsers, projections and derivations without state,
  pinned by unit tests and conformance vectors.
- *BFF, gRPC, IndexedDB, WebCrypto, D-Bus, HTTP*: external; the models see their
  answers.
- *UI, scripts, vectors, and the generated bundle
  `public/workers/vault-shared-worker.js`*, a third of the repository's lines,
  which is compiled from `V/` and `lib/licensing`.

## 7. Plan

Written, in this order: the Ubuntu store with its abstract specification,
removal, ownership, the browser authority, the licence session, the onboarding
flows, the authentication machine, and the proofs of all but the onboarding.
Open:

1. *Proofs about onboarding*: `SubmittedOnce`, `PostedAsAsked` and
   `HandedOverVerified`, with an invariant about the calls one function may have
   under way at a time.
2. *The password throttle*, native and browser, refining "at most n attempts per
   cooldown".
3. *Key rotation and the native session*: keyring items, staging, promotion and
   the duplicate resolution at startup, over `UbuntuVaultStore`.
4. *Composition*: `OnboardingRoot`'s worker as an abstraction that
   `BrowserAuthority` implements, by a refinement mapping.
5. *The Android store and the native licence vault*, when they have callers and
   the store switches its active slot.
6. *Leases and identity convergence*, when production code calls them.
