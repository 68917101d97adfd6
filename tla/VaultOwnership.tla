---------------------------- MODULE VaultOwnership ----------------------------
(* Process-level ownership of the Ubuntu vault: the exclusive flock on       *)
(* vault.lock (src-tauri/src/ubuntu_vault/lifecycle/ownership.rs), taken at  *)
(* startup (src-tauri/src/lib.rs), and its deletion by local-user removal    *)
(* (storage/writer.rs, delete_vault_artifacts).                              *)
(*                                                                           *)
(* A lock belongs to the file that was opened, not to its name: opening and  *)
(* locking are two steps, and a file may lose its name in between.           *)
EXTENDS Naturals

CONSTANTS
    Processes,  \* launches of the application in one user session
    MaxFiles    \* bound on the lock files created

ASSUME OwnershipAssumption == MaxFiles \in Nat

VARIABLES
    directory,  \* whether the vault root exists
    lockPath,   \* the file named vault.lock, or NoLock
    files,      \* number of lock files created so far
    status,     \* [Processes -> Status]
    opened,     \* [Processes -> the file a process has open, or NoLock]
    outcome,    \* [Processes -> how its last attempt ended]
    removed     \* history: a removal has deleted vault.lock

vars == <<directory, lockPath, files, status, opened, outcome, removed>>

NoLock == 0
Status == {"down", "starting", "opened", "owner"}
Outcomes == {"none", "owner", "alreadyOwned", "lockUnavailable"}

TypeOK ==
    /\ directory \in BOOLEAN
    /\ lockPath \in 0 .. MaxFiles
    /\ files \in 0 .. MaxFiles
    /\ status \in [Processes -> Status]
    /\ opened \in [Processes -> 0 .. MaxFiles]
    /\ outcome \in [Processes -> Outcomes]
    /\ removed \in BOOLEAN
    /\ \A p \in Processes : opened[p] # NoLock <=> status[p] \in {"opened", "owner"}

Init ==
    /\ directory \in BOOLEAN
    /\ lockPath = NoLock
    /\ files = 0
    /\ status = [p \in Processes |-> "down"]
    /\ opened = [p \in Processes |-> NoLock]
    /\ outcome = [p \in Processes |-> "none"]
    /\ removed = FALSE

-----------------------------------------------------------------------------
Launch(p) ==
    /\ status[p] = "down"
    /\ status' = [status EXCEPT ![p] = "starting"]
    /\ outcome' = [outcome EXCEPT ![p] = "none"]
    /\ UNCHANGED <<directory, lockPath, files, opened, removed>>

Exit(p, how) ==
    /\ status' = [status EXCEPT ![p] = "down"]
    /\ opened' = [opened EXCEPT ![p] = NoLock]
    /\ outcome' = [outcome EXCEPT ![p] = how]

\* Wrong variant: the lock file is created anew at every start.
OpenFresh(p) ==
    /\ status[p] = "starting"
    /\ directory
    /\ files < MaxFiles
    /\ files' = files + 1
    /\ lockPath' = files + 1
    /\ opened' = [opened EXCEPT ![p] = lockPath']
    /\ status' = [status EXCEPT ![p] = "opened"]
    /\ UNCHANGED <<directory, outcome, removed>>

\* OpenOptions create(true), truncate(false): the file named vault.lock, which
\* is created when there is none.
OpenLock(p) ==
    /\ status[p] = "starting"
    /\ directory
    /\ \/ lockPath # NoLock /\ UNCHANGED <<lockPath, files>>
       \/ /\ lockPath = NoLock
          /\ files < MaxFiles
          /\ files' = files + 1
          /\ lockPath' = files + 1
    /\ opened' = [opened EXCEPT ![p] = lockPath']
    /\ status' = [status EXCEPT ![p] = "opened"]
    /\ UNCHANGED <<directory, outcome, removed>>

\* The parent directory is not created: LockUnavailable, and setup exits (1).
OpenFails(p) ==
    /\ status[p] = "starting"
    /\ ~directory
    /\ Exit(p, "lockUnavailable")
    /\ UNCHANGED <<directory, lockPath, files, removed>>

Held(f) == \E q \in Processes : status[q] = "owner" /\ opened[q] = f

\* try_write on the open file, held for the process lifetime.
Acquire(p) ==
    /\ status[p] = "opened"
    /\ ~Held(opened[p])
    /\ status' = [status EXCEPT ![p] = "owner"]
    /\ outcome' = [outcome EXCEPT ![p] = "owner"]
    /\ UNCHANGED <<directory, lockPath, files, opened, removed>>

\* WouldBlock: AlreadyOwned, and setup exits quietly.
Refuse(p) ==
    /\ status[p] = "opened"
    /\ Held(opened[p])
    /\ Exit(p, "alreadyOwned")
    /\ UNCHANGED <<directory, lockPath, files, removed>>

\* Wrong variant: the descriptor outlives the process.
DieHoldingFile(p) ==
    /\ status[p] # "down"
    /\ status' = [status EXCEPT ![p] = "down"]
    /\ UNCHANGED <<directory, lockPath, files, opened, outcome, removed>>

\* Exit, crash or kill: the kernel releases the lock with the descriptor.
Die(p) ==
    /\ status[p] # "down"
    /\ Exit(p, outcome[p])
    /\ UNCHANGED <<directory, lockPath, files, removed>>

\* Local-user removal in the owner unlinks vault.lock; the owner keeps its lock
\* on the file that has no name any more.
RemoveLockFile(p) ==
    /\ status[p] = "owner"
    /\ lockPath # NoLock
    /\ lockPath' = NoLock
    /\ removed' = TRUE
    /\ UNCHANGED <<directory, files, status, opened, outcome>>

Step(p) ==
    \/ Launch(p)
    \/ OpenLock(p)
    \/ OpenFails(p)
    \/ Acquire(p)
    \/ Refuse(p)
    \/ Die(p)
    \/ RemoveLockFile(p)

Next == \E p \in Processes : Step(p)

Spec == Init /\ [][Next]_vars

-----------------------------------------------------------------------------
(* Properties. *)

OneOwner ==
    \A p, q \in Processes : status[p] = "owner" /\ status[q] = "owner" => p = q

\* Two launches never both own the vault, whatever the order in which they
\* open, lock, crash and start again, until a removal has deleted vault.lock.
OneOwnerUntilRemoval == ~removed => OneOwner

\* What mutual exclusion rests on: before the first deletion there is a single
\* lock file, and whoever has a file open has that one.
SingleLockFile ==
    ~removed => /\ files = (IF lockPath = NoLock THEN 0 ELSE 1)
                /\ \A p \in Processes :
                      /\ status[p] \in {"opened", "owner"} => opened[p] = lockPath
                      /\ status[p] \in {"opened", "owner"} => lockPath # NoLock

OwnershipInvariant == SingleLockFile /\ OneOwnerUntilRemoval
=============================================================================
