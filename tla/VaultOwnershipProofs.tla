------------------------- MODULE VaultOwnershipProofs -------------------------
(* Mutual exclusion of vault ownership for any number of launches and files. *)
EXTENDS VaultOwnership, TLAPS

\* A launch reaches "opened" or "owner" only with the one lock file there is,
\* and takes the lock only when no owner has it; both hold together.
IInv == TypeOK /\ OwnershipInvariant

\* Nothing is open at the start.
LEMMA OwnershipInit == Init => IInv
<1> SUFFICES ASSUME Init PROVE IInv
  OBVIOUS
<1>1. TypeOK
  <2>1. directory \in BOOLEAN /\ removed \in BOOLEAN
    BY DEF Init
  <2>2. lockPath \in 0 .. MaxFiles /\ files \in 0 .. MaxFiles
    BY OwnershipAssumption DEF Init, NoLock
  <2>3. opened \in [Processes -> 0 .. MaxFiles]
    BY OwnershipAssumption DEF Init, NoLock
  <2>4. status \in [Processes -> Status] /\ outcome \in [Processes -> Outcomes]
    BY DEF Init, Status, Outcomes
  <2>5. \A p \in Processes : opened[p] = NoLock /\ status[p] = "down"
    BY DEF Init
  <2>6. \A p \in Processes : opened[p] # NoLock <=> status[p] \in {"opened", "owner"}
    BY <2>5
  <2> QED  BY <2>1, <2>2, <2>3, <2>4, <2>6 DEF TypeOK
<1>2. \A p \in Processes : status[p] = "down"
  BY DEF Init
<1>3. OwnershipInvariant
  BY <1>2 DEF Init, OwnershipInvariant, SingleLockFile, OneOwnerUntilRemoval,
              OneOwner, NoLock
<1> QED  BY <1>1, <1>3 DEF IInv

\* Every step of every launch keeps the invariant.
LEMMA OwnershipStep == IInv /\ [Next]_vars => IInv'
<1> SUFFICES ASSUME IInv, [Next]_vars PROVE IInv'
  OBVIOUS
<1> USE OwnershipAssumption DEF IInv, TypeOK, OwnershipInvariant, SingleLockFile,
        OneOwnerUntilRemoval, OneOwner, Status, Outcomes, NoLock
<1>1. CASE UNCHANGED vars
  BY <1>1 DEF vars
<1>2. ASSUME NEW p \in Processes, Launch(p) PROVE IInv'
  BY <1>2 DEF Launch
<1>3. ASSUME NEW p \in Processes, OpenLock(p) PROVE IInv'
  <2>1. CASE lockPath # NoLock
    BY <1>3, <2>1 DEF OpenLock
  <2>2. CASE lockPath = NoLock
    <3>1. /\ files' = files + 1 /\ files' \in 0 .. MaxFiles
          /\ lockPath' = files' /\ lockPath' # 0
      BY <1>3, <2>2 DEF OpenLock
    <3>2. TypeOK'
      BY <1>3, <3>1 DEF OpenLock
    <3>3. SingleLockFile'
      BY <1>3, <2>2, <3>1 DEF OpenLock
    <3>4. OneOwnerUntilRemoval'
      BY <1>3 DEF OpenLock
    <3> QED  BY <3>2, <3>3, <3>4
  <2> QED  BY <2>1, <2>2
<1>4. ASSUME NEW p \in Processes, OpenFails(p) PROVE IInv'
  BY <1>4 DEF OpenFails, Exit
<1>5. ASSUME NEW p \in Processes, Acquire(p) PROVE IInv'
  <2>1. TypeOK' /\ SingleLockFile'
    BY <1>5 DEF Acquire
  <2>2. ~removed => \A q \in Processes : status[q] # "owner"
    BY <1>5 DEF Acquire, Held
  <2>3. OneOwnerUntilRemoval'
    BY <1>5, <2>2 DEF Acquire
  <2> QED  BY <2>1, <2>3
<1>6. ASSUME NEW p \in Processes, Refuse(p) PROVE IInv'
  BY <1>6 DEF Refuse, Exit
<1>7. ASSUME NEW p \in Processes, Die(p) PROVE IInv'
  BY <1>7 DEF Die, Exit
<1>8. ASSUME NEW p \in Processes, RemoveLockFile(p) PROVE IInv'
  BY <1>8 DEF RemoveLockFile
<1> QED  BY <1>1, <1>2, <1>3, <1>4, <1>5, <1>6, <1>7, <1>8 DEF Next, Step

\* Until a removal deletes vault.lock, at most one launch owns the vault.
THEOREM OwnershipSafety == Spec => []OwnershipInvariant
<1>1. IInv => OwnershipInvariant
  BY DEF IInv
<1> QED  BY OwnershipInit, OwnershipStep, <1>1, PTL DEF Spec

\* A launch holds a lock file exactly while it has one open.
THEOREM OwnershipTypes == Spec => []TypeOK
<1>1. IInv => TypeOK
  BY DEF IInv
<1> QED  BY OwnershipInit, OwnershipStep, <1>1, PTL DEF Spec
=============================================================================
