------------------------- MODULE SessionLeaseProofs -------------------------
(***************************************************************************)
(* Proof that a session lease excludes, for every set of processes and of  *)
(* recycled pids, as long as no process removes the guard of a live one.   *)
(* With GuardTheft TLC finds two holders: the hypothesis is needed.        *)
(***************************************************************************)
EXTENDS SessionLease, TLAPS

NoTheft == ~GuardTheft

(* The call of acquireSessionLease preserves LeaseInv. *)
LEMMA AcquireStep ==
  ASSUME NoTheft, LeaseInv, NEW p \in Procs, Acquire(p)
  PROVE  LeaseInv'
<1> USE LockfileAssumption, LeaseAssumption DEF LeaseInv, Acquire, Begin, Request
<1>1. TypeOK'
  BY DEF TypeOK, LockTypeOK, LockSteps, Lives, LeaseSteps, GuardHeld, RoundsNeeded, Attempts
<1>2. GuardHeld'
  BY DEF GuardHeld, TypeOK, LockTypeOK
<1>3. LeaseAsSeen'
  BY DEF LeaseAsSeen, GuardHeld, TypeOK, LockTypeOK
<1>4. RoundsNeeded'
  BY DEF RoundsNeeded, GuardHeld, TypeOK, LockTypeOK
<1> QED BY <1>1, <1>2, <1>3, <1>4

(* The call of release preserves LeaseInv. *)
LEMMA ReleaseStep ==
  ASSUME NoTheft, LeaseInv, NEW p \in Procs, Release(p)
  PROVE  LeaseInv'
<1> USE LockfileAssumption, LeaseAssumption DEF LeaseInv, Release, Begin, Request
<1>1. TypeOK'
  BY DEF TypeOK, LockTypeOK, LockSteps, Lives, LeaseSteps, GuardHeld, RoundsNeeded, Attempts
<1>2. GuardHeld'
  BY DEF GuardHeld, TypeOK, LockTypeOK
<1>3. LeaseAsSeen'
  BY DEF LeaseAsSeen, GuardHeld, TypeOK, LockTypeOK
<1>4. RoundsNeeded'
  BY DEF RoundsNeeded, GuardHeld, TypeOK, LockTypeOK
<1> QED BY <1>1, <1>2, <1>3, <1>4

(* An attempt at the guard preserves LeaseInv: without theft only a dead
   process's directory is removed. *)
LEMMA LockAttemptStep ==
  ASSUME NoTheft, LeaseInv, NEW p \in Procs, LockAttempt(p)
  PROVE  LeaseInv'
<1> USE LockfileAssumption, LeaseAssumption
    DEF LeaseInv, LockAttempt, Mkdir, FindStale, RemoveStale, RetryFails, Removable, NoTheft
<1>1. TypeOK'
  BY DEF TypeOK, LockTypeOK, LockSteps, Lives, LeaseSteps, GuardHeld, RoundsNeeded, Attempts
<1>2. GuardHeld'
  BY DEF GuardHeld, TypeOK, LockTypeOK
<1>3. LeaseAsSeen'
  BY DEF LeaseAsSeen, GuardHeld, TypeOK, LockTypeOK
<1>4. RoundsNeeded'
  BY DEF RoundsNeeded, GuardHeld, TypeOK, LockTypeOK
<1> QED BY <1>1, <1>2, <1>3, <1>4

(* A guard that stays taken preserves LeaseInv. *)
LEMMA LockRejectedStep ==
  ASSUME NoTheft, LeaseInv, NEW p \in Procs, LockRejected(p)
  PROVE  LeaseInv'
<1> USE LockfileAssumption, LeaseAssumption DEF LeaseInv, LockRejected, GiveUp
<1>1. TypeOK'
  BY DEF TypeOK, LockTypeOK, LockSteps, Lives, LeaseSteps, GuardHeld, RoundsNeeded, Attempts
<1>2. GuardHeld'
  BY DEF GuardHeld, TypeOK, LockTypeOK
<1>3. LeaseAsSeen'
  BY DEF LeaseAsSeen, GuardHeld, TypeOK, LockTypeOK
<1>4. RoundsNeeded'
  BY DEF RoundsNeeded, GuardHeld, TypeOK, LockTypeOK
<1> QED BY <1>1, <1>2, <1>3, <1>4

(* The end of the guarded code preserves LeaseInv. *)
LEMMA LeaveGuardStep ==
  ASSUME NoTheft, LeaseInv, NEW p \in Procs, LeaveGuard(p)
  PROVE  LeaseInv'
<1> USE LockfileAssumption, LeaseAssumption DEF LeaseInv, LeaveGuard
<1>1. TypeOK'
  BY DEF TypeOK, LockTypeOK, LockSteps, Lives, LeaseSteps, GuardHeld, RoundsNeeded, Attempts
<1>2. GuardHeld'
  BY DEF GuardHeld, TypeOK, LockTypeOK
<1>3. LeaseAsSeen'
  BY DEF LeaseAsSeen, GuardHeld, TypeOK, LockTypeOK
<1>4. RoundsNeeded'
  BY DEF RoundsNeeded, GuardHeld, TypeOK, LockTypeOK
<1> QED BY <1>1, <1>2, <1>3, <1>4

(* The guard's release and the return preserve LeaseInv: the new holder's
   record is on disk. *)
LEMMA ReturnStep ==
  ASSUME NoTheft, LeaseInv, NEW p \in Procs, Return(p)
  PROVE  LeaseInv'
<1> USE LockfileAssumption, LeaseAssumption DEF LeaseInv, Return, Unlock
<1>1. TypeOK'
  BY DEF TypeOK, LockTypeOK, LockSteps, Lives, LeaseSteps, GuardHeld, RoundsNeeded, Attempts
<1>2. GuardHeld'
  BY DEF GuardHeld, TypeOK, LockTypeOK
<1>3. LeaseAsSeen'
  BY DEF LeaseAsSeen, GuardHeld, TypeOK, LockTypeOK
<1>4. RoundsNeeded'
  BY DEF RoundsNeeded, GuardHeld, TypeOK, LockTypeOK
<1> QED BY <1>1, <1>2, <1>3, <1>4

(* The rename of the candidate directory preserves LeaseInv: it replaces no
   holder's record. *)
LEMMA InstallStep ==
  ASSUME NoTheft, LeaseInv, NEW p \in Procs, Install(p)
  PROVE  LeaseInv'
<1> USE LockfileAssumption, LeaseAssumption DEF LeaseInv, Install, Go, lockVars
<1>1. TypeOK'
  BY DEF TypeOK, LockTypeOK, LockSteps, Lives, LeaseSteps, GuardHeld, RoundsNeeded, Attempts
<1>2. GuardHeld'
  BY DEF GuardHeld, TypeOK, LockTypeOK
<1>3. LeaseAsSeen'
  BY DEF LeaseAsSeen, GuardHeld, TypeOK, LockTypeOK
<1>4. RoundsNeeded'
  BY DEF RoundsNeeded, GuardHeld, TypeOK, LockTypeOK
<1> QED BY <1>1, <1>2, <1>3, <1>4

(* The reading of the owner preserves LeaseInv: only a dead owner is reclaimed. *)
LEMMA ReadOwnerStep ==
  ASSUME NoTheft, LeaseInv, NEW p \in Procs, ReadOwner(p)
  PROVE  LeaseInv'
<1> USE LockfileAssumption, LeaseAssumption DEF LeaseInv, ReadOwner, Go, lockVars, LooksAlive
<1>1. TypeOK'
  BY DEF TypeOK, LockTypeOK, LockSteps, Lives, LeaseSteps, GuardHeld, RoundsNeeded, Attempts
<1>2. GuardHeld'
  BY DEF GuardHeld, TypeOK, LockTypeOK
<1>3. LeaseAsSeen'
  BY DEF LeaseAsSeen, GuardHeld, TypeOK, LockTypeOK
<1>4. RoundsNeeded'
  BY DEF RoundsNeeded, GuardHeld, TypeOK, LockTypeOK
<1> QED BY <1>1, <1>2, <1>3, <1>4

(* reclaimStaleLease preserves LeaseInv: the record it renames away is a dead
   process's, and the round after it finds no directory. *)
LEMMA ReclaimStep ==
  ASSUME NoTheft, LeaseInv, NEW p \in Procs, Reclaim(p)
  PROVE  LeaseInv'
<1> USE LockfileAssumption, LeaseAssumption DEF LeaseInv, Reclaim, Go, lockVars, Attempts
<1>1. TypeOK'
  BY DEF TypeOK, LockTypeOK, LockSteps, Lives, LeaseSteps, GuardHeld, RoundsNeeded, Attempts
<1>2. GuardHeld'
  BY DEF GuardHeld, TypeOK, LockTypeOK
<1>3. LeaseAsSeen'
  BY DEF LeaseAsSeen, GuardHeld, TypeOK, LockTypeOK
<1>4. RoundsNeeded'
  BY DEF RoundsNeeded, GuardHeld, TypeOK, LockTypeOK
<1> QED BY <1>1, <1>2, <1>3, <1>4

(* release's comparison of tokens preserves LeaseInv. *)
LEMMA CheckTokenStep ==
  ASSUME NoTheft, LeaseInv, NEW p \in Procs, CheckToken(p)
  PROVE  LeaseInv'
<1> USE LockfileAssumption, LeaseAssumption DEF LeaseInv, CheckToken, Go, lockVars
<1>1. TypeOK'
  BY DEF TypeOK, LockTypeOK, LockSteps, Lives, LeaseSteps, GuardHeld, RoundsNeeded, Attempts
<1>2. GuardHeld'
  BY DEF GuardHeld, TypeOK, LockTypeOK
<1>3. LeaseAsSeen'
  BY DEF LeaseAsSeen, GuardHeld, TypeOK, LockTypeOK
<1>4. RoundsNeeded'
  BY DEF RoundsNeeded, GuardHeld, TypeOK, LockTypeOK
<1> QED BY <1>1, <1>2, <1>3, <1>4

(* The removal of owner.json preserves LeaseInv. *)
LEMMA UnlinkStep ==
  ASSUME NoTheft, LeaseInv, NEW p \in Procs, Unlink(p)
  PROVE  LeaseInv'
<1> USE LockfileAssumption, LeaseAssumption DEF LeaseInv, Unlink, Go, lockVars
<1>1. TypeOK'
  BY DEF TypeOK, LockTypeOK, LockSteps, Lives, LeaseSteps, GuardHeld, RoundsNeeded, Attempts
<1>2. GuardHeld'
  BY DEF GuardHeld, TypeOK, LockTypeOK
<1>3. LeaseAsSeen'
  BY DEF LeaseAsSeen, GuardHeld, TypeOK, LockTypeOK
<1>4. RoundsNeeded'
  BY DEF RoundsNeeded, GuardHeld, TypeOK, LockTypeOK
<1> QED BY <1>1, <1>2, <1>3, <1>4

(* The removal of the lease directory preserves LeaseInv. *)
LEMMA RmdirStep ==
  ASSUME NoTheft, LeaseInv, NEW p \in Procs, Rmdir(p)
  PROVE  LeaseInv'
<1> USE LockfileAssumption, LeaseAssumption DEF LeaseInv, Rmdir, Go, lockVars
<1>1. TypeOK'
  BY DEF TypeOK, LockTypeOK, LockSteps, Lives, LeaseSteps, GuardHeld, RoundsNeeded, Attempts
<1>2. GuardHeld'
  BY DEF GuardHeld, TypeOK, LockTypeOK
<1>3. LeaseAsSeen'
  BY DEF LeaseAsSeen, GuardHeld, TypeOK, LockTypeOK
<1>4. RoundsNeeded'
  BY DEF RoundsNeeded, GuardHeld, TypeOK, LockTypeOK
<1> QED BY <1>1, <1>2, <1>3, <1>4

(* The death of a process at any step preserves LeaseInv. *)
LEMMA DieStep ==
  ASSUME NoTheft, LeaseInv, NEW p \in Procs, Die(p)
  PROVE  LeaseInv'
<1> USE LockfileAssumption, LeaseAssumption DEF LeaseInv, Die
<1>1. TypeOK'
  BY DEF TypeOK, LockTypeOK, LockSteps, Lives, LeaseSteps, GuardHeld, RoundsNeeded, Attempts
<1>2. GuardHeld'
  BY DEF GuardHeld, TypeOK, LockTypeOK
<1>3. LeaseAsSeen'
  BY DEF LeaseAsSeen, GuardHeld, TypeOK, LockTypeOK
<1>4. RoundsNeeded'
  BY DEF RoundsNeeded, GuardHeld, TypeOK, LockTypeOK
<1> QED BY <1>1, <1>2, <1>3, <1>4

(* LeaseInv is inductive. *)
LEMMA LeaseNext ==
  ASSUME NoTheft, LeaseInv, [Next]_vars
  PROVE  LeaseInv'
<1>1. CASE UNCHANGED vars
  BY <1>1 DEF vars, LeaseInv, TypeOK, LockTypeOK, GuardHeld, LeaseAsSeen, RoundsNeeded
<1>2. CASE Next
  BY <1>2, AcquireStep, ReleaseStep, LockAttemptStep, LockRejectedStep, LeaveGuardStep,
     ReturnStep, InstallStep, ReadOwnerStep, ReclaimStep, CheckTokenStep,
     UnlinkStep, RmdirStep, DieStep
     DEF Next
<1> QED BY <1>1, <1>2

(* LeaseInv holds of every state that processes opening and closing a session
   can reach (acquireSessionLease, SessionLease.release). *)
THEOREM LeaseInvariance ==
  ASSUME NoTheft
  PROVE  Spec => []LeaseInv
<1>1. Init => LeaseInv
  BY LockfileAssumption
  DEF Init, LockInit, LeaseInv, TypeOK, LockTypeOK, LockSteps, Lives, LeaseSteps, Attempts,
      GuardHeld, LeaseAsSeen, RoundsNeeded
<1>2. LeaseInv /\ [Next]_vars => LeaseInv'
  BY LeaseNext
<1> QED BY <1>1, <1>2, PTL DEF Spec

(* At most one process holds the lease of a session (acquireSessionLease). *)
THEOREM LeaseExcludes ==
  ASSUME NoTheft
  PROVE  Spec => []LeaseExclusive
<1>1. LeaseInv => LeaseExclusive
  BY DEF LeaseInv, LeaseAsSeen, LeaseExclusive
<1> QED BY <1>1, LeaseInvariance, PTL

(* The holder's owner.json is the one on disk. *)
THEOREM HoldersAreRecorded ==
  ASSUME NoTheft
  PROVE  Spec => []HolderRecorded
<1>1. LeaseInv => HolderRecorded
  BY DEF LeaseInv, LeaseAsSeen, HolderRecorded
<1> QED BY <1>1, LeaseInvariance, PTL

(* The loop of acquireSessionLease never runs out of rounds. *)
THEOREM RoundsSuffice ==
  ASSUME NoTheft
  PROVE  Spec => []NeverExhausted
<1>1. LeaseInv => NeverExhausted
  BY DEF LeaseInv, RoundsNeeded, NeverExhausted
<1> QED BY <1>1, LeaseInvariance, PTL
=============================================================================
