--------------------- MODULE SupervisorOwnershipProofs ---------------------
(***************************************************************************)
(* Proof that conflicting supervisors exclude one another, for every set   *)
(* of processes, every conflict relation and every set of recycled pids,   *)
(* as long as the guard directory is not removed between its maker's mkdir *)
(* and inode sample and inode numbers are not reused.  TLC finds two       *)
(* owners as soon as either half of this hypothesis is given up.           *)
(*                                                                         *)
(* The invariant is ElectionInv of SupervisorOwnership; there is one lemma *)
(* per action, and in it one step per conjunct of the invariant.           *)
(***************************************************************************)
EXTENDS SupervisorOwnership, TLAPS

NoEarlyTheft == ~StealBeforeSample /\ ~InodeReuse

(* An attempt at the lock preserves ElectionInv: a maker starts unscanned, and a
   thief's rmdir only takes the guard away from others (lockfile.lock). *)
LEMMA LockAttemptStep ==
  ASSUME NoEarlyTheft, ElectionInv, NEW p \in Procs, LockAttempt(p)
  PROVE  ElectionInv'
<1> USE DEF ElectionInv
<1>1. TypeOK'
  BY DEF LockAttempt, Mkdir, FindStale, RemoveStale, RetryFails, TypeOK, LockTypeOK,
         LockSteps, GuardedSteps
<1>2. PlacesAgree'
  BY LockfileAssumption DEF LockAttempt, Mkdir, FindStale, RemoveStale, RetryFails,
         Removable, NoEarlyTheft, PlacesAgree, InGuard, TypeOK, LockTypeOK
<1>3. StagesAgree'
  BY DEF LockAttempt, StagesAgree, Owns, TypeOK
<1>4. ScanSeesRivals'
  BY LockfileAssumption, OwnershipAssumption DEF LockAttempt, Mkdir, FindStale, RemoveStale,
         RetryFails, ScanSeesRivals, Elected, Owns, TypeOK
<1>5. RecordsOfElected'
  BY OwnershipAssumption DEF LockAttempt, RecordsOfElected, Elected, Owns, TypeOK
<1>6. OneElected'
  BY OwnershipAssumption DEF LockAttempt, OneElected, Elected, Owns, TypeOK
<1> QED BY <1>1, <1>2, <1>3, <1>4, <1>5, <1>6

(* lockfile.lock giving up preserves ElectionInv: nothing has run. *)
LEMMA LockRejectedStep ==
  ASSUME NoEarlyTheft, ElectionInv, NEW p \in Procs, LockRejected(p)
  PROVE  ElectionInv'
<1> USE DEF ElectionInv
<1>1. TypeOK'
  BY DEF LockRejected, GiveUp, TypeOK, LockTypeOK, LockSteps, GuardedSteps
<1>2. PlacesAgree'
  BY DEF LockRejected, GiveUp, PlacesAgree, InGuard, TypeOK, LockTypeOK
<1>3. StagesAgree'
  BY DEF LockRejected, StagesAgree, Owns, TypeOK
<1>4. ScanSeesRivals'
  BY DEF LockRejected, GiveUp, ScanSeesRivals, Elected, Owns, TypeOK
<1>5. RecordsOfElected'
  BY DEF LockRejected, RecordsOfElected, Elected, Owns, TypeOK
<1>6. OneElected'
  BY DEF LockRejected, OneElected, Elected, Owns, TypeOK
<1> QED BY <1>1, <1>2, <1>3, <1>4, <1>5, <1>6

(* The inode sample preserves ElectionInv: under NoEarlyTheft the directory is
   still the maker's own (statSync after lockfile.lock). *)
LEMMA SampleStep ==
  ASSUME NoEarlyTheft, ElectionInv, NEW p \in Procs, Sample(p)
  PROVE  ElectionInv'
<1> USE DEF ElectionInv
<1>1. TypeOK'
  BY DEF Sample, lockVars, TypeOK, LockTypeOK, GuardedSteps
<1>2. PlacesAgree'
  BY DEF Sample, lockVars, PlacesAgree, InGuard, TypeOK
<1>3. StagesAgree'
  BY DEF Sample, StagesAgree, Owns, TypeOK
<1>4. ScanSeesRivals'
  BY DEF Sample, lockVars, ScanSeesRivals, Elected, Owns, TypeOK
<1>5. RecordsOfElected'
  BY DEF Sample, RecordsOfElected, Elected, Owns, TypeOK
<1>6. OneElected'
  BY DEF Sample, OneElected, Elected, Owns, TypeOK
<1> QED BY <1>1, <1>2, <1>3, <1>4, <1>5, <1>6

(* The first assertGuardHeld preserves ElectionInv. *)
LEMMA EnterStep ==
  ASSUME NoEarlyTheft, ElectionInv, NEW p \in Procs, Enter(p)
  PROVE  ElectionInv'
<1> USE DEF ElectionInv
<1>1. TypeOK'
  BY DEF Enter, LeaveGuard, FirstStep, lockVars, TypeOK, LockTypeOK, LockSteps, GuardedSteps
<1>2. PlacesAgree'
  BY DEF Enter, LeaveGuard, FirstStep, lockVars, PlacesAgree, InGuard, TypeOK, LockTypeOK,
         Ops
<1>3. StagesAgree'
  BY DEF Enter, StagesAgree, Owns, TypeOK
<1>4. ScanSeesRivals'
  BY OwnershipAssumption DEF Enter, LeaveGuard, FirstStep, lockVars, ScanSeesRivals,
         Elected, Owns, TypeOK
<1>5. RecordsOfElected'
  BY OwnershipAssumption DEF Enter, LeaveGuard, FirstStep, RecordsOfElected, Elected, Owns,
         TypeOK
<1>6. OneElected'
  BY OwnershipAssumption DEF Enter, LeaveGuard, FirstStep, OneElected, Elected, Owns, TypeOK
<1> QED BY <1>1, <1>2, <1>3, <1>4, <1>5, <1>6

(* The last assertGuardHeld preserves ElectionInv.  This is where a contender is
   elected: it still holds the guard, so its scan has left no elected rival. *)
LEMMA FinishStep ==
  ASSUME NoEarlyTheft, ElectionInv, NEW p \in Procs, Finish(p)
  PROVE  ElectionInv'
<1> USE DEF ElectionInv
<1>1. TypeOK'
  BY DEF Finish, LeaveGuard, TypeOK, LockTypeOK, LockSteps, GuardedSteps, StagesAgree
<1>2. PlacesAgree'
  BY DEF Finish, LeaveGuard, PlacesAgree, InGuard, TypeOK
<1>3. StagesAgree'
  BY DEF Finish, StagesAgree, Owns, TypeOK
<1>4. ScanSeesRivals'
  BY LockfileAssumption DEF Finish, LeaveGuard, GuardStolen, NoEarlyTheft, ScanSeesRivals,
         Elected, Owns, TypeOK, PlacesAgree, InGuard
<1>5. RecordsOfElected'
  BY DEF Finish, LeaveGuard, RecordsOfElected, Elected, Owns, TypeOK
<1>6. OneElected'
  <2> SUFFICES ASSUME NEW q \in Supervisors, NEW r \in Supervisors, q # r,
                      Elected(q)', Elected(r)', <<q, r>> \in Conflict
               PROVE  FALSE
    BY DEF OneElected
  <2>1. \A s \in Supervisors : s # p => (Elected(s)' <=> Elected(s))
    BY OwnershipAssumption DEF Finish, LeaveGuard, Elected, Owns, TypeOK
  <2>2. Elected(p)' /\ ~Elected(p) =>
          lockDir = p /\ op[p] = "acquire" /\ apc[p] = "done" /\ p \in Supervisors
    BY LockfileAssumption
    DEF Finish, LeaveGuard, GuardStolen, NoEarlyTheft, Elected, Owns, TypeOK, LockTypeOK,
        PlacesAgree, InGuard, StagesAgree
  <2>3. <<r, q>> \in Conflict
    BY OwnershipAssumption
  <2>4. CASE q = p
    BY <2>1, <2>2, <2>4 DEF ScanSeesRivals, OneElected
  <2>5. CASE r = p
    BY <2>1, <2>2, <2>3, <2>5 DEF ScanSeesRivals, OneElected
  <2>6. CASE q # p /\ r # p
    BY <2>1, <2>6 DEF OneElected
  <2> QED BY <2>4, <2>5, <2>6
<1> QED BY <1>1, <1>2, <1>3, <1>4, <1>5, <1>6

(* The rmdir of release preserves ElectionInv, even when the directory it hits
   is a successor's. *)
LEMMA ReleaseGuardStep ==
  ASSUME NoEarlyTheft, ElectionInv, NEW p \in Procs, ReleaseGuard(p)
  PROVE  ElectionInv'
<1> USE DEF ElectionInv
<1>1. TypeOK'
  BY DEF ReleaseGuard, Unlock, regVars, TypeOK, LockTypeOK, LockSteps
<1>2. PlacesAgree'
  BY DEF ReleaseGuard, Unlock, Removable, regVars, NoEarlyTheft, PlacesAgree, InGuard,
         TypeOK
<1>3. StagesAgree'
  BY DEF ReleaseGuard, regVars, StagesAgree, Owns, TypeOK
<1>4. ScanSeesRivals'
  BY LockfileAssumption, OwnershipAssumption DEF ReleaseGuard, Unlock, ScanSeesRivals,
         TypeOK
<1>5. RecordsOfElected'
  BY DEF ReleaseGuard, regVars, RecordsOfElected, Elected, Owns, TypeOK
<1>6. OneElected'
  BY DEF ReleaseGuard, regVars, OneElected, Elected, Owns, TypeOK
<1> QED BY <1>1, <1>2, <1>3, <1>4, <1>5, <1>6

(* readActiveShutdownAdmission preserves ElectionInv. *)
LEMMA ReadAdmissionStep ==
  ASSUME NoEarlyTheft, ElectionInv, NEW p \in Procs, ReadAdmission(p)
  PROVE  ElectionInv'
<1> USE DEF ElectionInv
<1>1. TypeOK'
  BY DEF ReadAdmission, LeaveGuard, AfterRead, lockVars, TypeOK, LockTypeOK, LockSteps, Ops,
         GuardedSteps
<1>2. PlacesAgree'
  BY DEF ReadAdmission, LeaveGuard, AfterRead, lockVars, PlacesAgree, InGuard, TypeOK,
         LockTypeOK
<1>3. StagesAgree'
  BY DEF ReadAdmission, StagesAgree, Owns, TypeOK, PlacesAgree
<1>4. ScanSeesRivals'
  BY OwnershipAssumption DEF ReadAdmission, LeaveGuard, AfterRead, lockVars, ScanSeesRivals,
         Elected, Owns, TypeOK
<1>5. RecordsOfElected'
  BY OwnershipAssumption DEF ReadAdmission, LeaveGuard, AfterRead, RecordsOfElected,
         Elected, Owns, TypeOK
<1>6. OneElected'
  BY OwnershipAssumption DEF ReadAdmission, LeaveGuard, GuardStolen, AfterRead, lockVars,
         TypeOK, OneElected, Elected, Owns
<1> QED BY <1>1, <1>2, <1>3, <1>4, <1>5, <1>6

(* The removal of an inactive admission record preserves ElectionInv. *)
LEMMA PurgeAdmissionStep ==
  ASSUME NoEarlyTheft, ElectionInv, NEW p \in Procs, PurgeAdmission(p)
  PROVE  ElectionInv'
<1> USE DEF ElectionInv
<1>1. TypeOK'
  BY DEF PurgeAdmission, AfterRead, lockVars, TypeOK, LockTypeOK, GuardedSteps
<1>2. PlacesAgree'
  BY DEF PurgeAdmission, AfterRead, lockVars, TypeOK, PlacesAgree, InGuard
<1>3. StagesAgree'
  BY DEF PurgeAdmission, TypeOK, StagesAgree, Owns
<1>4. ScanSeesRivals'
  BY DEF PurgeAdmission, AfterRead, lockVars, TypeOK, ScanSeesRivals, Elected, Owns
<1>5. RecordsOfElected'
  BY DEF PurgeAdmission, AfterRead, lockVars, TypeOK, RecordsOfElected, Elected, Owns
<1>6. OneElected'
  BY DEF PurgeAdmission, AfterRead, lockVars, TypeOK, OneElected, Elected, Owns
<1> QED BY <1>1, <1>2, <1>3, <1>4, <1>5, <1>6

(* listOwnerDirectories preserves ElectionInv: the list holds the record of every
   elected supervisor. *)
LEMMA ListOwnersStep ==
  ASSUME NoEarlyTheft, ElectionInv, NEW p \in Procs, ListOwners(p)
  PROVE  ElectionInv'
<1> USE DEF ElectionInv
<1>1. TypeOK'
  BY OwnershipAssumption DEF ListOwners, lockVars, TypeOK, LockTypeOK, GuardedSteps,
         PlacesAgree, StagesAgree
<1>2. PlacesAgree'
  BY DEF ListOwners, lockVars, TypeOK, PlacesAgree, InGuard
<1>3. StagesAgree'
  BY DEF ListOwners, TypeOK, StagesAgree, Owns
<1>4. ScanSeesRivals'
  BY DEF ListOwners, lockVars, TypeOK, ScanSeesRivals, Elected, Owns, PlacesAgree, InGuard,
         StagesAgree, RecordsOfElected
<1>5. RecordsOfElected'
  BY DEF ListOwners, TypeOK, RecordsOfElected, Elected, Owns
<1>6. OneElected'
  BY DEF ListOwners, TypeOK, OneElected, Elected, Owns
<1> QED BY <1>1, <1>2, <1>3, <1>4, <1>5, <1>6

(* A round of acquire's scan preserves ElectionInv: only a dead owner's record is
   renamed away, and a live conflicting one ends the scan. *)
LEMMA ScanOwnerStep ==
  ASSUME NoEarlyTheft, ElectionInv, NEW p \in Procs, ScanOwner(p)
  PROVE  ElectionInv'
<1> USE DEF ElectionInv
<1>1. TypeOK'
  BY DEF ScanOwner, LeaveGuard, GuardStolen, LooksAlive, Live, lockVars, TypeOK, LockTypeOK,
         LockSteps, GuardedSteps
<1>2. PlacesAgree'
  BY DEF ScanOwner, LeaveGuard, GuardStolen, LooksAlive, Live, lockVars, TypeOK,
         PlacesAgree, InGuard, LockTypeOK
<1>3. StagesAgree'
  BY DEF ScanOwner, TypeOK, StagesAgree, Owns
<1>4. ScanSeesRivals'
  BY OwnershipAssumption DEF ScanOwner, LeaveGuard, GuardStolen, LooksAlive, Live, lockVars,
         TypeOK, ScanSeesRivals, Elected, Owns, PlacesAgree, InGuard, StagesAgree
<1>5. RecordsOfElected'
  BY OwnershipAssumption DEF ScanOwner, LeaveGuard, GuardStolen, LooksAlive, Live, lockVars,
         TypeOK, RecordsOfElected, Elected, Owns, StagesAgree
<1>6. OneElected'
  BY OwnershipAssumption DEF ScanOwner, LeaveGuard, GuardStolen, LooksAlive, Live, lockVars,
         TypeOK, OneElected, Elected, Owns
<1> QED BY <1>1, <1>2, <1>3, <1>4, <1>5, <1>6

(* The installation of the own record preserves ElectionInv. *)
LEMMA InstallStep ==
  ASSUME NoEarlyTheft, ElectionInv, NEW p \in Procs, Install(p)
  PROVE  ElectionInv'
<1> USE DEF ElectionInv
<1>1. TypeOK'
  BY DEF Install, lockVars, TypeOK, LockTypeOK, GuardedSteps, PlacesAgree, StagesAgree
<1>2. PlacesAgree'
  BY DEF Install, lockVars, TypeOK, PlacesAgree, InGuard
<1>3. StagesAgree'
  BY DEF Install, TypeOK, StagesAgree, Owns
<1>4. ScanSeesRivals'
  BY DEF Install, lockVars, TypeOK, ScanSeesRivals, Elected, Owns
<1>5. RecordsOfElected'
  BY DEF Install, TypeOK, RecordsOfElected, Elected, Owns
<1>6. OneElected'
  BY DEF Install, TypeOK, OneElected, Elected, Owns
<1> QED BY <1>1, <1>2, <1>3, <1>4, <1>5, <1>6

(* updatePhase preserves ElectionInv. *)
LEMMA MutatePhaseStep ==
  ASSUME NoEarlyTheft, ElectionInv, NEW p \in Procs, MutatePhase(p)
  PROVE  ElectionInv'
<1> USE DEF ElectionInv
<1>1. TypeOK'
  BY DEF MutatePhase, LeaveGuard, GuardStolen, lockVars, TypeOK, LockTypeOK, LockSteps,
         GuardedSteps
<1>2. PlacesAgree'
  BY DEF MutatePhase, LeaveGuard, GuardStolen, lockVars, TypeOK, PlacesAgree, InGuard,
         LockTypeOK
<1>3. StagesAgree'
  BY DEF MutatePhase, TypeOK, StagesAgree, Owns
<1>4. ScanSeesRivals'
  BY OwnershipAssumption DEF MutatePhase, LeaveGuard, GuardStolen, lockVars, TypeOK,
         ScanSeesRivals, Elected, Owns
<1>5. RecordsOfElected'
  BY OwnershipAssumption DEF MutatePhase, LeaveGuard, GuardStolen, lockVars, TypeOK,
         RecordsOfElected, Elected, Owns
<1>6. OneElected'
  BY OwnershipAssumption DEF MutatePhase, LeaveGuard, GuardStolen, lockVars, TypeOK,
         OneElected, Elected, Owns
<1> QED BY <1>1, <1>2, <1>3, <1>4, <1>5, <1>6

(* The release of the own record preserves ElectionInv: the supervisor is closing. *)
LEMMA RemoveOwnerStep ==
  ASSUME NoEarlyTheft, ElectionInv, NEW p \in Procs, RemoveOwner(p)
  PROVE  ElectionInv'
<1> USE DEF ElectionInv
<1>1. TypeOK'
  BY DEF RemoveOwner, lockVars, TypeOK, LockTypeOK, LockSteps, GuardedSteps
<1>2. PlacesAgree'
  BY DEF RemoveOwner, lockVars, TypeOK, PlacesAgree, InGuard
<1>3. StagesAgree'
  BY DEF RemoveOwner, TypeOK, StagesAgree, Owns
<1>4. ScanSeesRivals'
  BY DEF RemoveOwner, lockVars, TypeOK, ScanSeesRivals, Elected, Owns
<1>5. RecordsOfElected'
  BY DEF RemoveOwner, TypeOK, RecordsOfElected, Elected, Owns, StagesAgree
<1>6. OneElected'
  BY DEF RemoveOwner, TypeOK, OneElected, Elected, Owns
<1> QED BY <1>1, <1>2, <1>3, <1>4, <1>5, <1>6

(* The release of an admission preserves ElectionInv. *)
LEMMA RemoveAdmissionStep ==
  ASSUME NoEarlyTheft, ElectionInv, NEW p \in Procs, RemoveAdmission(p)
  PROVE  ElectionInv'
<1> USE DEF ElectionInv
<1>1. TypeOK'
  BY DEF RemoveAdmission, lockVars, TypeOK, LockTypeOK, LockSteps, GuardedSteps
<1>2. PlacesAgree'
  BY DEF RemoveAdmission, lockVars, TypeOK, PlacesAgree, InGuard
<1>3. StagesAgree'
  BY DEF RemoveAdmission, TypeOK, StagesAgree, Owns
<1>4. ScanSeesRivals'
  BY DEF RemoveAdmission, lockVars, TypeOK, ScanSeesRivals, Elected, Owns
<1>5. RecordsOfElected'
  BY DEF RemoveAdmission, TypeOK, RecordsOfElected, Elected, Owns
<1>6. OneElected'
  BY DEF RemoveAdmission, TypeOK, OneElected, Elected, Owns
<1> QED BY <1>1, <1>2, <1>3, <1>4, <1>5, <1>6

(* renewUnderGuard's check preserves ElectionInv. *)
LEMMA CheckAdmissionStep ==
  ASSUME NoEarlyTheft, ElectionInv, NEW p \in Procs, CheckAdmission(p)
  PROVE  ElectionInv'
<1> USE DEF ElectionInv
<1>1. TypeOK'
  BY DEF CheckAdmission, LeaveGuard, GuardStolen, lockVars, TypeOK, LockTypeOK, LockSteps,
         GuardedSteps
<1>2. PlacesAgree'
  BY DEF CheckAdmission, LeaveGuard, GuardStolen, lockVars, TypeOK, PlacesAgree, InGuard,
         LockTypeOK
<1>3. StagesAgree'
  BY DEF CheckAdmission, TypeOK, StagesAgree, Owns
<1>4. ScanSeesRivals'
  BY OwnershipAssumption DEF CheckAdmission, LeaveGuard, GuardStolen, lockVars, TypeOK,
         ScanSeesRivals, Elected, Owns
<1>5. RecordsOfElected'
  BY OwnershipAssumption DEF CheckAdmission, LeaveGuard, GuardStolen, lockVars, TypeOK,
         RecordsOfElected, Elected, Owns
<1>6. OneElected'
  BY OwnershipAssumption DEF CheckAdmission, LeaveGuard, GuardStolen, lockVars, TypeOK,
         OneElected, Elected, Owns
<1> QED BY <1>1, <1>2, <1>3, <1>4, <1>5, <1>6

(* The write of an admission record preserves ElectionInv. *)
LEMMA WriteAdmissionStep ==
  ASSUME NoEarlyTheft, ElectionInv, NEW p \in Procs, WriteAdmission(p)
  PROVE  ElectionInv'
<1> USE DEF ElectionInv
<1>1. TypeOK'
  BY DEF WriteAdmission, lockVars, TypeOK, LockTypeOK, GuardedSteps, PlacesAgree,
         StagesAgree
<1>2. PlacesAgree'
  BY DEF WriteAdmission, lockVars, TypeOK, PlacesAgree, InGuard
<1>3. StagesAgree'
  BY DEF WriteAdmission, TypeOK, StagesAgree, Owns
<1>4. ScanSeesRivals'
  BY DEF WriteAdmission, lockVars, TypeOK, ScanSeesRivals, Elected, Owns, PlacesAgree,
         InGuard
<1>5. RecordsOfElected'
  BY DEF WriteAdmission, TypeOK, RecordsOfElected, Elected, Owns, PlacesAgree, InGuard
<1>6. OneElected'
  BY DEF WriteAdmission, TypeOK, OneElected, Elected, Owns
<1> QED BY <1>1, <1>2, <1>3, <1>4, <1>5, <1>6

(* The settling of a guarded operation preserves ElectionInv. *)
LEMMA SettleStep ==
  ASSUME NoEarlyTheft, ElectionInv, NEW p \in Procs, Settle(p)
  PROVE  ElectionInv'
<1> USE DEF ElectionInv
<1>1. TypeOK'
  BY DEF Settle, AfterOutcome, lockVars, TypeOK, LockTypeOK, GuardedSteps, SupervisorStates,
         ToolStates, Ops, LockSteps
<1>2. PlacesAgree'
  BY DEF Settle, AfterOutcome, lockVars, TypeOK, PlacesAgree, InGuard
<1>3. StagesAgree'
  <2>1. op[p] # "none"
    BY DEF Settle, TypeOK, PlacesAgree
  <2>2. \A q \in Procs : q # p => st'[q] = st[q] /\ op'[q] = op[q]
    BY DEF Settle, TypeOK
  <2>3. op'[p] = "none" /\ st'[p] = AfterOutcome(st[p], op[p], apc[p] = "ok")
    BY DEF Settle, TypeOK
  <2>4. st'[p] \in {"acquiring", "acquired", "owner", "closing"} => p \in Supervisors
    BY <2>1, <2>3 DEF AfterOutcome, TypeOK, Ops, StagesAgree, Owns
  <2>5. st'[p] \in {"asking", "admitted", "lost", "leaving"} => p \in Tools
    BY <2>1, <2>3 DEF AfterOutcome, TypeOK, Ops, StagesAgree, Owns
  <2> QED BY <2>2, <2>3, <2>4, <2>5 DEF StagesAgree, Owns
<1>4. ScanSeesRivals'
  BY DEF Settle, AfterOutcome, lockVars, TypeOK, ScanSeesRivals, Elected, Owns, PlacesAgree,
         InGuard, StagesAgree
<1>5. RecordsOfElected'
  BY DEF Settle, AfterOutcome, lockVars, TypeOK, RecordsOfElected, Elected, Owns,
         StagesAgree
<1>6. OneElected'
  BY DEF Settle, AfterOutcome, lockVars, TypeOK, OneElected, Elected, Owns, StagesAgree
<1> QED BY <1>1, <1>2, <1>3, <1>4, <1>5, <1>6

(* A supervisor's start preserves ElectionInv. *)
LEMMA StartSupervisorStep ==
  ASSUME NoEarlyTheft, ElectionInv, NEW p \in Procs, StartSupervisor(p)
  PROVE  ElectionInv'
<1> USE DEF ElectionInv
<1>1. TypeOK'
  BY DEF StartSupervisor, Begin, BeginGuarded, Request, TypeOK, LockTypeOK, GuardedSteps,
         SupervisorStates, ToolStates, Ops, LockSteps
<1>2. PlacesAgree'
  BY DEF StartSupervisor, Begin, BeginGuarded, Request, TypeOK, PlacesAgree, InGuard
<1>3. StagesAgree'
  BY DEF StartSupervisor, Begin, BeginGuarded, Request, TypeOK, StagesAgree, Owns
<1>4. ScanSeesRivals'
  BY DEF StartSupervisor, Begin, BeginGuarded, Request, TypeOK, ScanSeesRivals, Elected,
         Owns, PlacesAgree, InGuard
<1>5. RecordsOfElected'
  BY DEF StartSupervisor, Begin, BeginGuarded, Request, TypeOK, RecordsOfElected, Elected,
         Owns, PlacesAgree, InGuard
<1>6. OneElected'
  BY DEF StartSupervisor, Begin, BeginGuarded, Request, TypeOK, OneElected, Elected, Owns,
         PlacesAgree, InGuard
<1> QED BY <1>1, <1>2, <1>3, <1>4, <1>5, <1>6

(* The call of updatePhase preserves ElectionInv. *)
LEMMA BecomeOwnerStep ==
  ASSUME NoEarlyTheft, ElectionInv, NEW p \in Procs, BecomeOwner(p)
  PROVE  ElectionInv'
<1> USE DEF ElectionInv
<1>1. TypeOK'
  BY DEF BecomeOwner, Begin, BeginGuarded, Request, TypeOK, LockTypeOK, GuardedSteps,
         SupervisorStates, ToolStates, Ops, LockSteps
<1>2. PlacesAgree'
  BY DEF BecomeOwner, Begin, BeginGuarded, Request, TypeOK, PlacesAgree, InGuard
<1>3. StagesAgree'
  BY DEF BecomeOwner, Begin, BeginGuarded, Request, TypeOK, StagesAgree, Owns
<1>4. ScanSeesRivals'
  BY DEF BecomeOwner, Begin, BeginGuarded, Request, TypeOK, ScanSeesRivals, Elected, Owns
<1>5. RecordsOfElected'
  BY DEF BecomeOwner, Begin, BeginGuarded, Request, TypeOK, RecordsOfElected, Elected, Owns
<1>6. OneElected'
  BY DEF BecomeOwner, Begin, BeginGuarded, Request, TypeOK, OneElected, Elected, Owns
<1> QED BY <1>1, <1>2, <1>3, <1>4, <1>5, <1>6

(* A query for an active shutdown admission preserves ElectionInv. *)
LEMMA AskShutdownStep ==
  ASSUME NoEarlyTheft, ElectionInv, NEW p \in Procs, AskShutdown(p)
  PROVE  ElectionInv'
<1> USE DEF ElectionInv
<1>1. TypeOK'
  BY DEF AskShutdown, Begin, BeginGuarded, Request, TypeOK, LockTypeOK, GuardedSteps,
         SupervisorStates, ToolStates, Ops, LockSteps
<1>2. PlacesAgree'
  BY DEF AskShutdown, Begin, BeginGuarded, Request, TypeOK, PlacesAgree, InGuard
<1>3. StagesAgree'
  BY DEF AskShutdown, Begin, BeginGuarded, Request, TypeOK, StagesAgree, Owns
<1>4. ScanSeesRivals'
  BY DEF AskShutdown, Begin, BeginGuarded, Request, TypeOK, ScanSeesRivals, Elected, Owns
<1>5. RecordsOfElected'
  BY DEF AskShutdown, Begin, BeginGuarded, Request, TypeOK, RecordsOfElected, Elected, Owns
<1>6. OneElected'
  BY DEF AskShutdown, Begin, BeginGuarded, Request, TypeOK, OneElected, Elected, Owns
<1> QED BY <1>1, <1>2, <1>3, <1>4, <1>5, <1>6

(* A supervisor's shutdown preserves ElectionInv: it stops owning before it
   releases its record. *)
LEMMA CloseStep ==
  ASSUME NoEarlyTheft, ElectionInv, NEW p \in Procs, Close(p)
  PROVE  ElectionInv'
<1> USE DEF ElectionInv
<1>1. TypeOK'
  BY DEF Close, Begin, BeginGuarded, Request, TypeOK, LockTypeOK, GuardedSteps,
         SupervisorStates, ToolStates, Ops, LockSteps
<1>2. PlacesAgree'
  BY DEF Close, Begin, BeginGuarded, Request, TypeOK, PlacesAgree, InGuard
<1>3. StagesAgree'
  BY DEF Close, Begin, BeginGuarded, Request, TypeOK, StagesAgree, Owns
<1>4. ScanSeesRivals'
  BY DEF Close, Begin, BeginGuarded, Request, TypeOK, ScanSeesRivals, Elected, Owns
<1>5. RecordsOfElected'
  BY DEF Close, Begin, BeginGuarded, Request, TypeOK, RecordsOfElected, Elected, Owns
<1>6. OneElected'
  BY DEF Close, Begin, BeginGuarded, Request, TypeOK, OneElected, Elected, Owns
<1> QED BY <1>1, <1>2, <1>3, <1>4, <1>5, <1>6

(* The call of acquireDaemonShutdownAdmission preserves ElectionInv. *)
LEMMA AskStep ==
  ASSUME NoEarlyTheft, ElectionInv, NEW p \in Procs, Ask(p)
  PROVE  ElectionInv'
<1> USE DEF ElectionInv
<1>1. TypeOK'
  BY DEF Ask, Begin, BeginGuarded, Request, TypeOK, LockTypeOK, GuardedSteps,
         SupervisorStates, ToolStates, Ops, LockSteps
<1>2. PlacesAgree'
  BY DEF Ask, Begin, BeginGuarded, Request, TypeOK, PlacesAgree, InGuard
<1>3. StagesAgree'
  BY DEF Ask, Begin, BeginGuarded, Request, TypeOK, StagesAgree, Owns
<1>4. ScanSeesRivals'
  BY DEF Ask, Begin, BeginGuarded, Request, TypeOK, ScanSeesRivals, Elected, Owns
<1>5. RecordsOfElected'
  BY DEF Ask, Begin, BeginGuarded, Request, TypeOK, RecordsOfElected, Elected, Owns
<1>6. OneElected'
  BY DEF Ask, Begin, BeginGuarded, Request, TypeOK, OneElected, Elected, Owns
<1> QED BY <1>1, <1>2, <1>3, <1>4, <1>5, <1>6

(* The call of assertOrRenew preserves ElectionInv. *)
LEMMA RenewStep ==
  ASSUME NoEarlyTheft, ElectionInv, NEW p \in Procs, Renew(p)
  PROVE  ElectionInv'
<1> USE DEF ElectionInv
<1>1. TypeOK'
  BY DEF Renew, Begin, BeginGuarded, Request, TypeOK, LockTypeOK, GuardedSteps,
         SupervisorStates, ToolStates, Ops, LockSteps
<1>2. PlacesAgree'
  BY DEF Renew, Begin, BeginGuarded, Request, TypeOK, PlacesAgree, InGuard
<1>3. StagesAgree'
  BY DEF Renew, Begin, BeginGuarded, Request, TypeOK, StagesAgree, Owns
<1>4. ScanSeesRivals'
  BY DEF Renew, Begin, BeginGuarded, Request, TypeOK, ScanSeesRivals, Elected, Owns
<1>5. RecordsOfElected'
  BY DEF Renew, Begin, BeginGuarded, Request, TypeOK, RecordsOfElected, Elected, Owns
<1>6. OneElected'
  BY DEF Renew, Begin, BeginGuarded, Request, TypeOK, OneElected, Elected, Owns
<1> QED BY <1>1, <1>2, <1>3, <1>4, <1>5, <1>6

(* The call of DaemonShutdownAdmission.release preserves ElectionInv. *)
LEMMA WithdrawStep ==
  ASSUME NoEarlyTheft, ElectionInv, NEW p \in Procs, Withdraw(p)
  PROVE  ElectionInv'
<1> USE DEF ElectionInv
<1>1. TypeOK'
  BY DEF Withdraw, Begin, BeginGuarded, Request, TypeOK, LockTypeOK, GuardedSteps,
         SupervisorStates, ToolStates, Ops, LockSteps
<1>2. PlacesAgree'
  BY DEF Withdraw, Begin, BeginGuarded, Request, TypeOK, PlacesAgree, InGuard
<1>3. StagesAgree'
  BY DEF Withdraw, Begin, BeginGuarded, Request, TypeOK, StagesAgree, Owns
<1>4. ScanSeesRivals'
  BY DEF Withdraw, Begin, BeginGuarded, Request, TypeOK, ScanSeesRivals, Elected, Owns
<1>5. RecordsOfElected'
  BY DEF Withdraw, Begin, BeginGuarded, Request, TypeOK, RecordsOfElected, Elected, Owns
<1>6. OneElected'
  BY DEF Withdraw, Begin, BeginGuarded, Request, TypeOK, OneElected, Elected, Owns
<1> QED BY <1>1, <1>2, <1>3, <1>4, <1>5, <1>6

(* The stop of a renewal in flight preserves ElectionInv. *)
LEMMA StopStep ==
  ASSUME NoEarlyTheft, ElectionInv, NEW p \in Procs, Stop(p)
  PROVE  ElectionInv'
<1> USE DEF ElectionInv
<1>1. TypeOK'
  BY DEF Stop, lockVars, TypeOK, LockTypeOK, ToolStates
<1>2. PlacesAgree'
  BY DEF Stop, lockVars, PlacesAgree, InGuard
<1>3. StagesAgree'
  BY DEF Stop, StagesAgree, Owns, TypeOK
<1>4. ScanSeesRivals'
  BY OwnershipAssumption DEF Stop, lockVars, ScanSeesRivals, Elected, Owns, TypeOK
<1>5. RecordsOfElected'
  BY OwnershipAssumption DEF Stop, RecordsOfElected, Elected, Owns, TypeOK
<1>6. OneElected'
  BY OwnershipAssumption DEF Stop, OneElected, Elected, Owns, TypeOK
<1> QED BY <1>1, <1>2, <1>3, <1>4, <1>5, <1>6

(* The death of a process at any step preserves ElectionInv. *)
LEMMA DieStep ==
  ASSUME NoEarlyTheft, ElectionInv, NEW p \in Procs, Die(p)
  PROVE  ElectionInv'
<1> USE DEF ElectionInv
<1>1. TypeOK'
  BY DEF Die, TypeOK, LockTypeOK, GuardedSteps, SupervisorStates, ToolStates, Ops, LockSteps
<1>2. PlacesAgree'
  BY DEF Die, TypeOK, PlacesAgree, InGuard, LockTypeOK
<1>3. StagesAgree'
  BY DEF Die, TypeOK, StagesAgree, Owns
<1>4. ScanSeesRivals'
  BY DEF Die, TypeOK, ScanSeesRivals, Elected, Owns
<1>5. RecordsOfElected'
  BY DEF Die, TypeOK, RecordsOfElected, Elected, Owns
<1>6. OneElected'
  BY DEF Die, TypeOK, OneElected, Elected, Owns
<1> QED BY <1>1, <1>2, <1>3, <1>4, <1>5, <1>6

(* The expiry of the admission record, and a step that changes nothing,
   preserve ElectionInv. *)
LEMMA ExpireStep ==
  ASSUME ElectionInv, Expire \/ UNCHANGED vars
  PROVE  ElectionInv'
<1> USE DEF ElectionInv
<1>1. TypeOK'
  BY DEF Expire, vars, lockVars, TypeOK, LockTypeOK
<1>2. UNCHANGED <<lockDir, lpc, st, op, apc, ino, todo, owners>>
  BY DEF Expire, vars, lockVars
<1>3. PlacesAgree'
  BY <1>2 DEF PlacesAgree, InGuard
<1>4. StagesAgree'
  BY <1>2 DEF StagesAgree, Owns
<1>5. ScanSeesRivals'
  BY <1>2 DEF ScanSeesRivals, Elected, Owns
<1>6. RecordsOfElected'
  BY <1>2 DEF RecordsOfElected, Elected, Owns
<1>7. OneElected'
  BY <1>2 DEF OneElected, Elected, Owns
<1> QED BY <1>1, <1>3, <1>4, <1>5, <1>6, <1>7

(* The empty registry satisfies ElectionInv. *)
LEMMA ElectionInit == Init => ElectionInv
<1> SUFFICES ASSUME Init PROVE ElectionInv
  OBVIOUS
<1> USE DEF Init, LockInit
<1>1. TypeOK
  BY DEF TypeOK, LockTypeOK, LockSteps, SupervisorStates, ToolStates, Ops, GuardedSteps
<1>2. PlacesAgree
  BY LockfileAssumption DEF PlacesAgree, InGuard
<1>3. StagesAgree
  BY DEF StagesAgree, Owns
<1>4. ScanSeesRivals /\ RecordsOfElected /\ OneElected
  BY OwnershipAssumption DEF ScanSeesRivals, RecordsOfElected, OneElected, Elected, Owns
<1> QED BY <1>1, <1>2, <1>3, <1>4 DEF ElectionInv

(* ElectionInv is inductive: every step of every process preserves it. *)
LEMMA ElectionNext ==
  ASSUME NoEarlyTheft, ElectionInv, [Next]_vars
  PROVE  ElectionInv'
<1>1. CASE Expire \/ UNCHANGED vars
  BY <1>1, ExpireStep
<1>2. ASSUME NEW p \in Procs, GuardStep(p) PROVE ElectionInv'
  BY <1>2, LockAttemptStep, LockRejectedStep, SampleStep, EnterStep, FinishStep,
     ReleaseGuardStep, SettleStep DEF GuardStep
<1>3. ASSUME NEW p \in Procs, RegistryStep(p) PROVE ElectionInv'
  BY <1>3, ReadAdmissionStep, PurgeAdmissionStep, ListOwnersStep, ScanOwnerStep,
     InstallStep, MutatePhaseStep, RemoveOwnerStep, RemoveAdmissionStep,
     CheckAdmissionStep, WriteAdmissionStep DEF RegistryStep
<1>4. ASSUME NEW p \in Procs, CallerStep(p) PROVE ElectionInv'
  BY <1>4, StartSupervisorStep, BecomeOwnerStep, AskShutdownStep, CloseStep, AskStep,
     RenewStep, WithdrawStep, StopStep, DieStep DEF CallerStep
<1> QED BY <1>1, <1>2, <1>3, <1>4 DEF Next

(* Every state the registry reaches satisfies ElectionInv, hence its types:
   withDaemonSupervisorRegistryGuard keeps a contender that has lost the guard
   from being elected. *)
THEOREM ElectionInvariance ==
  ASSUME NoEarlyTheft
  PROVE  Spec => []ElectionInv
<1>1. Init => ElectionInv
  BY ElectionInit
<1>2. ElectionInv /\ [Next]_vars => ElectionInv'
  BY ElectionNext
<1> QED BY <1>1, <1>2, PTL DEF Spec

(* Type correctness of the registry. *)
THEOREM TypeCorrect ==
  ASSUME NoEarlyTheft
  PROVE  Spec => []TypeOK
<1>1. ElectionInv => TypeOK
  BY DEF ElectionInv
<1> QED BY <1>1, ElectionInvariance, PTL

(* Two supervisors whose sockets or descriptor directories clash never own
   them at the same time (acquireDaemonSupervisorOwnership). *)
THEOREM OwnersExclude ==
  ASSUME NoEarlyTheft
  PROVE  Spec => []MutualExclusion
<1>1. ElectionInv => MutualExclusion
  BY DEF ElectionInv, OneElected, MutualExclusion, Elected
<1> QED BY <1>1, ElectionInvariance, PTL

(* The record of a supervisor that owns its socket is on disk: no rival
   renames it away (acquireDaemonSupervisorOwnership's scan). *)
THEOREM OwnersAreRecorded ==
  ASSUME NoEarlyTheft
  PROVE  Spec => []OwnerRecordOnDisk
<1>1. ElectionInv => OwnerRecordOnDisk
  BY DEF ElectionInv, RecordsOfElected, OwnerRecordOnDisk, Elected
<1> QED BY <1>1, ElectionInvariance, PTL

-----------------------------------------------------------------------------
(***************************************************************************)
(* Proof that a renewal of the shutdown admission certifies: assertOrRenew *)
(* succeeds only if no supervisor has been elected since its tool was      *)
(* admitted.  The invariant is CertificateInv of SupervisorOwnership,      *)
(* inductive on top of ElectionInv and under the same hypothesis           *)
(* NoEarlyTheft.                                                           *)
(***************************************************************************)

(* The last assertGuardHeld preserves CertificateInv.  An election that counts
   is made by the holder of the guard, which has seen no active admission. *)
LEMMA FinishKeepsCertificate ==
  ASSUME NoEarlyTheft, ElectionInv, CertificateInv, NEW p \in Procs, Finish(p)
  PROVE  CertificateInv'
<1> USE DEF ElectionInv
<1>1. ~GuardStolen(p) => lockDir = p
  BY LockfileAssumption
  DEF Finish, GuardStolen, NoEarlyTheft, PlacesAgree, InGuard, TypeOK, LockTypeOK
<1> SUFFICES ASSUME NEW t \in Tools
             PROVE  /\ AdmittedOnDisk(t)' => newOwners'[t] = {}
                    /\ lockDir' = t /\ op'[t] = "renew" /\ apc'[t] \in {"write", "done"}
                         => newOwners'[t] = {}
                    /\ \A q \in Supervisors :
                         lockDir' = q /\ op'[q] = "acquire"
                           /\ apc'[q] \in {"purge", "list", "scan", "done"} => ~AdmittedOnDisk(t)'
  BY DEF CertificateInv
<1>2. t \in Procs /\ (p \in Supervisors => p # t)
  BY OwnershipAssumption
<1>3. CASE GuardStolen(p)
  <2>1. /\ newOwners' = newOwners /\ apc'[p] = "throw"
        /\ \A q \in Procs : q # p => apc'[q] = apc[q]
        /\ UNCHANGED <<lockDir, st, op, admBy, admExpired>>
    BY <1>3 DEF Finish, LeaveGuard, TypeOK
  <2>2. AdmittedOnDisk(t)' => AdmittedOnDisk(t)
    BY <1>2, <2>1 DEF AdmittedOnDisk, Pending
  <2> QED BY <1>2, <2>1, <2>2, OwnershipAssumption DEF CertificateInv
<1>4. CASE ~GuardStolen(p) /\ op[p] = "acquire"
  <2>1. newOwners'[t] = newOwners[t] \cup {p} /\ ~AdmittedOnDisk(t) /\ p \in Supervisors
    BY <1>1, <1>4 DEF Finish, CertificateInv, StagesAgree
  <2>2. AdmittedOnDisk(t)' => AdmittedOnDisk(t)
    BY <1>2, <2>1 DEF Finish, LeaveGuard, AdmittedOnDisk, Pending, TypeOK
  <2> QED BY <1>1, <1>2, <1>4, <2>1, <2>2, OwnershipAssumption DEF Finish, LeaveGuard, TypeOK
<1>5. CASE ~GuardStolen(p) /\ op[p] # "acquire"
  <2>1. newOwners'[t] = IF op[p] = "admit" /\ p = t THEN {} ELSE newOwners[t]
    BY <1>2, <1>5 DEF Finish, TypeOK, StagesAgree
  <2> QED BY <1>1, <1>2, <1>5, <2>1, OwnershipAssumption
          DEF Finish, LeaveGuard, CertificateInv, AdmittedOnDisk, Pending, TypeOK, StagesAgree
<1> QED BY <1>3, <1>4, <1>5

(* The settling of an operation preserves CertificateInv: a tool comes to rely
   on its admission only when the guarded write of it was certified. *)
LEMMA SettleKeepsCertificate ==
  ASSUME NoEarlyTheft, ElectionInv, CertificateInv, NEW p \in Procs, Settle(p)
  PROVE  CertificateInv'
<1> USE DEF ElectionInv
<1>1. /\ op'[p] = "none" /\ apc'[p] = "idle"
      /\ st'[p] = AfterOutcome(st[p], op[p], apc[p] = "ok")
      /\ \A q \in Procs : q # p => st'[q] = st[q] /\ op'[q] = op[q] /\ apc'[q] = apc[q]
      /\ UNCHANGED <<lockDir, admBy, admExpired, newOwners>>
  BY DEF Settle, TypeOK, lockVars
<1>2. Pending(p)' => Pending(p)
  <2>1. op[p] # "none" /\ op[p] \in Ops
    BY DEF Settle, TypeOK, PlacesAgree
  <2>2. SUFFICES ASSUME st'[p] = "admitted" PROVE Pending(p)
    BY <1>1 DEF Pending
  <2>3. CASE apc[p] = "ok"
    BY <1>1, <2>1, <2>2, <2>3 DEF AfterOutcome, Pending, Ops, StagesAgree, Owns
  <2>4. CASE apc[p] # "ok"
    BY <1>1, <2>1, <2>2, <2>4 DEF AfterOutcome, Ops, StagesAgree, Owns
  <2> QED BY <2>3, <2>4
<1>3. \A t \in Tools : AdmittedOnDisk(t)' => AdmittedOnDisk(t)
  BY <1>1, <1>2, OwnershipAssumption DEF AdmittedOnDisk, Pending
<1> QED BY <1>1, <1>3, OwnershipAssumption DEF CertificateInv

(* The call of assertOrRenew preserves CertificateInv. *)
LEMMA RenewKeepsCertificate ==
  ASSUME NoEarlyTheft, ElectionInv, CertificateInv, NEW p \in Procs, Renew(p)
  PROVE  CertificateInv'
<1> USE DEF ElectionInv
<1>1. /\ op[p] = "none" /\ st[p] = "admitted" /\ apc[p] = "idle"
      /\ op' = [op EXCEPT ![p] = "renew"] /\ st' = st
      /\ UNCHANGED <<lockDir, apc, admBy, admExpired, newOwners>>
  BY DEF Renew, Begin, BeginGuarded, Request, TypeOK, PlacesAgree
<1>2. \A t \in Tools : AdmittedOnDisk(t)' => AdmittedOnDisk(t)
  BY <1>1, OwnershipAssumption DEF AdmittedOnDisk, Pending, TypeOK
<1> QED BY <1>1, <1>2, OwnershipAssumption DEF CertificateInv, TypeOK

(* The other steps of a process preserve CertificateInv. *)
LEMMA StepKeepsCertificate ==
  ASSUME NoEarlyTheft, ElectionInv, CertificateInv, NEW p \in Procs,
         GuardStep(p) \/ RegistryStep(p) \/ CallerStep(p)
  PROVE  CertificateInv'
<1> USE DEF ElectionInv
<1>1. CASE LockAttempt(p)
  BY <1>1, LockfileAssumption, OwnershipAssumption DEF LockAttempt, Mkdir, FindStale,
         RemoveStale, RetryFails, CertificateInv, AdmittedOnDisk, Pending, TypeOK,
         PlacesAgree
<1>2. CASE LockRejected(p)
  BY <1>2 DEF LockRejected, GiveUp, CertificateInv, AdmittedOnDisk, Pending, TypeOK
<1>3. CASE Sample(p)
  BY <1>3 DEF Sample, lockVars, CertificateInv, AdmittedOnDisk, Pending, TypeOK
<1>4. CASE Enter(p)
  BY <1>4, OwnershipAssumption DEF Enter, LeaveGuard, FirstStep, lockVars, CertificateInv,
         AdmittedOnDisk, Pending, TypeOK
<1>5. CASE ReleaseGuard(p)
  BY <1>5, LockfileAssumption, OwnershipAssumption DEF ReleaseGuard, Unlock, regVars,
         CertificateInv, AdmittedOnDisk, Pending, TypeOK
<1>6. CASE ReadAdmission(p)
  BY <1>6, LockfileAssumption, OwnershipAssumption DEF ReadAdmission, LeaveGuard, lockVars,
         CertificateInv, AdmittedOnDisk, Pending, TypeOK, PlacesAgree, StagesAgree,
         AdmissionActive, LooksAlive, Live
<1>7. CASE PurgeAdmission(p)
  BY <1>7, LockfileAssumption, OwnershipAssumption DEF PurgeAdmission, lockVars,
         CertificateInv, AdmittedOnDisk, TypeOK, PlacesAgree
<1>8. CASE ListOwners(p)
  BY <1>8 DEF ListOwners, lockVars, CertificateInv, AdmittedOnDisk, Pending, TypeOK
<1>9. CASE ScanOwner(p)
  BY <1>9, OwnershipAssumption DEF ScanOwner, LeaveGuard, lockVars, CertificateInv,
         AdmittedOnDisk, Pending, TypeOK
<1>10. CASE Install(p)
  BY <1>10 DEF Install, lockVars, CertificateInv, AdmittedOnDisk, Pending, TypeOK,
         PlacesAgree
<1>11. CASE MutatePhase(p)
  BY <1>11, OwnershipAssumption DEF MutatePhase, LeaveGuard, lockVars, CertificateInv,
         AdmittedOnDisk, Pending, TypeOK
<1>12. CASE RemoveOwner(p)
  BY <1>12 DEF RemoveOwner, lockVars, CertificateInv, AdmittedOnDisk, Pending, TypeOK
<1>13. CASE RemoveAdmission(p)
  BY <1>13, LockfileAssumption, OwnershipAssumption DEF RemoveAdmission, lockVars,
         CertificateInv, AdmittedOnDisk, Pending, TypeOK
<1>14. CASE CheckAdmission(p)
  BY <1>14, OwnershipAssumption DEF CheckAdmission, LeaveGuard, lockVars, CertificateInv,
         AdmittedOnDisk, Pending, TypeOK, StagesAgree
<1>15. CASE WriteAdmission(p)
  BY <1>15 DEF WriteAdmission, lockVars, CertificateInv, AdmittedOnDisk, Pending, TypeOK,
         PlacesAgree, StagesAgree
<1>16. CASE StartSupervisor(p)
  BY <1>16 DEF StartSupervisor, Begin, BeginGuarded, Request, CertificateInv,
         AdmittedOnDisk, Pending, TypeOK, PlacesAgree
<1>17. CASE BecomeOwner(p)
  BY <1>17 DEF BecomeOwner, Begin, BeginGuarded, Request, CertificateInv, AdmittedOnDisk,
         Pending, TypeOK
<1>18. CASE AskShutdown(p)
  BY <1>18 DEF AskShutdown, Begin, BeginGuarded, Request, CertificateInv, AdmittedOnDisk,
         Pending, TypeOK
<1>19. CASE Close(p)
  BY <1>19 DEF Close, Begin, BeginGuarded, Request, CertificateInv, AdmittedOnDisk, Pending,
         TypeOK
<1>20. CASE Ask(p)
  BY <1>20 DEF Ask, Begin, BeginGuarded, Request, CertificateInv, AdmittedOnDisk, Pending,
         TypeOK, PlacesAgree
<1>21. CASE Withdraw(p)
  BY <1>21 DEF Withdraw, Stop, Begin, BeginGuarded, Request, CertificateInv, AdmittedOnDisk,
         Pending, TypeOK
<1>22. CASE Die(p)
  BY <1>22 DEF Die, CertificateInv, AdmittedOnDisk, Pending, TypeOK
<1>23. CASE Finish(p)
  BY <1>23, FinishKeepsCertificate
<1>24. CASE Settle(p)
  BY <1>24, SettleKeepsCertificate
<1>25. CASE Renew(p)
  BY <1>25, RenewKeepsCertificate
<1>26. CASE Stop(p)
  BY <1>26, OwnershipAssumption
  DEF Stop, lockVars, CertificateInv, AdmittedOnDisk, Pending, TypeOK
<1> QED BY <1>1, <1>2, <1>3, <1>4, <1>5, <1>6, <1>7, <1>8, <1>9, <1>10, <1>11, <1>12,
           <1>13, <1>14, <1>15, <1>16, <1>17, <1>18, <1>19, <1>20, <1>21, <1>22, <1>23,
           <1>24, <1>25, <1>26 DEF GuardStep, RegistryStep, CallerStep

(* CertificateInv is inductive relative to ElectionInv. *)
LEMMA CertificateNext ==
  ASSUME NoEarlyTheft, ElectionInv, CertificateInv, [Next]_vars
  PROVE  CertificateInv'
<1>1. CASE Expire \/ UNCHANGED vars
  <2>1. /\ UNCHANGED <<lockDir, st, op, apc, admBy, newOwners>>
        /\ ~admExpired' => ~admExpired
    BY <1>1 DEF Expire, vars, lockVars
  <2>2. \A t \in Tools : AdmittedOnDisk(t)' => AdmittedOnDisk(t)
    BY <2>1 DEF AdmittedOnDisk, Pending
  <2> QED BY <2>1, <2>2 DEF CertificateInv
<1>2. CASE \E p \in Procs : GuardStep(p) \/ RegistryStep(p) \/ CallerStep(p)
  BY <1>2, StepKeepsCertificate
<1> QED BY <1>1, <1>2 DEF Next

(* Both invariants hold in every reachable state. *)
THEOREM CertificateInvariance ==
  ASSUME NoEarlyTheft
  PROVE  Spec => []CertificateInv
<1>1. Init => CertificateInv
  BY OwnershipAssumption DEF Init, CertificateInv
<1>2. ElectionInv /\ CertificateInv /\ [Next]_vars => CertificateInv'
  BY CertificateNext
<1> QED BY <1>1, <1>2, ElectionInvariance, PTL DEF Spec

(* A step that certifies a renewal is a Finish by a tool that holds the guard,
   and no supervisor has been elected since the tool was admitted. *)
LEMMA RenewalStep ==
  ASSUME NoEarlyTheft, ElectionInv, CertificateInv, [Next]_vars,
         NEW t \in Tools, op[t] = "renew", apc[t] = "done", apc'[t] = "ok"
  PROVE  newOwners[t] = {}
<1> USE DEF ElectionInv
<1>1. t \in Procs /\ lpc[t] = "got" /\ ino[t] = t
  BY OwnershipAssumption DEF PlacesAgree, InGuard
<1>2. PICK p \in Procs : GuardStep(p) \/ RegistryStep(p) \/ CallerStep(p)
  BY DEF Next, Expire, vars
<1>3. CASE p # t
  <2>1. apc'[t] = apc[t]
    BY <1>2, <1>3, <1>1
    DEF GuardStep, RegistryStep, CallerStep, LockAttempt, LockRejected, Sample, Enter, Finish, LeaveGuard,
        ReleaseGuard, regVars, Settle, ReadAdmission, PurgeAdmission, ListOwners, ScanOwner, Install,
        MutatePhase, RemoveOwner, RemoveAdmission, CheckAdmission, WriteAdmission, StartSupervisor,
        BecomeOwner, AskShutdown, Close, Ask, Renew, Withdraw, Stop, Begin, Die, TypeOK
  <2> QED BY <2>1
<1>4. CASE p = t
  <2>1. ~GuardStolen(t)
    BY <1>2, <1>4, <1>1
    DEF GuardStep, RegistryStep, CallerStep, LockAttempt, Mkdir, FindStale, RemoveStale, RetryFails,
        LockRejected, GiveUp, Sample, Enter, Finish, LeaveGuard, ReleaseGuard, Unlock, regVars, Settle,
        ReadAdmission, PurgeAdmission, ListOwners, ScanOwner, Install, MutatePhase, RemoveOwner,
        RemoveAdmission, CheckAdmission, WriteAdmission, StartSupervisor, BecomeOwner, AskShutdown,
        Close, Ask, Renew, Withdraw, Stop, Begin, Die, TypeOK
  <2> QED BY <1>1, <2>1, LockfileAssumption
          DEF GuardStolen, NoEarlyTheft, CertificateInv, TypeOK, LockTypeOK
<1> QED BY <1>3, <1>4

(* When assertOrRenew succeeds, no supervisor has been elected since the
   shutdown tool was admitted. *)
THEOREM RenewalCertifies ==
  ASSUME NoEarlyTheft
  PROVE  Spec => RenewCertifies
<1>1. ElectionInv /\ CertificateInv /\ [Next]_vars =>
        [\A t \in Tools : op[t] = "renew" /\ apc[t] = "done" /\ apc'[t] = "ok"
                             => newOwners[t] = {}]_vars
  BY RenewalStep
<1> QED BY <1>1, ElectionInvariance, CertificateInvariance, PTL DEF Spec, RenewCertifies
=============================================================================
