------------------------ MODULE SupervisorOwnership ------------------------
(***************************************************************************)
(* The registry that elects daemon supervisors                             *)
(* (modes/daemon/daemon-supervisor-ownership.ts).  Supervisor processes    *)
(* acquire, re-assert and release ownership records; a `daemon shutdown    *)
(* --all` tool holds a renewable shutdown admission that keeps new         *)
(* supervisors from starting.  Every change of the registry directory is   *)
(* made under a guard, a proper-lockfile directory that can be stolen from *)
(* a process stalled for longer than REGISTRY_LOCK_STALE_MS: the guarded   *)
(* code is therefore NOT atomic, and its system calls are separate steps   *)
(* wherever another process can tell.                                      *)
(*                                                                         *)
(* One element of Supervisors or Tools is one process: it runs once, dies  *)
(* at any step (crash, kill or exit) and never comes back; a restarted     *)
(* supervisor is another element, with another generation.                 *)
(***************************************************************************)
EXTENDS Lockfile

CONSTANTS Supervisors, Tools,
          Conflict,          \* ownerConflicts: pairs with a common socket or descriptor dir
          Recycled,          \* processes whose pid is alive again after their death and whose
                             \* start id cannot be read: isProcessIdentityAlive says TRUE
          StealBeforeSample, \* may the guard directory be removed between the maker's mkdir and
                             \* its statSync of the inode?
          InodeReuse         \* may the file system give a new guard directory the inode number
                             \* of the one removed before it?

ASSUME OwnershipAssumption ==
  /\ Procs = Supervisors \cup Tools
  /\ Supervisors \cap Tools = {}
  /\ Conflict \subseteq Supervisors \X Supervisors
  /\ \A p, q \in Supervisors : <<p, q>> \in Conflict => <<q, p>> \in Conflict
  /\ Recycled \subseteq Procs
  /\ StealBeforeSample \in BOOLEAN
  /\ InodeReuse \in BOOLEAN

VARIABLES
  st,        \* the life of each process
  op,        \* the guarded operation it is running
  apc,       \* its place inside the guarded code
  ino,       \* the maker of the directory its statSync sampled; NoOne: stat failed
  todo,      \* owner directories listed and not yet scanned
  owners,    \* the supervisors whose `<generation>.owner` directory exists
  admBy,     \* the tool whose shutdown-admission.json is on disk, or NoOne
  admExpired,\* has that record's expiresAt passed?
  newOwners  \* history: supervisors elected since each tool's admission

regVars == <<st, op, apc, ino, todo, owners, admBy, admExpired, newOwners>>
vars == <<lockDir, lpc, st, op, apc, ino, todo, owners, admBy, admExpired, newOwners>>

SupervisorStates == {"new", "acquiring", "acquired", "owner", "closing", "over", "dead"}
ToolStates == {"new", "asking", "admitted", "lost", "leaving", "over", "dead"}
Ops == {"none", "acquire", "phase", "query", "release", "admit", "renew", "unadmit"}
GuardedSteps == {"idle", "sample", "enter", "read", "purge", "list", "scan", "install",
                 "mutate", "check", "write", "done", "ok", "throw"}

TypeOK ==
  /\ LockTypeOK
  /\ st \in [Procs -> SupervisorStates \cup ToolStates]
  /\ op \in [Procs -> Ops]
  /\ apc \in [Procs -> GuardedSteps]
  /\ ino \in [Procs -> Procs \cup {NoOne}]
  /\ todo \in [Supervisors -> SUBSET Supervisors]
  /\ owners \subseteq Supervisors
  /\ admBy \in Tools \cup {NoOne}
  /\ admExpired \in BOOLEAN
  /\ newOwners \in [Tools -> SUBSET Supervisors]

Init ==
  /\ LockInit
  /\ st = [p \in Procs |-> "new"]
  /\ op = [p \in Procs |-> "none"]
  /\ apc = [p \in Procs |-> "idle"]
  /\ ino = [p \in Procs |-> NoOne]
  /\ todo = [s \in Supervisors |-> {}]
  /\ owners = {}
  /\ admBy = NoOne
  /\ admExpired = FALSE
  /\ newOwners = [t \in Tools |-> {}]

-----------------------------------------------------------------------------
(* Processes and records *)

Live(p) == st[p] # "dead"

(* isProcessIdentityAlive on the identity in p's record. *)
LooksAlive(p) == Live(p) \/ p \in Recycled

(* readActiveShutdownAdmission's test, before the rmSync. *)
AdmissionActive == admBy # NoOne /\ ~admExpired /\ LooksAlive(admBy)

(* A supervisor that acts as the owner of its socket and descriptor dir. *)
Owns(p) == st[p] \in {"acquired", "owner"}

-----------------------------------------------------------------------------
(* withDaemonSupervisorRegistryGuard *)

(* Faulty variant: only a missing directory counts as a lost guard. *)
GuardMissing(p) == ino[p] # NoOne /\ lockDir = NoOne

(* guardStolen: the path's inode differs from the one sampled; when the
   sample failed the check always passes. *)
GuardStolen(p) ==
  /\ ino[p] # NoOne
  /\ \/ lockDir = NoOne
     \/ lockDir # ino[p] /\ ~InodeReuse

(* The directory may be removed now: its maker is past its inode sample,
   unless the environment allows a removal before it. *)
Removable == StealBeforeSample \/ \A m \in Procs : lockDir = m => apc[m] # "sample"

(* The guarded operation starts: lockfile.lock is called. *)
BeginGuarded(p, o) ==
  /\ op[p] = "none"
  /\ Request(p)
  /\ op' = [op EXCEPT ![p] = o]

LockAttempt(p) ==
  /\ \/ Mkdir(p) /\ apc' = [apc EXCEPT ![p] = "sample"]
     \/ FindStale(p) /\ UNCHANGED apc
     \/ Removable /\ RemoveStale(p) /\ UNCHANGED apc
     \/ RetryFails(p) /\ UNCHANGED apc
  /\ UNCHANGED <<st, op, ino, todo, owners, admBy, admExpired, newOwners>>

(* lockfile.lock rejects: the operation throws without having run. *)
LockRejected(p) ==
  /\ GiveUp(p)
  /\ apc' = [apc EXCEPT ![p] = "throw"]
  /\ UNCHANGED <<st, op, ino, todo, owners, admBy, admExpired, newOwners>>

(* const guardIno = statSync(guardPath).ino, or undefined when it throws. *)
Sample(p) ==
  /\ apc[p] = "sample"
  /\ ino' = [ino EXCEPT ![p] = lockDir]
  /\ apc' = [apc EXCEPT ![p] = "enter"]
  /\ UNCHANGED <<lockVars, st, op, todo, owners, admBy, admExpired, newOwners>>

(* What an operation does first under the guard. *)
FirstStep(o) == CASE o \in {"acquire", "admit", "query"} -> "read"
                  [] o \in {"phase", "release", "unadmit"} -> "mutate"
                  [] OTHER -> "check"

(* The finally block once the outcome is known: release the guard unless it
   was stolen. *)
LeaveGuard(p, outcome) ==
  /\ apc' = [apc EXCEPT ![p] = outcome]
  /\ lpc' = [lpc EXCEPT ![p] = IF GuardStolen(p) THEN "out" ELSE "leave"]
  /\ UNCHANGED lockDir

(* assertGuardHeld before the action. *)
Enter(p) ==
  /\ apc[p] = "enter"
  /\ \/ /\ ~GuardStolen(p)
        /\ apc' = [apc EXCEPT ![p] = FirstStep(op[p])]
        /\ UNCHANGED lockVars
     \/ GuardStolen(p) /\ LeaveGuard(p, "throw")
  /\ UNCHANGED <<st, op, ino, todo, owners, admBy, admExpired, newOwners>>

(* assertGuardHeld after the action, and the finally block. *)
Finish(p) ==
  /\ apc[p] = "done"
  /\ LeaveGuard(p, IF GuardStolen(p) THEN "throw" ELSE "ok")
  /\ newOwners' = IF GuardStolen(p) THEN newOwners ELSE
                     CASE op[p] = "acquire" -> [t \in Tools |-> newOwners[t] \cup {p}]
                       [] op[p] = "admit" -> [newOwners EXCEPT ![p] = {}]
                       [] OTHER -> newOwners
  /\ UNCHANGED <<st, op, ino, todo, owners, admBy, admExpired>>

ReleaseGuard(p) ==
  /\ Removable
  /\ Unlock(p)
  /\ UNCHANGED regVars

-----------------------------------------------------------------------------
(* The guarded actions, one system call that others can observe per step *)

(* What follows readActiveShutdownAdmission when it returns undefined. *)
AfterRead(o) == CASE o = "acquire" -> "list" [] o = "admit" -> "write" [] OTHER -> "done"

(* readActiveShutdownAdmission.  An active record makes acquire throw; the
   admission loop returns without a record of its own, so that its round was
   no more than a query.  An inactive one is removed by a later rmSync. *)
ReadAdmission(p) ==
  /\ apc[p] = "read"
  /\ \/ /\ AdmissionActive /\ op[p] = "acquire"
        /\ LeaveGuard(p, "throw")
        /\ UNCHANGED op
     \/ /\ AdmissionActive /\ op[p] # "acquire"
        /\ op' = [op EXCEPT ![p] = "query"]
        /\ apc' = [apc EXCEPT ![p] = "done"]
        /\ UNCHANGED lockVars
     \/ /\ ~AdmissionActive
        /\ apc' = [apc EXCEPT ![p] = IF admBy = NoOne THEN AfterRead(op[p]) ELSE "purge"]
        /\ UNCHANGED <<lockVars, op>>
  /\ UNCHANGED <<st, ino, todo, owners, admBy, admExpired, newOwners>>

(* rmSync(path, { force: true }) removes whatever record is there by now. *)
PurgeAdmission(p) ==
  /\ apc[p] = "purge"
  /\ admBy' = NoOne
  /\ admExpired' = FALSE
  /\ apc' = [apc EXCEPT ![p] = AfterRead(op[p])]
  /\ UNCHANGED <<lockVars, st, op, ino, todo, owners, newOwners>>

(* listOwnerDirectories *)
ListOwners(p) ==
  /\ apc[p] = "list"
  /\ todo' = [todo EXCEPT ![p] = owners]
  /\ apc' = [apc EXCEPT ![p] = "scan"]
  /\ UNCHANGED <<lockVars, st, op, ino, owners, admBy, admExpired, newOwners>>

(* One round of acquire's loop.  A directory that has vanished since it was
   listed and a conflicting owner that looks alive both throw; a dead one is
   renamed away.  Reading the record, testing the process and renaming are
   one step: a dead process stays dead, and only a dead process's directory
   is renamed by anyone but itself. *)
ScanOwner(p) ==
  /\ apc[p] = "scan"
  /\ \E d \in todo[p] :
       \/ /\ d \notin owners \/ (<<p, d>> \in Conflict /\ LooksAlive(d))
          /\ LeaveGuard(p, "throw")
          /\ todo' = [todo EXCEPT ![p] = {}]
          /\ UNCHANGED owners
       \/ /\ d \in owners /\ <<p, d>> \notin Conflict
          /\ todo' = [todo EXCEPT ![p] = @ \ {d}]
          /\ UNCHANGED <<lockVars, apc, owners>>
       \/ /\ d \in owners /\ <<p, d>> \in Conflict /\ ~LooksAlive(d)
          /\ todo' = [todo EXCEPT ![p] = @ \ {d}]
          /\ owners' = owners \ {d}
          /\ UNCHANGED <<lockVars, apc>>
  /\ UNCHANGED <<st, op, ino, admBy, admExpired, newOwners>>

(* renameSync(candidateDirectory, ownerDirectory) *)
Install(p) ==
  /\ apc[p] = "scan"
  /\ todo[p] = {}
  /\ owners' = owners \cup {p}
  /\ apc' = [apc EXCEPT ![p] = "done"]
  /\ UNCHANGED <<lockVars, st, op, ino, todo, admBy, admExpired, newOwners>>

(* mutateDaemonSupervisorOwner for updatePhase, whose caller throws when the
   record is gone; the phase field itself is read by no code. *)
MutatePhase(p) ==
  /\ apc[p] = "mutate" /\ op[p] = "phase"
  /\ IF p \in owners
       THEN apc' = [apc EXCEPT ![p] = "done"] /\ UNCHANGED lockVars
       ELSE LeaveGuard(p, "throw")
  /\ UNCHANGED <<st, op, ino, todo, owners, admBy, admExpired, newOwners>>

(* DaemonSupervisorOwnership.release: rename the own directory away. *)
RemoveOwner(p) ==
  /\ apc[p] = "mutate" /\ op[p] = "release"
  /\ owners' = owners \ {p}
  /\ apc' = [apc EXCEPT ![p] = "done"]
  /\ UNCHANGED <<lockVars, st, op, ino, todo, admBy, admExpired, newOwners>>

(* DaemonShutdownAdmission.release: rmSync if the token is the own one. *)
RemoveAdmission(p) ==
  /\ apc[p] = "mutate" /\ op[p] = "unadmit"
  /\ admBy' = IF admBy = p THEN NoOne ELSE admBy
  /\ admExpired' = (admExpired /\ admBy # p)
  /\ apc' = [apc EXCEPT ![p] = "done"]
  /\ UNCHANGED <<lockVars, st, op, ino, todo, owners, newOwners>>

(* Faulty variant: a renewal that does not compare the record on disk. *)
CheckNothing(p) ==
  /\ apc[p] = "check"
  /\ apc' = [apc EXCEPT ![p] = "write"]
  /\ UNCHANGED <<lockVars, st, op, ino, todo, owners, admBy, admExpired, newOwners>>

(* performRenew's test of `stopped` and renewUnderGuard's of the record on
   disk. *)
CheckAdmission(p) ==
  /\ apc[p] = "check"
  /\ \/ /\ st[p] = "admitted" /\ admBy = p /\ ~admExpired
        /\ apc' = [apc EXCEPT ![p] = "write"]
        /\ UNCHANGED lockVars
     \/ (st[p] # "admitted" \/ admBy # p \/ admExpired) /\ LeaveGuard(p, "throw")
  /\ UNCHANGED <<st, op, ino, todo, owners, admBy, admExpired, newOwners>>

(* writeJsonAtomically of a new or a renewed admission record. *)
WriteAdmission(p) ==
  /\ apc[p] = "write"
  /\ admBy' = p
  /\ admExpired' = FALSE
  /\ apc' = [apc EXCEPT ![p] = "done"]
  /\ UNCHANGED <<lockVars, st, op, ino, todo, owners, newOwners>>

-----------------------------------------------------------------------------
(* The callers *)

(* What the process does with the outcome of its operation. *)
AfterOutcome(s, o, ok) ==
  CASE o = "acquire" -> IF ok THEN "acquired" ELSE "over"
    [] o = "phase"   -> IF ok THEN "owner" ELSE "closing"
    [] o = "admit"   -> IF ok THEN "admitted" ELSE "over"
    [] o = "renew"   -> IF ok THEN s ELSE "lost"
    [] o \in {"release", "unadmit"} -> "over"
    [] OTHER -> IF s = "asking" /\ ~ok THEN "over" ELSE s

(* The promise of the guarded operation settles. *)
Settle(p) ==
  /\ apc[p] \in {"ok", "throw"} /\ lpc[p] = "out"
  /\ st' = [st EXCEPT ![p] = AfterOutcome(@, op[p], apc[p] = "ok")]
  /\ op' = [op EXCEPT ![p] = "none"]
  /\ apc' = [apc EXCEPT ![p] = "idle"]
  /\ ino' = [ino EXCEPT ![p] = NoOne]
  /\ UNCHANGED <<lockVars, todo, owners, admBy, admExpired, newOwners>>

Begin(p, from, to, o) ==
  /\ st[p] \in from
  /\ st' = [st EXCEPT ![p] = to]
  /\ BeginGuarded(p, o)
  /\ UNCHANGED <<apc, ino, todo, owners, admBy, admExpired, newOwners>>

(* DaemonSupervisor.start *)
StartSupervisor(p) == p \in Supervisors /\ Begin(p, {"new"}, "acquiring", "acquire")
BecomeOwner(p) == Begin(p, {"acquired"}, "acquired", "phase")

(* assertRecoveryAllowed and the worker's own check. *)
AskShutdown(p) == Owns(p) /\ Begin(p, {st[p]}, st[p], "query")

(* Faulty variant: the record is released before the server is closed. *)
CloseLast(p) == Begin(p, {"acquired", "owner", "closing"}, st[p], "release")

(* shutdown, or cleanupSupervisorResources after a failed start: the server
   is closed before ownership.release is called. *)
Close(p) == Begin(p, {"acquired", "owner", "closing"}, "closing", "release")

(* daemon shutdown --all: acquireDaemonShutdownAdmission loops until it has
   written its record, assertOrRenew runs before each stop and on a timer. *)
Ask(p) == p \in Tools /\ Begin(p, {"new", "asking"}, "asking", "admit")
Renew(p) == Begin(p, {"admitted"}, "admitted", "renew")
Withdraw(p) == Begin(p, {"admitted", "lost"}, "leaving", "unadmit")

(* RenewableRegistryRecord.stop while a renewal is in flight; the release of
   the admission waits for the renewal's end. *)
Stop(p) ==
  /\ st[p] = "admitted" /\ op[p] = "renew" /\ apc[p] \in {"idle", "ok", "throw"}
  /\ st' = [st EXCEPT ![p] = "lost"]
  /\ UNCHANGED <<lockVars, op, apc, ino, todo, owners, admBy, admExpired, newOwners>>

(* A process crashes, is killed or exits. *)
Die(p) ==
  /\ st[p] \notin {"new", "dead"}
  /\ st' = [st EXCEPT ![p] = "dead"]
  /\ op' = [op EXCEPT ![p] = "none"]
  /\ apc' = [apc EXCEPT ![p] = "idle"]
  /\ ino' = [ino EXCEPT ![p] = NoOne]
  /\ todo' = IF p \in Supervisors THEN [todo EXCEPT ![p] = {}] ELSE todo
  /\ lpc' = [lpc EXCEPT ![p] = "out"]
  /\ UNCHANGED <<lockDir, owners, admBy, admExpired, newOwners>>

(* The admission record on disk passes its expiresAt. *)
Expire ==
  /\ admBy # NoOne /\ ~admExpired
  /\ admExpired' = TRUE
  /\ UNCHANGED <<lockVars, st, op, apc, ino, todo, owners, admBy, newOwners>>

GuardStep(p) == LockAttempt(p) \/ LockRejected(p) \/ Sample(p) \/ Enter(p) \/ Finish(p)
                \/ ReleaseGuard(p) \/ Settle(p)

RegistryStep(p) == ReadAdmission(p) \/ PurgeAdmission(p) \/ ListOwners(p) \/ ScanOwner(p)
                   \/ Install(p) \/ MutatePhase(p) \/ RemoveOwner(p) \/ RemoveAdmission(p)
                   \/ CheckAdmission(p) \/ WriteAdmission(p)

CallerStep(p) == StartSupervisor(p) \/ BecomeOwner(p) \/ AskShutdown(p) \/ Close(p)
                 \/ Ask(p) \/ Renew(p) \/ Withdraw(p) \/ Stop(p) \/ Die(p)

Next == Expire \/ \E p \in Procs : GuardStep(p) \/ RegistryStep(p) \/ CallerStep(p)

Spec == Init /\ [][Next]_vars

-----------------------------------------------------------------------------
(* Properties *)

(* Two supervisors that share a socket or a descriptor directory never act
   as owners at the same time, whatever processes stall, die or steal the
   registry guard from one another (acquireDaemonSupervisorOwnership). *)
MutualExclusion ==
  \A p, q \in Supervisors : p # q /\ Owns(p) /\ Owns(q) => <<p, q>> \notin Conflict

(* The record of a supervisor that acts as owner stays on disk, so that
   assertCurrent and updatePhase never report a loss that did not happen:
   nobody but the supervisor itself renames it away while it lives. *)
OwnerRecordOnDisk == \A p \in Supervisors : Owns(p) => p \in owners

(* assertOrRenew certifies: when a renewal succeeds, no supervisor has been
   elected since the shutdown tool was admitted. *)
RenewCertifies ==
  [][\A t \in Tools : op[t] = "renew" /\ apc[t] = "done" /\ apc'[t] = "ok"
                        => newOwners[t] = {}]_vars

-----------------------------------------------------------------------------
(* The inductive invariant behind MutualExclusion and OwnerRecordOnDisk.  It
   needs an environment without StealBeforeSample and InodeReuse. *)

InGuard(p) == apc[p] \in {"enter", "read", "purge", "list", "scan", "mutate", "check",
                          "write", "done"}

(* Elected: the final assertGuardHeld of acquire has passed. *)
Elected(p) == Owns(p) \/ (op[p] = "acquire" /\ apc[p] = "ok")

(* Where a process is in its operation and where it is in the lock agree. *)
PlacesAgree ==
  \A p \in Procs :
    /\ apc[p] = "sample" => lockDir = p /\ lpc[p] = "got"
    /\ InGuard(p) => lpc[p] = "got" /\ ino[p] = p
    /\ lpc[p] \in {"want", "stealing", "retry"} => apc[p] = "idle"
    /\ lpc[p] = "leave" => apc[p] \in {"ok", "throw"}
    /\ op[p] = "none" => apc[p] = "idle" /\ lpc[p] = "out"
    /\ apc[p] \in {"list", "scan"} => op[p] = "acquire"
    /\ apc[p] \in {"read", "purge"} => op[p] \in {"acquire", "admit", "query"}
    /\ apc[p] = "check" => op[p] = "renew"
    /\ apc[p] = "write" => op[p] \in {"admit", "renew"}

(* Which operation a process runs agrees with the stage of its life. *)
StagesAgree ==
  \A p \in Procs :
    /\ op[p] = "acquire" => st[p] = "acquiring" /\ p \in Supervisors
    /\ op[p] = "phase" => st[p] = "acquired"
    /\ op[p] = "query" => Owns(p) \/ st[p] = "asking"
    /\ op[p] = "release" => st[p] = "closing"
    /\ op[p] = "admit" => st[p] = "asking"
    /\ op[p] = "renew" => st[p] \in {"admitted", "lost"}
    /\ op[p] = "unadmit" => st[p] = "leaving"
    /\ st[p] \in {"acquiring", "acquired", "owner", "closing"} => p \in Supervisors
    /\ st[p] \in {"asking", "admitted", "lost", "leaving"} => p \in Tools

(* A contender that still holds the guard has every elected rival ahead of
   its scan, and none once the scan is over. *)
ScanSeesRivals ==
  \A p, q \in Supervisors :
    lockDir = p /\ op[p] = "acquire" /\ Elected(q) /\ <<p, q>> \in Conflict =>
      /\ apc[p] = "scan" => q \in todo[p]
      /\ apc[p] # "done"

RecordsOfElected ==
  \A p \in Supervisors :
    Elected(p) \/ (op[p] = "acquire" /\ apc[p] = "done") => p \in owners

OneElected ==
  \A p, q \in Supervisors : p # q /\ Elected(p) /\ Elected(q) => <<p, q>> \notin Conflict

(* What is proved to be inductive. *)
ElectionInv == /\ TypeOK /\ PlacesAgree /\ StagesAgree
               /\ ScanSeesRivals /\ RecordsOfElected /\ OneElected

-----------------------------------------------------------------------------
(* The inductive invariant behind RenewCertifies, on top of ElectionInv *)

(* A tool whose next renewal may still succeed.  One that has lost the guard
   in the middle of its write will throw when it gets there. *)
Pending(t) ==
  \/ st[t] = "admitted" /\ apc[t] # "throw"
       /\ ~(op[t] = "renew" /\ apc[t] \in {"write", "done"} /\ lockDir # t)
  \/ op[t] = "admit" /\ apc[t] = "ok"

AdmittedOnDisk(t) == Pending(t) /\ admBy = t /\ ~admExpired

CertificateInv ==
  \A t \in Tools :
    /\ AdmittedOnDisk(t) => newOwners[t] = {}
    /\ lockDir = t /\ op[t] = "renew" /\ apc[t] \in {"write", "done"} => newOwners[t] = {}
    /\ \A p \in Supervisors :
         lockDir = p /\ op[p] = "acquire" /\ apc[p] \in {"purge", "list", "scan", "done"}
           => ~AdmittedOnDisk(t)
=============================================================================
