---------------------------- MODULE SessionLease ----------------------------
(***************************************************************************)
(* The lease that lets one process at a time write a session file          *)
(* (core/session-lease.ts).  The lease is a directory with an owner.json;  *)
(* it is installed, reclaimed from dead owners and removed under a guard,  *)
(* a proper-lockfile directory taken with lockSync.  Unlike the registry   *)
(* guard of SupervisorOwnership this guard is not checked again: its       *)
(* `guardCompromised` is set by a timer, and no timer runs in the          *)
(* synchronous code under the guard, so assertGuardHeld never throws.      *)
(*                                                                         *)
(* One element of Procs is one process that opens the session once.        *)
(***************************************************************************)
EXTENDS Lockfile, Naturals

CONSTANTS Recycled,    \* processes whose pid is alive again after their death and whose
                       \* start id cannot be read: isLeaseOwnerAlive says TRUE
          GuardTheft,  \* may a process remove the guard directory of one that is alive?
          Torn         \* the lease directory exists and holds no owner.json

ASSUME LeaseAssumption ==
  /\ Recycled \subseteq Procs
  /\ GuardTheft \in BOOLEAN
  /\ Torn \notin Procs \cup {NoOne}

VARIABLES st,     \* the life of each process
          apc,    \* its place in the guarded code
          tries,  \* failed rounds of acquireSessionLease's loop
          lease   \* whose owner.json is in the lease directory, Torn, or NoOne

vars == <<lockDir, lpc, st, apc, tries, lease>>

Lives == {"new", "acquiring", "holding", "refused", "exhausted", "releasing", "over", "dead"}
LeaseSteps == {"idle", "install", "read", "reclaim", "check", "unlink", "rmdir", "done", "fail",
               "spent"}

(* Faulty variant: a single round. *)
OneAttempt == 1

(* The rounds of acquireSessionLease's loop. *)
Attempts == 3

TypeOK ==
  /\ LockTypeOK
  /\ st \in [Procs -> Lives]
  /\ apc \in [Procs -> LeaseSteps]
  /\ tries \in [Procs -> 0 .. Attempts]
  /\ lease \in Procs \cup {NoOne, Torn}

Init ==
  /\ LockInit
  /\ st = [p \in Procs |-> "new"]
  /\ apc = [p \in Procs |-> "idle"]
  /\ tries = [p \in Procs |-> 0]
  /\ lease = NoOne

-----------------------------------------------------------------------------
(* withLeaseGuard *)

(* isLeaseOwnerAlive on the identity in p's owner.json. *)
LooksAlive(p) == st[p] # "dead" \/ p \in Recycled

(* The guard directory may be removed by another process now. *)
Removable == GuardTheft \/ \A m \in Procs : lockDir = m => lpc[m] \notin {"got", "leave"}

(* The call of acquireSessionLease, or of release. *)
Begin(p, from, to) ==
  /\ st[p] = from
  /\ st' = [st EXCEPT ![p] = to]
  /\ Request(p)
  /\ UNCHANGED <<apc, tries, lease>>

Acquire(p) == Begin(p, "new", "acquiring")

Release(p) == Begin(p, "holding", "releasing")

LockAttempt(p) ==
  /\ \/ /\ Mkdir(p)
        /\ apc' = [apc EXCEPT ![p] = IF st[p] = "acquiring" THEN "install" ELSE "check"]
     \/ FindStale(p) /\ UNCHANGED apc
     \/ Removable /\ RemoveStale(p) /\ UNCHANGED apc
     \/ RetryFails(p) /\ UNCHANGED apc
  /\ UNCHANGED <<st, tries, lease>>

(* All 100 attempts found the guard taken: acquire throws, release ignores
   it and leaves its lease behind. *)
LockRejected(p) ==
  /\ GiveUp(p)
  /\ st' = [st EXCEPT ![p] = IF @ = "acquiring" THEN "refused" ELSE "over"]
  /\ UNCHANGED <<apc, tries, lease>>

(* The finally block calls the guard's release, then the result is returned
   or the error thrown.  Which error it is after the last round depends on
   the owner found then. *)
LeaveGuard(p) ==
  /\ apc[p] \in {"done", "fail", "spent"} /\ lpc[p] = "got"
  /\ lpc' = [lpc EXCEPT ![p] = "leave"]
  /\ UNCHANGED <<lockDir, st, apc, tries, lease>>

Return(p) ==
  /\ Unlock(p)
  /\ st' = [st EXCEPT ![p] = CASE @ # "acquiring" -> "over"
                               [] @ = "acquiring" /\ apc[p] = "done" -> "holding"
                               [] @ = "acquiring" /\ apc[p] = "fail" -> "refused"
                               [] @ = "acquiring" /\ apc[p] = "spent"
                                    /\ lease \in Procs /\ LooksAlive(lease) -> "refused"
                               [] OTHER -> "exhausted"]
  /\ apc' = [apc EXCEPT ![p] = "idle"]
  /\ UNCHANGED <<tries, lease>>

-----------------------------------------------------------------------------
(* acquireSessionLease under the guard *)

Go(p, step) == apc' = [apc EXCEPT ![p] = step]

(* Faulty variant: a directory that is in the way is never looked at. *)
InstallOrReclaim(p) ==
  /\ apc[p] = "install"
  /\ IF lease \in Procs THEN Go(p, "reclaim") /\ UNCHANGED lease
                        ELSE Go(p, "done") /\ lease' = p
  /\ UNCHANGED <<lockVars, st, tries>>

(* renameSync(candidateDirectory, directory): it replaces nothing but an
   empty directory, else it fails with ENOTEMPTY. *)
Install(p) ==
  /\ apc[p] = "install"
  /\ IF lease \in Procs THEN Go(p, "read") /\ UNCHANGED lease
                        ELSE Go(p, "done") /\ lease' = p
  /\ UNCHANGED <<lockVars, st, tries>>

(* readLeaseOwner and isLeaseOwnerAlive; a missing owner.json counts as an
   owner that is not alive. *)
ReadOwner(p) ==
  /\ apc[p] = "read"
  /\ Go(p, IF lease \in Procs /\ LooksAlive(lease) THEN "fail" ELSE "reclaim")
  /\ UNCHANGED <<lockVars, st, tries, lease>>

(* reclaimStaleLease renames away whatever directory is there by now; the
   loop goes on or is over. *)
Reclaim(p) ==
  /\ apc[p] = "reclaim"
  /\ lease' = NoOne
  /\ tries' = [tries EXCEPT ![p] = @ + 1]
  /\ Go(p, IF tries[p] + 1 < Attempts THEN "install" ELSE "spent")
  /\ UNCHANGED <<lockVars, st>>

-----------------------------------------------------------------------------
(* SessionLease.release under the guard *)

CheckToken(p) ==
  /\ apc[p] = "check"
  /\ Go(p, IF lease = p THEN "unlink" ELSE "done")
  /\ UNCHANGED <<lockVars, st, tries, lease>>

(* rmSync of the directory: first the file in it, then the directory, unless
   somebody has put another file there. *)
Unlink(p) ==
  /\ apc[p] = "unlink"
  /\ lease' = IF lease = NoOne THEN NoOne ELSE Torn
  /\ Go(p, "rmdir")
  /\ UNCHANGED <<lockVars, st, tries>>

Rmdir(p) ==
  /\ apc[p] = "rmdir"
  /\ lease' = IF lease = Torn THEN NoOne ELSE lease
  /\ Go(p, "done")
  /\ UNCHANGED <<lockVars, st, tries>>

(* The process crashes, is killed or exits; the directories stay. *)
Die(p) ==
  /\ st[p] \notin {"new", "dead"}
  /\ st' = [st EXCEPT ![p] = "dead"]
  /\ apc' = [apc EXCEPT ![p] = "idle"]
  /\ lpc' = [lpc EXCEPT ![p] = "out"]
  /\ UNCHANGED <<lockDir, tries, lease>>

Next == \E p \in Procs :
          \/ Acquire(p) \/ Release(p) \/ LockAttempt(p) \/ LockRejected(p)
          \/ LeaveGuard(p) \/ Return(p)
          \/ Install(p) \/ ReadOwner(p) \/ Reclaim(p)
          \/ CheckToken(p) \/ Unlink(p) \/ Rmdir(p) \/ Die(p)

Spec == Init /\ [][Next]_vars

-----------------------------------------------------------------------------
(* Properties *)

(* A session file is never open for writing in two processes: at most one
   live process has been given the lease by acquireSessionLease and has not
   begun to release it. *)
LeaseExclusive ==
  \A p, q \in Procs : st[p] = "holding" /\ st[q] = "holding" => p = q

(* While a process holds the lease its owner.json is the one on disk, through
   crashes of others in the middle of an acquire, a reclaim or a release. *)
HolderRecorded == \A p \in Procs : st[p] = "holding" => lease = p

(* The three rounds of the loop are enough: acquireSessionLease reports
   "Could not acquire session lease" only when guards are taken from live
   processes, never because earlier owners died halfway. *)
NeverExhausted == \A p \in Procs : st[p] # "exhausted"

-----------------------------------------------------------------------------
(* The inductive invariant behind the three properties, for an environment
   without GuardTheft *)

(* Who is past the lock holds the guard, and its place suits its call. *)
GuardHeld ==
  \A p \in Procs :
    /\ apc[p] # "idle" <=> lpc[p] \in {"got", "leave"}
    /\ apc[p] # "idle" => lockDir = p
    /\ lpc[p] = "leave" => apc[p] \in {"done", "fail", "spent"}
    /\ lpc[p] # "out" => st[p] \in {"acquiring", "releasing"}
    /\ apc[p] \in {"install", "read", "reclaim", "fail", "spent"} => st[p] = "acquiring"
    /\ apc[p] \in {"check", "unlink", "rmdir"} => st[p] = "releasing"

(* What a process under the guard has seen is still so. *)
LeaseAsSeen ==
  \A p \in Procs :
    /\ st[p] = "holding" \/ (st[p] = "acquiring" /\ apc[p] = "done") => lease = p
    /\ apc[p] = "reclaim" /\ lease \in Procs => st[lease] = "dead"
    /\ apc[p] = "unlink" => lease = p
    /\ apc[p] = "rmdir" => lease = Torn

(* A second round meets no lease. *)
RoundsNeeded ==
  \A p \in Procs :
    /\ st[p] = "new" \/ (st[p] = "acquiring" /\ apc[p] = "idle") => tries[p] = 0
    /\ apc[p] \in {"read", "reclaim"} => tries[p] = 0
    /\ apc[p] = "install" => tries[p] = 0 \/ (tries[p] = 1 /\ lease = NoOne)
    /\ apc[p] # "spent" /\ st[p] # "exhausted"

LeaseInv == TypeOK /\ GuardHeld /\ LeaseAsSeen /\ RoundsNeeded
=============================================================================
