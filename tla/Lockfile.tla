------------------------------ MODULE Lockfile ------------------------------
(***************************************************************************)
(* The lock directory of the proper-lockfile library, as lockfile.lock and *)
(* lockfile.lockSync are used by the daemon supervisor registry and by the *)
(* session leases.  The library is not part of the repository; the module  *)
(* models what its callers rely on:                                        *)
(*                                                                         *)
(*   lock    mkdir the directory; if it is there and its mtime is older    *)
(*           than `stale`, rmdir it and mkdir once more with stale = 0; if *)
(*           that fails too, or the directory is fresh, try again later;   *)
(*   unlock  rmdir the path, whoever made the directory that is there now. *)
(*                                                                         *)
(* Time is abstracted: a directory may be found stale whenever it exists.  *)
(* A holder that crashed leaves one, and so does a holder whose process    *)
(* was stopped or stalled in synchronous code for `stale` milliseconds.    *)
(* The rmdir of a thief acts on the path, so it may hit a newer directory  *)
(* than the one it found stale.                                            *)
(***************************************************************************)

CONSTANTS Procs,  \* the processes that contend for the lock
          NoOne   \* the value of lockDir when the directory does not exist

ASSUME LockfileAssumption == NoOne \notin Procs

VARIABLES lockDir,  \* the process whose mkdir made the directory, or NoOne
          lpc       \* where each process is in lock / unlock

lockVars == <<lockDir, lpc>>

LockSteps == {"out", "want", "stealing", "retry", "got", "leave"}

LockTypeOK == /\ lockDir \in Procs \cup {NoOne}
              /\ lpc \in [Procs -> LockSteps]

LockInit == /\ lockDir = NoOne
            /\ lpc = [p \in Procs |-> "out"]

(* lockfile.lock is called. *)
Request(p) == /\ lpc[p] = "out"
              /\ lpc' = [lpc EXCEPT ![p] = "want"]
              /\ UNCHANGED lockDir

(* mkdir succeeds: first attempt, or the attempt after a stale rmdir. *)
Mkdir(p) == /\ lpc[p] \in {"want", "retry"}
            /\ lockDir = NoOne
            /\ lockDir' = p
            /\ lpc' = [lpc EXCEPT ![p] = "got"]

(* mkdir fails with EEXIST and stat says that the mtime is stale. *)
FindStale(p) == /\ lpc[p] = "want"
                /\ lockDir # NoOne
                /\ lpc' = [lpc EXCEPT ![p] = "stealing"]
                /\ UNCHANGED lockDir

(* rmdir of the path that was found stale; ENOENT is ignored. *)
RemoveStale(p) == /\ lpc[p] = "stealing"
                  /\ lpc' = [lpc EXCEPT ![p] = "retry"]
                  /\ lockDir' = NoOne

(* mkdir after the rmdir finds another directory: ELOCKED, wait and retry. *)
RetryFails(p) == /\ lpc[p] = "retry"
                 /\ lockDir # NoOne
                 /\ lpc' = [lpc EXCEPT ![p] = "want"]
                 /\ UNCHANGED lockDir

(* Every retry was used up while the directory was there: lock rejects. *)
GiveUp(p) == /\ lpc[p] = "want"
             /\ lockDir # NoOne
             /\ lpc' = [lpc EXCEPT ![p] = "out"]
             /\ UNCHANGED lockDir

(* unlock: rmdir of the path. *)
Unlock(p) == /\ lpc[p] = "leave"
             /\ lpc' = [lpc EXCEPT ![p] = "out"]
             /\ lockDir' = NoOne
=============================================================================
