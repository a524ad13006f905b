--------------------------- MODULE WorkerRecovery ---------------------------
(***************************************************************************)
(* The life of one client-owned session worker as its supervisor keeps it  *)
(* (modes/daemon/daemon-supervisor.ts): the durable descriptor, recovery   *)
(* with its probes and its relaunch, the deferred rounds, stops and their  *)
(* finalizer, attach and retry_worker, the crash of the supervisor and the *)
(* adoption of its workers; with the recovery journal that the worker      *)
(* writes (worker-recovery-journal.ts) and that tells which work was cut   *)
(* short.                                                                  *)
(*                                                                         *)
(* A process is an incarnation, numbered by launch; its pid may belong to  *)
(* another program after its death.  A step is what the supervisor does    *)
(* between two awaits.  Shutdown admission (SupervisorOwnership has it),   *)
(* pre-roster workers, archiving and the reaping of child processes are    *)
(* not modelled.  A recovery record names its session and whether it is    *)
(* busy; the name of the operation only decides whether a record that says *)
(* nothing new is written again.                                           *)
(***************************************************************************)
EXTENDS Naturals, Sequences, FiniteSets, JsonlFile

CONSTANTS Sessions,     \* the sessions of the worker
          MaxInc,       \* bound: worker processes launched
          MaxFaults,    \* bound: deaths, lost connections, recycled pids, crashes
          MaxOps,       \* bound: stops, attaches and retries
          MaxStops,     \* bound: stops of a registration, by clients and finalizer
          MaxLines,     \* bound: records of the recovery journal
          MaxAttempts,  \* the length of WORKER_RETRY_DELAYS_MS
          MaxRounds,    \* MAX_DEFERRED_RECOVERY_ROUNDS
          LookupFails,  \* the start id of a process may not be readable
          SlowCancel,   \* a recovery may get on while a stop cancels scheduled jobs
          CutWrites     \* an append may be cut short

ASSUME WorkerRecoveryAssumption ==
  /\ MaxInc \in Nat \ {0} /\ MaxFaults \in Nat /\ MaxOps \in Nat /\ MaxStops \in Nat /\ MaxLines \in Nat
  /\ MaxAttempts \in Nat \ {0} /\ MaxRounds \in Nat
  /\ {LookupFails, SlowCancel, CutWrites} \subseteq BOOLEAN

Records == [s : Sessions, busy : BOOLEAN]

ASSUME RecordsAssumption == Broken \notin Records

Inc == 1 .. MaxInc

VARIABLES
  proc,     \* each worker process: none, gated, up or dead
  recycled, \* the dead ones whose pid another program has
  asked,    \* those that were asked to exit
  saved,    \* sessions whose file holds a reply
  busy,     \* sessions with work in flight
  owed,     \* those with accepted work whose acceptance the worker recorded
  journal,  \* the recovery journal
  latest,   \* the worker's copy of it: what it last recorded of a session
  lost,     \* recorded work of saved sessions that a death cut short, not yet
            \*   marked as interrupted
  up,       \* the supervisor runs
  w,        \* ResidentWorker, with its descriptor
  disk,     \* the descriptor on disk
  adopt,    \* adoptOrRecoverWorker is under way, and clients wait
  closing,  \* handleWorkerClose waits for its admission check
  rec,      \* worker.recovery
  defer,    \* worker.deferredRecovery
  stp,      \* stopWorker
  fin,      \* worker.stopFinalization
  faults, ops

procVars == <<proc, recycled, asked, saved, busy, owed, journal, latest, lost>>
supVars == <<up, w, disk, adopt, closing, rec, defer, stp, fin>>
vars == <<procVars, supVars, faults, ops>>

NoRec == [pc |-> "off", n |-> 0, probe |-> FALSE, env |-> FALSE, read |-> {}, rev |-> 0]
NoStop == [pc |-> "off", inc |-> 0, known |-> FALSE, force |-> FALSE]
NoFin == [pc |-> "off", inc |-> 0, known |-> FALSE, rev |-> 0]
NoWorker == [reg |-> FALSE, inc |-> 0, known |-> FALSE, life |-> "failed", stop |-> FALSE,
             client |-> 0, intent |-> FALSE, rev |-> 0, env |-> FALSE, rounds |-> 0]

Init ==
  /\ proc = [k \in Inc |-> IF k = 1 THEN "up" ELSE "none"]
  /\ recycled = {} /\ asked = {} /\ busy = {} /\ owed = {} /\ lost = {}
  /\ saved \in SUBSET Sessions
  /\ journal = NewFile /\ latest = [s \in Sessions |-> FALSE]
  /\ up = TRUE
  /\ w = [NoWorker EXCEPT !.reg = TRUE, !.inc = 1, !.known = TRUE, !.life = "ready",
                          !.client = 1, !.env = TRUE]
  /\ disk = [on |-> TRUE, inc |-> 1, known |-> TRUE, stop |-> FALSE]
  /\ adopt = FALSE /\ closing = FALSE /\ rec = NoRec /\ defer = FALSE /\ stp = NoStop /\ fin = NoFin
  /\ faults = 0 /\ ops = 0

Fault == faults < MaxFaults /\ faults' = faults + 1
Op == ops < MaxOps /\ ops' = ops + 1

-----------------------------------------------------------------------------
(* The worker process and its journal *)

Alive(k) == k # 0 /\ proc[k] \in {"gated", "up"}
Serving == {k \in Inc : proc[k] = "up"}

(* parseRecords: the last record of each session counts. *)
BusyIn(f) ==
  LET p == Parsed(f)
      last(s) == {i \in 1 .. Len(p) : /\ p[i] # Broken /\ p[i].s = s
                                      /\ \A j \in i + 1 .. Len(p) : p[j] = Broken \/ p[j].s # s}
  IN {s \in Sessions : \E i \in last(s) : p[i].busy}

(* WorkerRecoveryJournal.record: when no session is busy any more the file *)
(* is rewritten; records of idle sessions are as good as none.             *)
Appends(f, s, b) ==
  {AppendLine(f, [s |-> s, busy |-> b])}
    \cup (IF CutWrites THEN CutLine(f, [s |-> s, busy |-> b]) ELSE {})
Record(s, b) ==
  \/ latest[s] = b /\ UNCHANGED <<journal, latest>>
  \/ /\ Len(journal.lines) < MaxLines \/ ~b
     /\ latest' = [latest EXCEPT ![s] = b]
     /\ IF \E t \in Sessions : latest'[t] THEN journal' \in Appends(journal, s, b)
        ELSE journal' = NewFile

workerRest == <<proc, recycled, asked, saved, lost, supVars, faults, ops>>

(* prompt: the work is recorded before the client is told it is accepted;  *)
(* steer and follow_up: it may have begun before.  The client is told the  *)
(* same when the record could not be written, which is only logged.        *)
Accept(s) ==
  /\ up /\ w.client \in Serving \ asked
  /\ busy' = busy \cup {s}
  /\ \/ Record(s, TRUE) /\ owed' = owed \cup {s}
     \/ UNCHANGED <<owed, journal, latest>>
  /\ UNCHANGED workerRest

(* Work that no client asked for: a schedule, a goal, a child's message.   *)
Begin(s) ==
  /\ Serving # {} /\ s \notin busy
  /\ busy' = busy \cup {s}
  /\ UNCHANGED <<owed, journal, latest, workerRest>>

Finish(s) ==
  /\ Serving # {} /\ s \in busy
  /\ busy' = busy \ {s} /\ owed' = owed \ {s}
  /\ UNCHANGED <<journal, latest, workerRest>>

(* The first reply goes to the session's file, and with it all that the    *)
(* session has.  A session without a file has none.                        *)
Reply(s) ==
  /\ Serving # {} /\ s \in busy \ saved
  /\ saved' = saved \cup {s}
  /\ UNCHANGED <<proc, recycled, asked, busy, owed, journal, latest, lost, supVars, faults, ops>>

(* An event of RECOVERY_CHECKPOINT_EVENTS *)
Checkpoint(s) ==
  /\ Serving # {}
  /\ Record(s, s \in busy)
  /\ UNCHANGED <<busy, owed, workerRest>>

Killed(k) ==
  /\ proc' = [proc EXCEPT ![k] = "dead"]
  /\ asked' = asked \ {k}
  /\ lost' = IF proc[k] = "up" THEN lost \cup (owed \cap saved) ELSE lost
  /\ busy' = IF proc[k] = "up" THEN {} ELSE busy
  /\ owed' = IF proc[k] = "up" THEN {} ELSE owed
  /\ UNCHANGED <<recycled, saved, journal, latest>>

Die ==
  /\ Fault /\ \E k \in Serving : Killed(k)
  /\ UNCHANGED <<supVars, ops>>

(* A worker that was asked to exit closes its sessions and records it if   *)
(* it can, or dies at once when it has not passed its gate.  Its answer to a shutdown *)
(* request is read before its connection closes.                           *)
Exit ==
  /\ stp.pc # "ask"
  /\ \E k \in asked :
       /\ proc' = [proc EXCEPT ![k] = "dead"]
       /\ asked' = asked \ {k}
       /\ \/ /\ proc[k] = "up"
             /\ busy' = {} /\ owed' = {}
             /\ latest' = [t \in Sessions |-> FALSE]
             /\ journal' \in {NewFile, journal}
          \/ proc[k] # "up" /\ UNCHANGED <<busy, owed, latest, journal>>
  /\ UNCHANGED <<recycled, saved, lost, supVars, faults, ops>>

Recycle ==
  /\ Fault
  /\ \E k \in Inc \ recycled : proc[k] = "dead" /\ recycled' = recycled \cup {k}
  /\ UNCHANGED <<proc, asked, saved, busy, owed, journal, latest, lost, supVars, ops>>

-----------------------------------------------------------------------------
(* The supervisor's view of a process *)

PidExists(k) == Alive(k) \/ k \in recycled

(* processIdentity *)
Identity(k, known) ==
  IF ~PidExists(k) THEN {"gone"}
  ELSE (IF ~known THEN {"unknown"} ELSE IF Alive(k) THEN {"current"} ELSE {"replaced"})
         \cup (IF LookupFails THEN {"unknown"} ELSE {})

Saved(x) == [on |-> TRUE, inc |-> x.inc, known |-> x.known, stop |-> x.stop]
Persist(x) == w' = x /\ disk' = Saved(x)

(* isWorkerRecoveryCancelled, isWorkerCleanupCancelled, isWorkerRecoveryCandidate *)
RecoveryCancelled(x) == ~x.reg \/ x.intent \/ x.stop
CleanupCancelled(x) == ~x.reg \/ x.stop
Candidate(x) == ~RecoveryCancelled(x) /\ x.client = 0

(* recoverWorker of a worker whose descriptor has just been changed to x   *)
Recover(x) ==
  IF RecoveryCancelled(x) THEN Persist(x) /\ UNCHANGED rec
  ELSE IF ~x.env /\ ~PidExists(x.inc)
  THEN Persist([x EXCEPT !.life = "failed"]) /\ UNCHANGED rec
  ELSE /\ Persist(x)
       /\ rec' = IF rec.pc # "off" THEN rec ELSE [NoRec EXCEPT !.pc = "delay", !.n = 1]

(* A stop that awaits the answer to its shutdown request when the          *)
(* connection goes: it runs on at once, finds worker.client undefined, and *)
(* ends with a TypeError.                                                  *)
CutStop ==
  stp' = IF stp.pc = "ask" /\ w'.client = 0 THEN NoStop ELSE stp

(* handleWorkerClose, up to its admission check and after it *)
Close ==
  /\ up /\ w.client # 0
  /\ \/ ~Alive(w.client) /\ UNCHANGED faults
     \/ Alive(w.client) /\ Fault
  /\ w' = [w EXCEPT !.client = 0]
  /\ closing' = (closing \/ ~w.intent)
  /\ CutStop
  /\ UNCHANGED <<procVars, up, disk, adopt, rec, defer, fin, ops>>

(* Whether a deferred recovery parks the worker as failed at once *)
Parks(x) == ~defer /\ x.rounds >= MaxRounds

(* deferWorkerRecovery: a bounded number of rounds, then the worker is     *)
(* parked as failed with its process left alone.                           *)
Deferred(x) ==
  /\ w' = IF defer THEN x
          ELSE [x EXCEPT !.rounds = @ + 1, !.life = IF Parks(x) THEN "failed" ELSE @]
  /\ defer' = ~Parks(x)

(* The check may fail: it takes the registry's lock (SupervisorOwnership). *)
CloseChecked ==
  /\ up /\ closing /\ closing' = FALSE
  /\ \/ /\ UNCHANGED defer
        /\ IF Candidate(w) /\ rec.pc = "off" THEN Recover([w EXCEPT !.life = "recovering"])
           ELSE UNCHANGED <<w, disk, rec>>
     \/ /\ Deferred(w)
        /\ disk' = IF Parks(w) THEN Saved(w) ELSE disk
        /\ UNCHANGED rec
  /\ UNCHANGED <<procVars, up, adopt, stp, fin, faults, ops>>

-----------------------------------------------------------------------------
(* The recovery loop of recoverWorker *)

recRest == <<up, adopt, closing, fin, faults, ops>>

(* The catch of an attempt that leaves the worker as x, and d on disk: the *)
(* next delay, or the end of the loop.  The recovery ends there and then   *)
(* when it is cancelled, or when the admission check of the catch, or the  *)
(* one behind the loop, fails.                                             *)
AttemptFails(x, d, probe) ==
  LET y == [x EXCEPT !.client = 0]
      last == rec.n = MaxAttempts
  IN
  /\ \/ rec' = NoRec /\ w' = x /\ disk' = d /\ UNCHANGED defer
     \/ /\ ~RecoveryCancelled(x)
        /\ disk' = Saved(y)
        /\ rec' = IF last THEN NoRec ELSE [NoRec EXCEPT !.pc = "delay", !.n = rec.n + 1]
        /\ \/ w' = y /\ UNCHANGED defer
           \/ last /\ probe /\ Deferred([y EXCEPT !.life = "recovering"])
           \/ last /\ ~probe /\ w' = [y EXCEPT !.life = "failed"] /\ UNCHANGED defer
  /\ CutStop

(* The catch around the probe closes the connection before that. *)
ProbeFails(probe) == AttemptFails([w EXCEPT !.client = 0], disk, probe)

GetsOn == SlowCancel \/ stp.pc # "cancel"

(* Faulty variant: what cannot be identified counts as replaced. *)
AttemptReplacesUnknown ==
  /\ up /\ rec.pc = "delay"
  /\ GetsOn
  /\ IF RecoveryCancelled(w) THEN rec' = NoRec
     ELSE \E id \in Identity(w.inc, w.known) :
            rec' = IF id = "current" THEN [rec EXCEPT !.pc = "connect"]
                   ELSE [rec EXCEPT !.pc = "read", !.env = w.env]
  /\ UNCHANGED <<w, disk, defer, stp, procVars, recRest>>

Attempt ==
  /\ up /\ rec.pc = "delay"
  /\ GetsOn
  /\ IF RecoveryCancelled(w) THEN rec' = NoRec /\ UNCHANGED <<w, disk, defer, stp>>
     ELSE \E id \in Identity(w.inc, w.known) :
       IF id = "unknown" /\ w.known THEN AttemptFails(w, disk, TRUE)
       ELSE /\ rec' = IF id \in {"current", "unknown"}
                      THEN [rec EXCEPT !.pc = "connect", !.probe = id # "current"]
                      ELSE [rec EXCEPT !.pc = "read", !.env = w.env]
            /\ UNCHANGED <<w, disk, defer, stp>>
  /\ UNCHANGED <<procVars, recRest>>

(* Faulty variant: a worker that does not answer is replaced. *)
ConnectOrReplace ==
  /\ up /\ rec.pc = "connect"
  /\ \/ /\ w.inc \in Serving
        /\ w' = [w EXCEPT !.client = w.inc]
        /\ rec' = [rec EXCEPT !.pc = "subscribed"]
     \/ rec' = [rec EXCEPT !.pc = "launch"] /\ UNCHANGED w
  /\ UNCHANGED <<disk, defer, stp, procVars, recRest>>

(* connectWorker, with the subscription and the refresh behind it.  A new  *)
(* connection takes the place of the old one, whose requests end.          *)
Connect ==
  /\ up /\ rec.pc = "connect"
  /\ \/ /\ w.inc \in Serving
        /\ w' = [w EXCEPT !.client = IF stp.pc = "ask" THEN 0 ELSE w.inc]
        /\ stp' = IF stp.pc = "ask" THEN [stp EXCEPT !.pc = "wait"] ELSE stp
        /\ rec' = [rec EXCEPT !.pc = "subscribed"]
        /\ UNCHANGED <<disk, defer>>
     \/ ProbeFails(TRUE)             \* a probe timed out
     \/ ProbeFails(rec.probe)        \* any other error
  /\ UNCHANGED <<procVars, recRest>>

Subscribed ==
  /\ up /\ rec.pc = "subscribed"
  /\ IF w.client = 0 \/ w.intent \/ w.stop THEN ProbeFails(rec.probe)
     ELSE IF RecoveryCancelled(w) THEN rec' = NoRec /\ UNCHANGED <<w, disk, defer, stp>>
     ELSE /\ rec' = [rec EXCEPT !.pc = "verified"]
          /\ w' = [w EXCEPT !.known = TRUE]
          /\ UNCHANGED <<disk, defer, stp>>
  /\ UNCHANGED <<procVars, recRest>>

(* resumeDeferredWorkerRecovery *)
DeferredRound ==
  /\ up /\ defer
  /\ \/ ~Candidate(w) /\ defer' = FALSE /\ UNCHANGED <<w, disk, rec>>
     \/ /\ Candidate(w) /\ rec.pc = "off" /\ defer' = FALSE
        /\ Recover([w EXCEPT !.life = "recovering"])
  /\ UNCHANGED <<procVars, stp, recRest>>

-----------------------------------------------------------------------------
(* recoverUncertainWorkerOperations: read, mark, hold *)

(* Faulty variant: the journal is cleared before the work is marked. *)
ReadJournalOnce ==
  /\ up /\ rec.pc = "read"
  /\ rec' = IF CleanupCancelled(w) THEN NoRec
            ELSE [rec EXCEPT !.pc = "mark", !.read = BusyIn(journal)]
  /\ journal' = IF CleanupCancelled(w) THEN journal ELSE NewFile
  /\ UNCHANGED <<proc, recycled, saved, asked, busy, owed, latest, lost, w, disk, defer, stp, recRest>>

ReadJournal ==
  /\ up /\ rec.pc = "read"
  /\ rec' = IF CleanupCancelled(w) THEN NoRec
            ELSE [rec EXCEPT !.pc = "mark", !.read = BusyIn(journal)]
  /\ UNCHANGED <<procVars, w, disk, defer, stp, recRest>>

(* The catalog appends the mark to the session's file, which takes it only *)
(* when the file holds a reply; a record without a file is passed over.    *)
(* One mark that fails fails the attempt, and the others may be made.      *)
MarkInterrupted ==
  /\ up /\ rec.pc = "mark"
  /\ \/ CleanupCancelled(w) /\ rec' = NoRec /\ UNCHANGED <<lost, w, disk, defer, stp>>
     \/ /\ ~CleanupCancelled(w)
        /\ rec' = [rec EXCEPT !.pc = "hold"] /\ lost' = lost \ (rec.read \cap saved)
        /\ UNCHANGED <<w, disk, defer, stp>>
     \/ /\ ~CleanupCancelled(w)
        /\ \E made \in SUBSET (rec.read \cap saved) : lost' = lost \ made
        /\ AttemptFails(w, disk, FALSE)
  /\ UNCHANGED <<proc, recycled, saved, asked, busy, owed, journal, latest, recRest>>

(* The journal no longer says busy; then the worker waits for its client,  *)
(* or is launched again.                                                   *)
Hold ==
  /\ up /\ rec.pc = "hold"
  /\ journal' = IF rec.read = {} \/ CleanupCancelled(w) THEN journal ELSE NewFile
  /\ IF CleanupCancelled(w) THEN rec' = NoRec /\ UNCHANGED <<w, disk>>
     ELSE IF ~rec.env THEN rec' = NoRec /\ Persist([w EXCEPT !.life = "failed"])
     ELSE /\ rec' = IF RecoveryCancelled(w) THEN NoRec
                    ELSE [rec EXCEPT !.pc = "launch"]
          /\ UNCHANGED <<w, disk>>
  /\ UNCHANGED <<proc, recycled, saved, asked, busy, owed, latest, lost, defer, stp, recRest>>

-----------------------------------------------------------------------------
(* launchWorker of a worker that exists *)

Spawned == {k \in Inc : proc[k] # "none"}
NextInc == Cardinality(Spawned) + 1

Spawn ==
  /\ up /\ rec.pc = "launch"
  /\ \/ /\ ~RecoveryCancelled(w) /\ NextInc \in Inc
        /\ proc' = [proc EXCEPT ![NextInc] = "gated"]
        /\ rec' = [rec EXCEPT !.pc = "assign", !.rev = w.rev]
        /\ UNCHANGED <<w, disk, defer, stp>>
     \/ AttemptFails(w, disk, FALSE) /\ UNCHANGED proc     \* cancelled, or no process
  /\ UNCHANGED <<recycled, saved, asked, busy, owed, journal, latest, lost, recRest>>

(* The new descriptor is on disk before the worker may pass its gate. *)
Assign ==
  /\ up /\ rec.pc = "assign" /\ GetsOn
  /\ \E known \in {TRUE, ~LookupFails} :
       Persist([w EXCEPT !.inc = NextInc - 1, !.known = known, !.life = "starting",
                         !.stop = FALSE, !.intent = FALSE, !.reg = TRUE])
  /\ rec' = [rec EXCEPT !.pc = "commit"]
  /\ UNCHANGED <<procVars, defer, stp, recRest>>

(* The worker reads its journal as it comes up. *)
CommitGate ==
  /\ up /\ rec.pc = "commit"
  /\ proc' = [proc EXCEPT ![NextInc - 1] = IF @ = "gated" THEN "up" ELSE @]
  /\ latest' = [s \in Sessions |-> s \in BusyIn(journal)]
  /\ rec' = [rec EXCEPT !.pc = "greet"]
  /\ UNCHANGED <<recycled, saved, asked, busy, owed, journal, lost, w, disk, defer, stp, recRest>>

(* A launch that fails stops the process it started, and puts the worker   *)
(* back for the next attempt unless someone has stopped it meanwhile, or   *)
(* the admission check fails.  The stop gives up on a process whose        *)
(* identity it cannot verify.                                              *)
LaunchFails ==
  \E resume \in {FALSE, ~w.stop /\ w.rev = rec.rev} :
    LET k == NextInc - 1
        stuck == Alive(k) /\ ~w.known
        x == [w EXCEPT !.reg = (@ /\ stuck) \/ resume, !.intent = IF stuck THEN w.stop ELSE ~resume,
                       !.life = IF resume THEN "recovering" ELSE @, !.client = 0]
    IN /\ IF Alive(k) /\ w.known THEN Killed(k) ELSE UNCHANGED procVars
       /\ AttemptFails(x, IF resume THEN Saved(x) ELSE disk, FALSE)

Greet ==
  /\ up /\ rec.pc = "greet"
  /\ \/ /\ w.inc \in Serving
        /\ w' = [w EXCEPT !.client = w.inc]
        /\ rec' = [rec EXCEPT !.pc = "created"]
        /\ UNCHANGED <<procVars, disk, defer, stp>>
     \/ LaunchFails
  /\ UNCHANGED recRest

Created ==
  /\ up /\ rec.pc = "created"
  /\ IF w.client = 0 \/ RecoveryCancelled(w) \/ w.rev # rec.rev THEN LaunchFails
     ELSE rec' = [rec EXCEPT !.pc = "launched"] /\ UNCHANGED <<procVars, w, disk, defer, stp>>
  /\ UNCHANGED recRest

(* The last admission check has passed: the worker is ready.  A launch     *)
(* whose check fails is undone.                                            *)
Ready ==
  /\ up /\ rec.pc \in {"verified", "launched"}
  /\ \/ /\ rec' = NoRec
        /\ Persist([w EXCEPT !.life = "ready", !.rounds = 0])
        /\ UNCHANGED <<procVars, defer, stp>>
     \/ rec.pc = "launched" /\ LaunchFails
  /\ UNCHANGED recRest

(* An admission check of an attempt fails.  The probe's catch closes the   *)
(* connection if its own check passes; the catch of a launch does nothing  *)
(* if its own fails; before the descriptor is written, the gate closes.    *)
CheckFails ==
  /\ up /\ rec.pc \notin {"off", "launch", "commit"}
  /\ IF rec.pc = "assign" THEN Killed(NextInc - 1) ELSE UNCHANGED procVars
  /\ \/ AttemptFails(w, disk, FALSE)
     \/ rec.pc \in {"connect", "subscribed", "verified"} /\ ProbeFails(rec.probe)
  /\ UNCHANGED recRest

-----------------------------------------------------------------------------
(* stopWorker, with its tombstone, of a worker that is x when it begins.   *)
(* Clients stop it one at a time.                                          *)

(* Faulty variant: the signal goes to whoever has the pid. *)
BeginStopByPid(x, force) ==
  /\ Persist([x EXCEPT !.stop = TRUE, !.intent = TRUE, !.rev = @ + 1])
  /\ stp' = [pc |-> IF x.client # 0 THEN "ask" ELSE "wait",
             inc |-> x.inc, known |-> x.known, force |-> force]
  /\ asked' = IF PidExists(x.inc) THEN asked \cup {x.inc} ELSE asked
  /\ UNCHANGED <<proc, recycled, saved, busy, owed, journal, latest, lost>>

BeginStop(x, force) ==
  LET y == [x EXCEPT !.stop = TRUE, !.intent = TRUE, !.rev = @ + 1] IN
  /\ Persist(y)
  /\ stp' = [pc |-> IF x.client # 0 THEN "ask" ELSE "wait",
             inc |-> x.inc, known |-> x.known, force |-> force]
  /\ \E id \in Identity(x.inc, x.known) :
       asked' = IF (x.client # 0 \/ id = "current") /\ Alive(x.inc) THEN asked \cup {x.inc} ELSE asked
  /\ UNCHANGED <<proc, recycled, saved, busy, owed, journal, latest, lost>>

Stop ==
  /\ up /\ ~adopt /\ w.reg /\ stp.pc = "off"
  /\ Op
  /\ \E force \in BOOLEAN : BeginStop(w, force)
  /\ UNCHANGED <<up, adopt, closing, rec, defer, fin, faults>>

stopRest == <<up, adopt, closing, rec, defer, faults, ops>>

(* The worker has answered, or has not in time. *)
StopAnswered ==
  /\ up /\ stp.pc = "ask"
  /\ stp' = [stp EXCEPT !.pc = "wait"]
  /\ w' = [w EXCEPT !.client = 0]
  /\ UNCHANGED <<procVars, disk, fin, stopRest>>

StopStillApplies == w.inc = stp.inc /\ w.stop

StopSeesDeath ==
  /\ up /\ stp.pc = "wait"
  /\ \E id \in Identity(stp.inc, stp.known) : id \in {"gone", "replaced"}
  /\ stp' = IF StopStillApplies THEN [stp EXCEPT !.pc = "cancel"] ELSE NoStop
  /\ UNCHANGED <<procVars, w, disk, fin, stopRest>>

(* The process is still there at the deadline.  A finalizer polls more     *)
(* often than a stop times out.                                            *)
StopDeadline ==
  /\ up /\ stp.pc = "wait"
  /\ fin.pc = "wait" => fin.rev = w.rev
  /\ \E id \in Identity(stp.inc, stp.known) \ {"gone", "replaced"} :
       \/ /\ stp.force /\ id = "current"
          /\ Killed(stp.inc)
          /\ UNCHANGED <<w, disk, stp, fin>>
       \/ /\ ~(stp.force /\ id = "current")
          /\ w' = [w EXCEPT !.intent = w.stop]
          /\ stp' = NoStop
          /\ fin' = IF fin.pc # "off" THEN fin
                    ELSE [pc |-> "wait", inc |-> w.inc, known |-> w.known, rev |-> w.rev]
          /\ UNCHANGED <<procVars, disk>>
  /\ UNCHANGED stopRest

(* The scheduled jobs are cancelled, or that failed and the tombstone      *)
(* stays; either way the worker leaves the map.                            *)
StopDeletes ==
  /\ up /\ stp.pc = "cancel"
  /\ stp' = NoStop
  /\ w' = [w EXCEPT !.reg = FALSE]
  /\ \/ /\ disk' = [disk EXCEPT !.on = FALSE]
        /\ journal' = NewFile /\ lost' = {}
     \/ UNCHANGED <<disk, journal, lost>>
  /\ UNCHANGED <<proc, recycled, saved, asked, busy, owed, latest, fin, stopRest>>

(* collectEphemeralCancelIntents: the cancel of a tombstone is retried.    *)
CancelRetried ==
  /\ up /\ ~w.reg /\ disk.on /\ disk.stop
  /\ disk' = [disk EXCEPT !.on = FALSE]
  /\ journal' = NewFile /\ lost' = {}
  /\ UNCHANGED <<proc, recycled, saved, asked, busy, owed, latest, w, stp, fin, stopRest>>

(* finalizeTimedOutWorkerStop: it waits for the process, killing it once   *)
(* it is sure whose it is, then stops the worker again until that works.   *)
Finalize ==
  /\ up /\ fin.pc = "wait"
  /\ IF ~(w.reg /\ w.stop /\ w.inc = fin.inc /\ w.rev = fin.rev)
     THEN fin' = NoFin /\ UNCHANGED procVars
     ELSE \E id \in Identity(fin.inc, fin.known) :
            \/ id \in {"gone", "replaced"} /\ fin' = [fin EXCEPT !.pc = "stop"] /\ UNCHANGED procVars
            \/ id = "current" /\ Killed(fin.inc) /\ UNCHANGED fin
  /\ UNCHANGED <<w, disk, stp, stopRest>>

FinalStop ==
  /\ up /\ fin.pc = "stop" /\ stp.pc = "off"
  /\ IF w.reg /\ w.stop /\ w.inc = fin.inc THEN w.rev < MaxStops /\ BeginStop(w, TRUE) /\ UNCHANGED fin
     ELSE fin' = NoFin /\ UNCHANGED <<procVars, w, disk, stp>>
  /\ UNCHANGED stopRest

-----------------------------------------------------------------------------
(* attach of the owning client, and retry_worker: both rescind a stop.     *)

Rescinded(x) ==
  [x EXCEPT !.intent = FALSE, !.stop = FALSE, !.life = "recovering", !.rounds = 0]

Attach ==
  /\ up /\ ~adopt /\ w.reg /\ Op
  /\ w.client = 0 \/ w.life # "ready"
  /\ Recover(Rescinded([w EXCEPT !.env = TRUE]))
  /\ UNCHANGED <<procVars, up, adopt, closing, defer, stp, fin, faults>>

RetryWorker ==
  /\ up /\ ~adopt /\ w.reg /\ stp.pc = "off" /\ Op
  /\ Recover(Rescinded(w))
  /\ UNCHANGED <<procVars, up, adopt, closing, defer, stp, fin, faults>>

-----------------------------------------------------------------------------
(* The supervisor dies, and its successor adopts the worker.  The gate of  *)
(* a process that waits for it closes.                                     *)

SupCrash ==
  /\ up /\ Fault
  /\ up' = FALSE
  /\ proc' = [k \in Inc |-> IF proc[k] = "gated" THEN "dead" ELSE proc[k]]
  /\ asked' = {k \in asked : proc[k] = "up"}
  /\ w' = NoWorker /\ rec' = NoRec /\ stp' = NoStop /\ fin' = NoFin
  /\ adopt' = FALSE /\ closing' = FALSE /\ defer' = FALSE
  /\ UNCHANGED <<recycled, saved, busy, owed, journal, latest, lost, disk, ops>>

(* loadWorkerDescriptors *)
SupStart ==
  /\ ~up /\ up' = TRUE
  /\ IF disk.on
     THEN /\ w' = [NoWorker EXCEPT !.reg = TRUE, !.inc = disk.inc, !.known = disk.known,
                                   !.stop = disk.stop, !.intent = disk.stop, !.life = "recovering"]
          /\ adopt' = TRUE
     ELSE UNCHANGED <<w, adopt>>
  /\ UNCHANGED <<procVars, disk, closing, rec, defer, stp, fin, faults, ops>>

(* adoptOrRecoverWorker.  Whoever answers on the worker's socket with its  *)
(* token is the worker.                                                    *)
AdoptStopped ==
  /\ up /\ adopt /\ w.stop
  /\ adopt' = FALSE
  /\ \/ BeginStop(w, TRUE)
     \/ /\ ~w.known /\ w.inc \in Serving
        /\ BeginStop([w EXCEPT !.client = w.inc, !.known = TRUE], TRUE)
  /\ UNCHANGED <<up, closing, rec, defer, fin, faults, ops>>

AdoptConnects ==
  /\ up /\ adopt /\ ~w.stop /\ w.inc \in Serving
  /\ adopt' = FALSE
  /\ Persist([w EXCEPT !.client = w.inc, !.known = TRUE, !.life = "ready"])
  /\ UNCHANGED <<procVars, up, closing, rec, defer, stp, fin, faults, ops>>

AdoptFails ==
  /\ up /\ adopt /\ ~w.stop
  /\ adopt' = FALSE
  /\ Recover(w)
  /\ UNCHANGED <<procVars, up, closing, defer, stp, fin, faults, ops>>

-----------------------------------------------------------------------------
WorkerStep ==
  \/ \E s \in Sessions : Accept(s) \/ Begin(s) \/ Finish(s) \/ Reply(s) \/ Checkpoint(s)
  \/ Die \/ Exit \/ Recycle
Recovery ==
  \/ Close \/ CloseChecked \/ Attempt \/ Connect \/ Subscribed \/ Ready \/ DeferredRound
  \/ ReadJournal \/ MarkInterrupted \/ Hold
  \/ Spawn \/ Assign \/ CommitGate \/ Greet \/ Created \/ CheckFails
Stopping ==
  \/ Stop \/ StopAnswered \/ StopSeesDeath \/ StopDeadline \/ StopDeletes \/ CancelRetried
  \/ Finalize \/ FinalStop
Clients == Attach \/ RetryWorker
Supervisor == SupCrash \/ SupStart \/ AdoptStopped \/ AdoptConnects \/ AdoptFails

Next == WorkerStep \/ Recovery \/ Stopping \/ Clients \/ Supervisor

Spec == Init /\ [][Next]_vars

RecoveryStep ==
  \/ Attempt \/ Connect \/ Subscribed \/ Ready \/ ReadJournal \/ MarkInterrupted \/ Hold
  \/ Spawn \/ Assign \/ CommitGate \/ Greet \/ Created
StopStep == StopAnswered \/ StopSeesDeath \/ StopDeadline \/ StopDeletes

(* Timers fire, requests end or time out, and a closed connection is       *)
(* reported.  Nothing is asked of a worker.                                *)
FairSpec ==
  /\ Spec
  /\ WF_vars(RecoveryStep) /\ WF_vars(DeferredRound)
  /\ WF_vars(Close) /\ WF_vars(CloseChecked)
  /\ WF_vars(StopStep) /\ WF_vars(Finalize) /\ WF_vars(FinalStop)
  /\ WF_vars(AdoptStopped \/ AdoptConnects \/ AdoptFails)

-----------------------------------------------------------------------------
Pcs == {"off", "delay", "connect", "subscribed", "verified", "read", "mark", "hold",
        "launch", "assign", "commit", "greet", "created", "launched"}

Recoveries == [pc : Pcs, n : 0 .. MaxAttempts, probe : BOOLEAN, env : BOOLEAN,
               read : SUBSET Sessions, rev : Nat]
Workers == [reg : BOOLEAN, inc : 0 .. MaxInc, known : BOOLEAN,
            life : {"starting", "ready", "recovering", "failed"}, stop : BOOLEAN,
            client : 0 .. MaxInc, intent : BOOLEAN, rev : Nat, env : BOOLEAN, rounds : Nat]
Stops == [pc : {"off", "ask", "wait", "cancel"}, inc : 0 .. MaxInc, known : BOOLEAN, force : BOOLEAN]
Finalizers == [pc : {"off", "wait", "stop"}, inc : 0 .. MaxInc, known : BOOLEAN, rev : Nat]
Descriptors == [on : BOOLEAN, inc : Inc, known : BOOLEAN, stop : BOOLEAN]

(* The state is of the declared types; the durable part of it is what a    *)
(* successor of the supervisor starts from.                                *)
TypeOK ==
  /\ proc \in [Inc -> {"none", "gated", "up", "dead"}]
  /\ recycled \subseteq {k \in Inc : proc[k] = "dead"}
  /\ asked \subseteq {k \in Inc : Alive(k)}
  /\ owed \subseteq busy /\ busy \subseteq Sessions /\ lost \subseteq saved /\ saved \subseteq Sessions
  /\ latest \in [Sessions -> BOOLEAN]
  /\ Serving = {} => busy = {}
  /\ up \in BOOLEAN /\ adopt \in BOOLEAN /\ closing \in BOOLEAN /\ defer \in BOOLEAN
  /\ w \in Workers /\ rec \in Recoveries /\ stp \in Stops /\ fin \in Finalizers
  /\ disk \in Descriptors
  /\ ~up => w = NoWorker /\ rec = NoRec /\ stp = NoStop /\ fin = NoFin

(* Work is marked as interrupted, and child processes are reaped, only     *)
(* when no worker runs that may still be at it (the comment in             *)
(* restartPreRosterWorker: "interruption marking and orphan reaping must   *)
(* never run against a possibly-active worker").                           *)
CleanupOnlyWhenDead == rec.pc \in {"read", "mark", "hold"} => Serving = {}

(* A worker that serves is the one the descriptor on disk names, and a     *)
(* supervisor that runs has it registered: there are never two, a worker   *)
(* is replaced only when it is known to be gone, and none is left that no  *)
(* stop and no recovery can reach.                                         *)
NoStray ==
  \A k \in Serving :
    /\ disk.on /\ disk.inc = k
    /\ up => w.reg /\ w.inc = k

(* Work that was accepted with a record of it, in a session whose file     *)
(* holds a reply, and that the death of its worker cut short has been      *)
(* marked as interrupted by the time that a later worker serves the        *)
(* session.  (Work of a session that has had no reply yet is lost without  *)
(* a mark, and so is work whose record could not be written.)              *)
NoSilentLoss == Serving # {} => lost = {}

(* A registered worker that nobody has stopped does not stay without a     *)
(* connection: it is connected again, or parked as failed for the user to  *)
(* see, or gone.  Refuted: a recovery ends when the admission check of its *)
(* catch fails, and a close that finds a recovery under way does nothing.  *)
RecoverySettles ==
  up /\ w.reg /\ w.rev = 0 /\ w.client = 0 ~>
    ~up \/ ~w.reg \/ w.rev # 0 \/ w.client # 0 \/ w.life = "failed"

(* A stop that was begun ends with the registration gone, if the owner     *)
(* does not attach again: the finalizer is there "instead of leaving a     *)
(* dead worker registered forever".                                        *)
StopFinishes == up /\ w.reg /\ w.stop ~> ~up \/ ~w.reg \/ ~w.stop
-----------------------------------------------------------------------------
(* What the safety properties rest on, as an inductive invariant *)

(* Processes are numbered by launch, and a descriptor names one of them. *)
SpawnedInOrder ==
  /\ \E n \in Inc : Spawned = 1 .. n
  /\ w.inc \in Spawned \cup {0} /\ disk.inc \in Spawned
  /\ w.inc = 0 => ~w.reg /\ w.client = 0 /\ ~adopt /\ ~closing /\ rec.pc = "off"

(* A process that runs is the descriptor's, or the one that a launch has   *)
(* not yet put into it.  If the cancel of a stop is not overtaken, it is   *)
(* registered; else it may be left behind, and then nothing is launched.   *)
LiveIsOwned ==
  \A k \in Inc : Alive(k) =>
    IF ~up THEN proc[k] = "up" /\ (disk.on => disk.inc = k) /\ (~SlowCancel => disk.on)
    ELSE IF rec.pc = "assign" THEN proc[k] = "gated" /\ k = NextInc - 1
    ELSE w.inc \in {0, k} /\ (~SlowCancel => w.reg)

RegisteredIsOnDisk == up => (w.reg => disk.on) /\ (disk.on => disk.inc = w.inc)

(* What a recovery, a launch and a stop have found out stays true. *)
StillDead ==
  /\ rec.pc \in {"read", "mark", "hold", "launch"} => ~Alive(w.inc)
  /\ rec.pc \in {"commit", "greet", "created", "launched"} => w.inc = NextInc - 1
  /\ rec.pc = "commit" => w.inc \notin Serving
  /\ stp.pc = "cancel" /\ ~SlowCancel => stp.inc = w.inc /\ ~Alive(w.inc)

OwnershipInv == TypeOK /\ SpawnedInOrder /\ LiveIsOwned /\ RegisteredIsOnDisk /\ StillDead

Files == [lines : Seq(Records), tail : {Empty}]

(* The journal says which work is not settled, and the worker's copy of it *)
(* agrees; work that was lost is marked before the next worker runs.       *)
JournalTells ==
  /\ journal \in Files
  /\ lost \subseteq BusyIn(journal)
  /\ Serving # {} => /\ lost = {} /\ owed \subseteq BusyIn(journal)
                     /\ \A s \in Sessions : latest[s] = (s \in BusyIn(journal))
  /\ rec.pc = "mark" => lost \subseteq rec.read
  /\ rec.pc \in {"hold", "launch", "assign", "commit"} => lost = {}
=============================================================================
