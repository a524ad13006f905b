------------------------- MODULE SupervisorCommands -------------------------
(***************************************************************************)
(* How the daemon supervisor executes a client's mutating commands at most *)
(* once: DaemonClient (modes/daemon/daemon-client.ts) sends, resends after *)
(* a reconnect and acknowledges; DaemonSupervisor.handleLine checks its    *)
(* CommandRecoveryJournal, the update-restart phase and the idle-eviction  *)
(* fence, and counts the command in its MutationDrainLatch; evictions of   *)
(* idle workers and update restarts wait for that latch to drain.          *)
(*                                                                         *)
(* The supervisor is a Node process: code runs from one await to the next  *)
(* without interruption, the continuations of settled promises run first   *)
(* in first-out order (`jobs`), and everything from outside (a line read   *)
(* from a socket, the answer of a worker, a timer) starts only when no     *)
(* continuation is left.  The order in which continuations run decides     *)
(* whether a command is admitted before or after somebody else's check, so *)
(* the model keeps it.  A journal append is an fsync'd synchronous write:  *)
(* the entries in memory and on disk agree whenever a step ends, and a     *)
(* crash in the middle of an append loses that line, as if it came sooner. *)
(***************************************************************************)
EXTENDS Naturals, Sequences, FiniteSets, SequencesExt

CONSTANTS Cmds,         \* the mutating commands the client will ever issue
          PrepareCmds,  \* those that are prepare_update_restart
          DrainCmds,    \* those in UPDATE_RESTART_DRAIN_COMMANDS
          CancelCmds,   \* those that are cancel_prompt_admission
          ShutdownCmds, \* those that are shutdown
          Evictors,     \* evictions of idle or empty workers that may start
          MaxEpoch,     \* bound: how often the client reconnects
          NoFence       \* idleEvictionFence is undefined

Epochs == 0 .. MaxEpoch
Handlers == Cmds \X Epochs      \* one invocation of handleLine per copy sent

ASSUME CommandsAssumption ==
  /\ IsFiniteSet(Cmds)
  /\ PrepareCmds \subseteq Cmds /\ DrainCmds \subseteq Cmds
  /\ CancelCmds \subseteq Cmds /\ ShutdownCmds \subseteq Cmds
  /\ PrepareCmds \cap (DrainCmds \cup CancelCmds \cup ShutdownCmds) = {}
  /\ DrainCmds \cap (CancelCmds \cup ShutdownCmds) = {}
  /\ CancelCmds \cap ShutdownCmds = {}
  /\ MaxEpoch \in Nat
  /\ NoFence \notin Evictors
  /\ Evictors \cap Handlers = {}

VARIABLES
  (* the client *)
  cst,       \* each request: new, sent, parked (awaitingReconnect), answered, rejected
  answer,    \* the response that settled it
  epoch,     \* the number of its current, or last, connection
  connected,
  (* the socket *)
  inbox,     \* lines written by the client and not yet read, oldest first
  outbox,    \* responses on the current connection, not yet read
  (* the supervisor process *)
  up,        \* "serving", "stopping" (shuttingDown) or "down"
  jobs,      \* continuations that are ready to run
  hpc,       \* where each invocation of handleLine is
  epc,       \* where each eviction is
  fence,     \* the eviction whose promise idleEvictionFence is, or NoFence
  fenceQ,    \* who awaits that promise, in order
  active,    \* MutationDrainLatch.active
  drainQ,    \* MutationDrainLatch.waiters, in order
  phase,     \* updateRestartPhase: "none", "draining", "fencing", "prepared"
  (* the disk *)
  journal,   \* "none", "pending" (received), "complete" (result)
  (* history *)
  ran        \* how often the execution of each command was started

clientVars == <<cst, answer, epoch, connected>>
wireVars == <<inbox, outbox>>
fenceVars == <<fence, fenceQ, epc>>
latchVars == <<active, drainQ>>
vars == <<cst, answer, epoch, connected, inbox, outbox, up, jobs, hpc, epc, fence, fenceQ,
          active, drainQ, phase, journal, ran>>

ClientStates == {"new", "sent", "parked", "answered", "rejected"}
Answers == {"result", "uncertain", "restarting", "stopping", "unrecorded"}
HandlerSteps == {"off", "fenced", "hop1", "hop2", "hop3", "exec", "drain", "drained",
                 "preparing"}
EvictorSteps == {"off", "acquire", "acquired", "drain", "drained", "deciding", "stopping"}
Waiting == {"fenced", "hop1", "hop2", "hop3"}                \* not yet admitted
Preparing == {"drain", "drained", "preparing"}               \* in prepareUpdateRestart
Executing == Preparing \cup {"exec"}                         \* counted by the latch
Lines == [kind : {"command", "ack"}, cmd : Cmds, epoch : Epochs]

TypeOK ==
  /\ cst \in [Cmds -> ClientStates]
  /\ answer \in [Cmds -> Answers \cup {"none"}]
  /\ epoch \in Epochs /\ connected \in BOOLEAN
  /\ inbox \in Seq(Lines)
  /\ outbox \in Seq([cmd : Cmds, answer : Answers])
  /\ up \in {"serving", "stopping", "down"}
  /\ jobs \in Seq(Handlers \cup Evictors)
  /\ hpc \in [Handlers -> HandlerSteps]
  /\ epc \in [Evictors -> EvictorSteps]
  /\ fence \in Evictors \cup {NoFence}
  /\ fenceQ \in Seq(Handlers \cup Evictors)
  /\ active \in Nat
  /\ drainQ \in Seq(Handlers \cup Evictors)
  /\ phase \in {"none", "draining", "fencing", "prepared"}
  /\ journal \in [Cmds -> {"none", "pending", "complete"}]
  /\ ran \in [Cmds -> Nat]

Init ==
  /\ cst = [c \in Cmds |-> "new"]
  /\ answer = [c \in Cmds |-> "none"]
  /\ epoch = 0 /\ connected = TRUE
  /\ inbox = <<>> /\ outbox = <<>>
  /\ up = "serving"
  /\ jobs = <<>>
  /\ hpc = [h \in Handlers |-> "off"]
  /\ epc = [v \in Evictors |-> "off"]
  /\ fence = NoFence /\ fenceQ = <<>>
  /\ active = 0 /\ drainQ = <<>>
  /\ phase = "none"
  /\ journal = [c \in Cmds |-> "none"]
  /\ ran = [c \in Cmds |-> 0]

-----------------------------------------------------------------------------
(* DaemonClient *)

CommandLine(c, e) == [kind |-> "command", cmd |-> c, epoch |-> e]
AckLine(c, e) == [kind |-> "ack", cmd |-> c, epoch |-> e]

(* requestWire *)
Request(c) ==
  /\ cst[c] = "new" /\ connected
  /\ cst' = [cst EXCEPT ![c] = "sent"]
  /\ inbox' = Append(inbox, CommandLine(c, epoch))
  /\ UNCHANGED <<answer, epoch, connected, outbox, up, jobs, hpc, fenceVars, latchVars, phase,
                 journal, ran>>

(* handleLine on a response: settle the request and, because the command
   mutates, acknowledge whatever the response was.  A response that nobody
   waits for any more goes to the listeners only. *)
Receive ==
  /\ outbox # <<>>
  /\ outbox' = Tail(outbox)
  /\ LET r == Head(outbox) IN
       IF cst[r.cmd] = "sent"
         THEN /\ cst' = [cst EXCEPT ![r.cmd] = "answered"]
              /\ answer' = [answer EXCEPT ![r.cmd] = r.answer]
              /\ inbox' = Append(inbox, AckLine(r.cmd, epoch))
         ELSE UNCHANGED <<cst, answer, inbox>>
  /\ UNCHANGED <<epoch, connected, up, jobs, hpc, fenceVars, latchVars, phase, journal, ran>>

(* The timer of armPendingRequestTimeout: the request is forgotten. *)
TimeOut(c) ==
  /\ cst[c] = "sent"
  /\ cst' = [cst EXCEPT ![c] = "rejected"]
  /\ UNCHANGED <<answer, epoch, connected, wireVars, up, jobs, hpc, fenceVars, latchVars, phase,
                 journal, ran>>

(* notifyClosed with request recovery enabled. *)
Park == /\ connected' = FALSE
        /\ cst' = [c \in Cmds |-> IF cst[c] = "sent" THEN "parked" ELSE cst[c]]
        /\ outbox' = <<>>
        /\ UNCHANGED <<answer, epoch>>

(* The connection breaks.  What the supervisor had not read yet it still
   reads from the dead socket, or a suffix of it is lost. *)
Disconnect ==
  /\ connected /\ epoch < MaxEpoch
  /\ Park
  /\ \E n \in 0 .. Len(inbox) : inbox' = SubSeq(inbox, 1, n)
  /\ UNCHANGED <<up, jobs, hpc, fenceVars, latchVars, phase, journal, ran>>

(* connect and daemon_hello: every parked request is written again. *)
Reconnect ==
  /\ ~connected /\ up # "down"
  /\ connected' = TRUE
  /\ epoch' = epoch + 1
  /\ LET parked == {c \in Cmds : cst[c] = "parked"} IN
       /\ inbox' = inbox \o [i \in 1 .. Cardinality(parked) |->
                               CommandLine(SetToSeq(parked)[i], epoch + 1)]
       /\ cst' = [c \in Cmds |-> IF c \in parked THEN "sent" ELSE cst[c]]
  /\ UNCHANGED <<answer, outbox, up, jobs, hpc, fenceVars, latchVars, phase, journal, ran>>

(* autoReconnect passes its deadline: rejectAll. *)
ReconnectFails ==
  /\ ~connected
  /\ \E c \in Cmds : cst[c] = "parked"
  /\ cst' = [c \in Cmds |-> IF cst[c] = "parked" THEN "rejected" ELSE cst[c]]
  /\ UNCHANGED <<answer, epoch, connected, wireVars, up, jobs, hpc, fenceVars, latchVars, phase,
                 journal, ran>>

-----------------------------------------------------------------------------
(* The event loop, responses and the latch *)

(* Nothing is ready to run: the loop may take a line, an answer or a timer. *)
Idle == jobs = <<>> /\ up # "down"

(* The continuation of j is the next to run. *)
Runs(j) == jobs # <<>> /\ Head(jobs) = j

(* write(client, response): lost when that connection is gone. *)
Respond(h, a) ==
  outbox' = IF connected /\ epoch = h[2] THEN Append(outbox, [cmd |-> h[1], answer |-> a])
                                         ELSE outbox

(* waitForDrain(remaining) for j while active is n: wait, or go on after one
   more continuation.  `rest` are the jobs behind the running one. *)
AwaitDrain(j, n, remaining, rest) ==
  IF n > remaining THEN drainQ' = Append(drainQ, j) /\ jobs' = rest
                   ELSE jobs' = Append(rest, j) /\ UNCHANGED drainQ

-----------------------------------------------------------------------------
(* handleLine *)

(* Faulty variant: a command is dispatched without a received record. *)
AdmitUnjournalled(h, rest) ==
  /\ hpc' = [hpc EXCEPT ![h] = "exec"]
  /\ jobs' = rest
  /\ ran' = [ran EXCEPT ![h[1]] = @ + 1]
  /\ active' = active + 1
  /\ UNCHANGED <<outbox, journal, drainQ, phase>>

(* commandJournal.begin, mutationDrain.begin and the synchronous beginning of
   handleCommand.  For prepare_update_restart that is prepareUpdateRestart up
   to its first waitForDrain(1). *)
Admit(h, rest) ==
  LET c == h[1] IN
  \/ /\ journal[c] # "none"
     /\ Respond(h, IF journal[c] = "complete" THEN "result" ELSE "uncertain")
     /\ hpc' = [hpc EXCEPT ![h] = "off"]
     /\ jobs' = rest
     /\ UNCHANGED <<journal, ran, latchVars, phase>>
  \/ /\ journal[c] = "none"
     /\ journal' = [journal EXCEPT ![c] = "pending"]
     /\ ran' = [ran EXCEPT ![c] = @ + 1]
     /\ active' = active + 1
     /\ IF c \in PrepareCmds /\ phase = "none"
          THEN /\ phase' = "draining"
               /\ hpc' = [hpc EXCEPT ![h] = IF active + 1 > 1 THEN "drain" ELSE "drained"]
               /\ AwaitDrain(h, active + 1, 1, rest)
          ELSE /\ hpc' = [hpc EXCEPT ![h] = "exec"]
               /\ jobs' = rest
               /\ UNCHANGED <<drainQ, phase>>
     /\ UNCHANGED outbox

(* restartRejected: abort commands get through the first drain, and the
   shutdown that follows a prepared restart is let in again. *)
RestartRejects(c) == \/ phase = "draining" /\ c \notin DrainCmds
                     \/ phase = "fencing"
                     \/ phase = "prepared" /\ c \notin ShutdownCmds

(* What is rejected before anything else is looked at: a cancellation of a
   prompt, whatever the restart's phase and whether it has run or not. *)
CancelRejected(c) == c \in CancelCmds /\ phase # "none"

(* Faulty variant: the restart phase is looked at before the journal for every
   command. *)
HandlePhaseFirst(h) ==
  LET c == h[1] IN
  IF up = "stopping" \/ RestartRejects(c) \/ CancelRejected(c)
    THEN /\ Respond(h, IF up = "stopping" THEN "stopping" ELSE "restarting")
         /\ UNCHANGED <<jobs, hpc, fenceQ, journal, ran, latchVars, phase>>
  ELSE IF journal[c] = "none" /\ c \notin DrainCmds /\ fence # NoFence
    THEN /\ hpc' = [hpc EXCEPT ![h] = "fenced"]
         /\ fenceQ' = Append(fenceQ, h)
         /\ UNCHANGED <<outbox, jobs, journal, ran, latchVars, phase>>
  ELSE Admit(h, <<>>) /\ UNCHANGED fenceQ

(* The part before the first wait.  The awaits on `ready` and on the
   ownership check in front of the lookup are settled promises: no other
   input comes between the line and the lookup. *)
HandleCommand(h) ==
  LET c == h[1] IN
  \/ /\ up = "stopping"
     /\ Respond(h, "stopping")
     /\ UNCHANGED <<jobs, hpc, fenceQ, journal, ran, latchVars, phase>>
  \/ /\ up = "serving"
     /\ CancelRejected(c) \/ (journal[c] = "none" /\ RestartRejects(c))
     /\ Respond(h, "restarting")
     /\ UNCHANGED <<jobs, hpc, fenceQ, journal, ran, latchVars, phase>>
  \/ /\ up = "serving" /\ journal[c] = "none" /\ ~RestartRejects(c)
     /\ c \notin DrainCmds /\ fence # NoFence
     /\ hpc' = [hpc EXCEPT ![h] = "fenced"]
     /\ fenceQ' = Append(fenceQ, h)
     /\ UNCHANGED <<outbox, jobs, journal, ran, latchVars, phase>>
  \/ /\ up = "serving" /\ ~CancelRejected(c)
     /\ journal[c] # "none" \/ (~RestartRejects(c) /\ (c \in DrainCmds \/ fence = NoFence))
     /\ Admit(h, <<>>)
     /\ UNCHANGED fenceQ

ReadCommand ==
  /\ Idle /\ inbox # <<>> /\ Head(inbox).kind = "command"
  /\ inbox' = Tail(inbox)
  /\ HandleCommand(<<Head(inbox).cmd, Head(inbox).epoch>>)
  /\ UNCHANGED <<clientVars, up, epc, fence>>

(* ack_result: commandJournal.acknowledge forgets the entry, recorded result
   or not; a stopping supervisor refuses the line. *)
ReadAck ==
  /\ Idle /\ inbox # <<>> /\ Head(inbox).kind = "ack"
  /\ inbox' = Tail(inbox)
  /\ journal' = IF up = "serving" THEN [journal EXCEPT ![Head(inbox).cmd] = "none"] ELSE journal
  /\ UNCHANGED <<clientVars, outbox, up, jobs, hpc, fenceVars, latchVars, phase, ran>>

(* After `await idleEvictionFence`: the ownership is asserted again, which
   takes three more continuations, and then the command is admitted.  Neither
   the fence nor the restart phase is looked at again. *)
ResumeFenced(h) ==
  /\ Runs(h) /\ hpc[h] = "fenced"
  /\ IF up = "stopping"
       THEN /\ Respond(h, "stopping")
            /\ hpc' = [hpc EXCEPT ![h] = "off"]
            /\ jobs' = Tail(jobs)
       ELSE /\ hpc' = [hpc EXCEPT ![h] = "hop1"]
            /\ jobs' = Append(Tail(jobs), h)
            /\ UNCHANGED outbox
  /\ UNCHANGED <<clientVars, inbox, up, fenceVars, latchVars, phase, journal, ran>>

Hop(h) ==
  /\ Runs(h) /\ hpc[h] \in {"hop1", "hop2"}
  /\ hpc' = [hpc EXCEPT ![h] = IF @ = "hop1" THEN "hop2" ELSE "hop3"]
  /\ jobs' = Append(Tail(jobs), h)
  /\ UNCHANGED <<clientVars, wireVars, up, fenceVars, latchVars, phase, journal, ran>>

AdmitFenced(h) ==
  /\ Runs(h) /\ hpc[h] = "hop3"
  /\ Admit(h, Tail(jobs))
  /\ UNCHANGED <<clientVars, inbox, up, fenceVars>>

(* Faulty variant: mutationDrain.end runs twice for one begin. *)
CompleteTwice(h) ==
  /\ journal' = [journal EXCEPT ![h[1]] = "complete"]
  /\ Respond(h, "result")
  /\ hpc' = [hpc EXCEPT ![h] = "off"]
  /\ active' = active - 2
  /\ jobs' = drainQ
  /\ drainQ' = <<>>

(* handleCommand settles: recordResult, write and mutationDrain.end, which
   wakes everybody who waits for the latch.  recordResult throws when the
   entry was acknowledged away in the meantime; that error is the response. *)
Complete(h) ==
  LET c == h[1] IN
  /\ journal' = [journal EXCEPT ![c] = IF @ = "none" THEN "none" ELSE "complete"]
  /\ Respond(h, IF journal[c] = "none" THEN "unrecorded" ELSE "result")
  /\ hpc' = [hpc EXCEPT ![h] = "off"]
  /\ active' = active - 1
  /\ jobs' = RemoveFirst(drainQ, h)
  /\ drainQ' = <<>>

(* The worker, or whoever executes the command, has answered.  What a shutdown
   command sets off behind its answer is the step Shutdown. *)
Executed(h) ==
  /\ Idle /\ hpc[h] = "exec"
  /\ Complete(h)
  /\ UNCHANGED <<clientVars, inbox, up, fenceVars, phase, ran>>

-----------------------------------------------------------------------------
(* prepareUpdateRestart *)

(* waitForDrain's loop, once the latch has moved. *)
RecheckDrain(h) ==
  /\ Runs(h) /\ hpc[h] = "drain"
  /\ hpc' = [hpc EXCEPT ![h] = IF active > 1 THEN "drain" ELSE "drained"]
  /\ AwaitDrain(h, active, 1, Tail(jobs))
  /\ UNCHANGED <<clientVars, wireVars, up, fenceVars, active, phase, journal, ran>>

(* Faulty variant: no second drain behind the closed door. *)
FenceWithoutDrain(h) ==
  /\ Runs(h) /\ hpc[h] = "drained" /\ phase = "draining"
  /\ phase' = "fencing"
  /\ hpc' = [hpc EXCEPT ![h] = "preparing"]
  /\ jobs' = Tail(jobs)
  /\ UNCHANGED <<clientVars, wireVars, up, fenceVars, latchVars, journal, ran>>

(* The first drain is followed by a second one behind a closed door. *)
EnterFencing(h) ==
  /\ Runs(h) /\ hpc[h] = "drained" /\ phase = "draining"
  /\ phase' = "fencing"
  /\ hpc' = [hpc EXCEPT ![h] = IF active > 1 THEN "drain" ELSE "drained"]
  /\ AwaitDrain(h, active, 1, Tail(jobs))
  /\ UNCHANGED <<clientVars, wireVars, up, fenceVars, active, journal, ran>>

EnterPreparation(h) ==
  /\ Runs(h) /\ hpc[h] = "drained" /\ phase = "fencing"
  /\ hpc' = [hpc EXCEPT ![h] = "preparing"]
  /\ jobs' = Tail(jobs)
  /\ UNCHANGED <<clientVars, wireVars, up, fenceVars, latchVars, phase, journal, ran>>

(* prepareUpdateRestartFenced succeeds. *)
Prepared(h) ==
  /\ Idle /\ hpc[h] = "preparing"
  /\ phase' = "prepared"
  /\ Complete(h)
  /\ UNCHANGED <<clientVars, inbox, up, fenceVars, ran>>

(* It fails, or a drain passes its deadline: the restart is called off. *)
CalledOff(h) ==
  /\ Idle /\ hpc[h] \in {"drain", "preparing"}
  /\ phase' = "none"
  /\ Complete(h)
  /\ UNCHANGED <<clientVars, inbox, up, fenceVars, ran>>

-----------------------------------------------------------------------------
(* Evictions: withEvictionFence around a decision and stopWorker *)

TakeFence(v, rest) ==
  /\ fence' = v
  /\ epc' = [epc EXCEPT ![v] = "acquired"]
  /\ jobs' = Append(rest, v)
  /\ UNCHANGED fenceQ

AwaitFence(v, rest) ==
  /\ fenceQ' = Append(fenceQ, v)
  /\ epc' = [epc EXCEPT ![v] = "acquire"]
  /\ jobs' = rest
  /\ UNCHANGED fence

(* acquireIdleEvictionFence of a sweep or of a last detach. *)
EvictionStarts(v) ==
  /\ Idle /\ epc[v] = "off" /\ up = "serving" /\ phase = "none"
  /\ IF fence = NoFence THEN TakeFence(v, <<>>) ELSE AwaitFence(v, <<>>)
  /\ UNCHANGED <<clientVars, wireVars, up, hpc, latchVars, phase, journal, ran>>

AcquireAgain(v) ==
  /\ Runs(v) /\ epc[v] = "acquire"
  /\ IF fence = NoFence THEN TakeFence(v, Tail(jobs)) ELSE AwaitFence(v, Tail(jobs))
  /\ UNCHANGED <<clientVars, wireVars, up, hpc, latchVars, phase, journal, ran>>

EvictionDrains(v) ==
  /\ Runs(v) /\ epc[v] \in {"acquired", "drain"}
  /\ epc' = [epc EXCEPT ![v] = IF active > 0 THEN "drain" ELSE "drained"]
  /\ AwaitDrain(v, active, 0, Tail(jobs))
  /\ UNCHANGED <<clientVars, wireVars, up, hpc, fence, fenceQ, active, phase, journal, ran>>

EvictionDecides(v) ==
  /\ Runs(v) /\ epc[v] = "drained"
  /\ epc' = [epc EXCEPT ![v] = "deciding"]
  /\ jobs' = Tail(jobs)
  /\ UNCHANGED <<clientVars, wireVars, up, hpc, fence, fenceQ, latchVars, phase, journal, ran>>

(* The summaries say the worker is still idle: stopWorker. *)
StopWorker(v) ==
  /\ Idle /\ epc[v] = "deciding" /\ up = "serving" /\ phase = "none"
  /\ epc' = [epc EXCEPT ![v] = "stopping"]
  /\ UNCHANGED <<clientVars, wireVars, up, jobs, hpc, fence, fenceQ, latchVars, phase, journal,
                 ran>>

(* Faulty variant: the fence is cleared but its promise is never settled. *)
EvictionEndsSilently(v) ==
  /\ Idle /\ epc[v] \in {"deciding", "stopping", "drain"}
  /\ epc' = [epc EXCEPT ![v] = "off"]
  /\ fence' = NoFence
  /\ drainQ' = RemoveFirst(drainQ, v)
  /\ UNCHANGED <<clientVars, wireVars, up, jobs, hpc, fenceQ, active, phase, journal, ran>>

(* The decision is negative, the worker has stopped, or the drain timed out:
   releaseFence settles the promise and all who await it become ready. *)
EvictionEnds(v) ==
  /\ Idle /\ epc[v] \in {"deciding", "stopping", "drain"}
  /\ epc' = [epc EXCEPT ![v] = "off"]
  /\ fence' = NoFence
  /\ fenceQ' = <<>>
  /\ jobs' = fenceQ
  /\ drainQ' = RemoveFirst(drainQ, v)
  /\ UNCHANGED <<clientVars, wireVars, up, hpc, active, phase, journal, ran>>

-----------------------------------------------------------------------------
(* The supervisor process *)

(* shutdown: shuttingDown is set, the server still accepts connections while
   workers are stopped. *)
Shutdown ==
  /\ Idle /\ up = "serving" /\ epoch < MaxEpoch
  /\ up' = "stopping"
  /\ UNCHANGED <<clientVars, wireVars, jobs, hpc, fenceVars, latchVars, phase, journal, ran>>

(* A crash at any point, or the end of shutdown: only the journal survives. *)
Die ==
  /\ up # "down" /\ epoch < MaxEpoch
  /\ up' = "down"
  /\ Park
  /\ inbox' = <<>>
  /\ jobs' = <<>>
  /\ hpc' = [h \in Handlers |-> "off"]
  /\ epc' = [v \in Evictors |-> "off"]
  /\ fence' = NoFence /\ fenceQ' = <<>>
  /\ active' = 0 /\ drainQ' = <<>>
  /\ phase' = "none"
  /\ UNCHANGED <<journal, ran>>

(* start: a new CommandRecoveryJournal loads the file. *)
Restart ==
  /\ up = "down"
  /\ up' = "serving"
  /\ UNCHANGED <<clientVars, wireVars, jobs, hpc, fenceVars, latchVars, phase, journal, ran>>

ClientStep == Receive \/ Disconnect \/ Reconnect \/ ReconnectFails
              \/ \E c \in Cmds : Request(c) \/ TimeOut(c)

(* What the event loop does by itself with the continuations it has. *)
RunJob == \/ \E h \in Handlers : ResumeFenced(h) \/ Hop(h) \/ AdmitFenced(h) \/ RecheckDrain(h)
                                 \/ EnterFencing(h) \/ EnterPreparation(h)
          \/ \E v \in Evictors : AcquireAgain(v) \/ EvictionDrains(v) \/ EvictionDecides(v)

HandlerEvent(h) == Executed(h) \/ Prepared(h) \/ CalledOff(h)

SupervisorStep == ReadCommand \/ ReadAck \/ RunJob \/ Shutdown \/ Die \/ Restart
                  \/ (\E h \in Handlers : HandlerEvent(h))
                  \/ (\E v \in Evictors : EvictionStarts(v) \/ StopWorker(v) \/ EvictionEnds(v))

Next == ClientStep \/ SupervisorStep

(* The event loop runs every ready continuation and reads every line; what a
   handler or an eviction waits for is bounded by a timeout of its own. *)
Fairness == /\ WF_vars(RunJob)
            /\ WF_vars(ReadCommand \/ ReadAck)
            /\ \A h \in Handlers : WF_vars(HandlerEvent(h))
            /\ \A v \in Evictors : WF_vars(EvictionEnds(v))

Spec == Init /\ [][Next]_vars

FairSpec == Spec /\ Fairness

-----------------------------------------------------------------------------
(* Properties *)

(* A command is executed at most once, however often its line is sent again
   after broken connections and supervisor crashes (handleLine with
   CommandRecoveryJournal.begin before the dispatch). *)
AtMostOnce == \A c \in Cmds : ran[c] <= 1

(* A client that is told "Daemon is preparing an update restart" can rely on
   its command not having run: the journal is consulted before the restart
   phase, so a resent command that did run is never rejected that way.  The
   one kind of command that handleLine rejects before it looks is excepted:
   a cancellation that ran may be answered so when it is sent again. *)
RejectedNeverRan == \A c \in Cmds \ CancelCmds : answer[c] = "restarting" => ran[c] = 0

(* While an update restart is prepared behind the fence no other mutating
   command is being executed, and once it is prepared none but the shutdown
   that ends this supervisor: the commands that slipped through the draining
   phase are waited for a second time, and the fence of an eviction never lets
   one through that it held back before. *)
RestartIsExclusive ==
  \A h \in Handlers :
    /\ hpc[h] = "preparing" => active = 1
    /\ hpc[h] = "exec" /\ phase = "prepared" => h[1] \in ShutdownCmds

(* withEvictionFence "runs a passivation decision under the eviction fence
   after draining admitted mutations": while an eviction decides about and
   stops a worker, no fence-gated mutating command is being executed.  It does
   not hold when evictions overlap. *)
EvictionIsExclusive ==
  \A v \in Evictors : epc[v] \in {"deciding", "stopping"} =>
    \A h \in Handlers : hpc[h] = "exec" => h[1] \in DrainCmds

(* The latch counts the executing commands, so that a drain neither waits for
   a command that is over nor ends while one is executing. *)
LatchCounts ==
  active = Cardinality({h \in Handlers : hpc[h] \in Executing})

(* Nobody is left waiting on a fence or on the latch: a command held back by
   an eviction, and a restart that waits for the commands before it, get on. *)
WaitersGetOn ==
  /\ \A h \in Handlers : hpc[h] = "fenced" ~> hpc[h] # "fenced"
  /\ \A h \in Handlers : hpc[h] \in {"drain", "drained"} ~> hpc[h] \notin {"drain", "drained"}

(* A supervisor that answers "is shutting down; retry the command" has not
   executed the command.  It does not hold: see "Further experiments" in the
   README. *)
RetryAdviceIsSafe == \A c \in Cmds : answer[c] = "stopping" => ran[c] = 0

-----------------------------------------------------------------------------
(* What the safety properties rest on, as an inductive invariant *)

(* x is in the queue q; it is there once at most. *)
In(x, q) == \E i \in 1 .. Len(q) : q[i] = x
Once(x, q) == \A i, j \in 1 .. Len(q) : q[i] = x /\ q[j] = x => i = j

Unread(c) == \E e \in Epochs : In(CommandLine(c, e), inbox)
Acked(c) == \E e \in Epochs : In(AckLine(c, e), inbox)
Responded(c) == \E a \in Answers : In([cmd |-> c, answer |-> a], outbox)
Fenced(c) == \E h \in Handlers : h[1] = c /\ In(h, fenceQ)
Held(c) == \E h \in Handlers : h[1] = c /\ hpc[h] \in Waiting

(* The copies of a command lie in the inbox in the order of the connections
   they were sent on, one per connection. *)
Ordered(q) ==
  \A c \in Cmds : \A d, e \in Epochs : \A i, j \in 1 .. Len(q) :
    i < j /\ q[i] = CommandLine(c, d) /\ q[j] = CommandLine(c, e) => d < e

(* No copy is read after one that was sent later. *)
CopiesInOrder ==
  /\ Ordered(inbox)
  /\ \A c \in Cmds : \A e \in Epochs : In(CommandLine(c, e), inbox) => e <= epoch
  /\ \A h \in Handlers : hpc[h] # "off" =>
       /\ h[2] <= epoch
       /\ \A e \in Epochs : In(CommandLine(h[1], e), inbox) => h[2] < e

(* Nothing is under way on a connection, or in a process, that is gone. *)
Connections ==
  /\ ~connected => outbox = <<>> /\ epoch < MaxEpoch
  /\ up = "down" => ~connected /\ inbox = <<>> /\ jobs = <<>>

(* What the client knows of a command. *)
Requests == \A c \in Cmds :
  /\ cst[c] = "new" =>
       /\ ran[c] = 0 /\ journal[c] = "none"
       /\ ~Unread(c) /\ ~Responded(c)
       /\ \A h \in Handlers : h[1] = c => hpc[h] = "off"
  /\ cst[c] = "answered" => ~Unread(c)
  /\ cst[c] = "parked" => ~connected
  /\ Responded(c) => ~Unread(c) /\ (up = "serving" => ~Fenced(c))
  /\ Acked(c) => cst[c] = "answered" /\ (up = "serving" => ~Fenced(c))
  /\ answer[c] = "restarting" =>
       cst[c] = "answered" /\ ~Held(c) /\ (ran[c] = 0 \/ c \in CancelCmds)
  /\ In([cmd |-> c, answer |-> "restarting"], outbox) =>
       ~Held(c) /\ (ran[c] = 0 \/ c \in CancelCmds)

(* A command that ran is in the journal, or every copy of it is used up. *)
Executions ==
  /\ \A c \in Cmds :
       /\ ran[c] \in {0, 1}
       /\ journal[c] # "none" => ran[c] = 1
       /\ ran[c] = 1 /\ journal[c] = "none" => cst[c] = "answered" /\ ~Held(c)
       /\ ran[c] = 1 => ~Fenced(c)
  /\ \A h \in Handlers : hpc[h] \in Executing => ran[h[1]] = 1

(* A handler is in one queue at most, and in one that it waits in. *)
Queues == \A h \in Handlers :
  /\ In(h, jobs) => hpc[h] \in Waiting \cup {"drain", "drained"}
  /\ In(h, fenceQ) => hpc[h] = "fenced" /\ h[1] \notin DrainCmds /\ ~In(h, jobs)
  /\ In(h, drainQ) => hpc[h] = "drain" /\ ~In(h, jobs)
  /\ Once(h, jobs) /\ Once(h, fenceQ) /\ Once(h, drainQ)
  /\ hpc[h] \in Waiting => In(h, jobs) \/ In(h, fenceQ)
  /\ fence = NoFence => ~In(h, fenceQ)

(* How far a handler in the job queue has come, and that the handlers in the
   queue q are at most one stage apart, those in front behind. *)
Stage == [h \in Handlers |-> CASE hpc[h] = "fenced" -> 1
                               [] hpc[h] = "hop1" -> 2
                               [] hpc[h] = "hop2" -> 3
                               [] hpc[h] = "hop3" -> 4
                               [] OTHER -> 5]

InStep(q, stage) ==
  \A i, j \in 1 .. Len(q) :
    i < j /\ q[i] \in Handlers /\ q[j] \in Handlers =>
      stage[q[i]] <= stage[q[j]] /\ stage[q[j]] <= stage[q[i]] + 1

(* An update restart waits for the commands before it. *)
Draining == phase \in {"draining", "fencing"}

(* The handlers that an eviction has held back go on together, one stage per
   turn of the job queue; while they do, and while an update restart drains,
   no other handler waits for a fence. *)
LockStep ==
  /\ InStep(jobs, Stage)
  /\ \A h, g \in Handlers : In(h, jobs) /\ hpc[h] \in Waiting => ~In(g, fenceQ)
  /\ Draining => \A h \in Handlers : ~In(h, fenceQ)

(* One handler at a time prepares a restart, and behind the closed door of
   the fencing phase nothing is left that could be admitted. *)
Restarts ==
  /\ \A h, g \in Handlers : hpc[h] \in Preparing /\ hpc[g] \in Preparing => h = g
  /\ \A h \in Handlers :
       /\ hpc[h] \in Preparing => Draining
       /\ hpc[h] = "preparing" => phase = "fencing"
       /\ phase = "fencing" => hpc[h] \notin Waiting
       /\ phase = "prepared" /\ hpc[h] \in Waiting \cup {"exec"} => h[1] \in ShutdownCmds
  /\ \A h, g \in Handlers :
       hpc[h] = "preparing" \/ (hpc[h] = "drained" /\ phase = "fencing") => hpc[g] # "exec"

CommandsInv == /\ TypeOK /\ Queues /\ LockStep /\ Restarts /\ LatchCounts
               /\ CopiesInOrder /\ Connections /\ Requests /\ Executions
=============================================================================
