--------------------------- MODULE SessionActions ---------------------------
(***************************************************************************)
(* How a session admits prompts and session commands and hands them to its *)
(* agent (core/agent-session.ts over core/session-action-store.ts): the    *)
(* two queues of ActionStore and the lifecycle of an action, the scheduler *)
(* pump and its epoch, the commit fence, the clients of prompt(), clears,  *)
(* cancellations and aborts, the queued-work pauses of an update restart   *)
(* and of a tree navigation, and the messages that wait for the next turn. *)
(*                                                                         *)
(* Everything runs in one Node process; a step of the model is what runs   *)
(* between two awaits.  The agent is external to this module: it delivers  *)
(* the messages of a prompt one by one and then works until its run ends   *)
(* (AgentLoop models the inside of the run).  A run that failed is tried    *)
(* again: the pump waits for that, but it is a timer that starts the new   *)
(* run.  Refinement and the continuations after a compaction are not       *)
(* modelled; `busy` is a compaction or a bash command under way (a branch  *)
(* summary is part of its navigation, whose pause lasts longer).           *)
(***************************************************************************)
EXTENDS Naturals, Sequences, FiniteSets, SequencesExt

CONSTANTS Turns,        \* prompts that clients will submit
          AgentMsgs,    \* those submitted as messages of other agents
          Commands,     \* session commands (/compact, /goal ...) submitted
          Notes,        \* custom messages waiting for the next turn
          BatchAll,     \* steeringMode and followUpMode are "all"
          Ops,          \* the kinds of outside operation that may happen
          MaxOps,       \* bound: how many of them happen
          None          \* no action

Acts == Turns \cup Commands
Lanes == {"next_turn_boundary", "when_run_idle"}
AllOps == {"pause", "busy", "abort", "clear", "cancel", "clear_agent",
           "move", "restart", "navigate", "run_fails", "event_fails", "retry"}

ASSUME SessionActionsAssumption ==
  /\ Turns \cap Commands = {} /\ Acts \cap Notes = {} /\ AgentMsgs \subseteq Turns
  /\ BatchAll \in BOOLEAN /\ MaxOps \in Nat /\ Ops \subseteq AllOps
  /\ IsFiniteSet(Notes) /\ None \notin Acts
  /\ {"pump", "check", "nav", "pend"} \cap Acts = {} /\ "agent_end" \notin (Acts \cup Notes) \X Nat

VARIABLES
  act,        \* every SessionAction: lifecycle, records and ticket
  lanes,      \* ActionStore: the two lists of owned actions
  client,     \* where each submission is inside prompt()
  sch,        \* the scheduler: epoch, requested, chained pumps, suspension, pauses
  pump,       \* the pump that runs, if any
  fence,      \* holder of the commit fence followed by its waiters
  check,      \* waitForSessionInputCheckpoint of an update restart
  nav,        \* navigateTree
  busy,       \* a compaction or a bash command, or what follows a bash command
  agent,      \* the agent's run of a dispatch
  retry,      \* the retry of a failed run: _retryPromise, its timer, its run
  transcript, \* agent.state.messages, the prompt messages only
  evq,        \* _agentEventQueue: events not yet processed
  evFailed,   \* the last processed event rejected _agentEventQueue
  persisted,  \* the prompt messages appended to the session file
  pend,       \* _pendingNextTurnMessages
  ops         \* how many outside operations have happened

vars == <<act, lanes, client, sch, pump, fence, check, nav, busy, agent, retry,
          transcript, evq, evFailed, persisted, pend, ops>>

States == {"new", "queued", "selected", "preparing", "committing", "running",
           "completed", "failed", "cancelled"}
Unfinished == {"queued", "selected", "preparing", "committing", "running"}
Clearable == {"queued", "selected", "preparing"}

(* A message is <<its action or note, which clone of it>>. *)
Primary(a) == <<a, 0>>
Clone(m) == <<m[1], m[2] + 1>>

NewAction == [st |-> "new", lane |-> "when_run_idle", vis |-> TRUE,
              started |-> FALSE, durable |-> FALSE, prefix |-> <<>>, next |-> <<>>,
              captured |-> FALSE, delivered |-> "pending", completed |-> "pending"]
NoPump == [pc |-> "off", epoch |-> 0, pre |-> None, batch |-> <<>>,
           turns |-> <<>>, notes |-> <<>>]
NoRun == [on |-> FALSE, mid |-> FALSE, todo |-> <<>>]

-----------------------------------------------------------------------------
(* ActionStore *)

(* Array.prototype.filter: the elements of s that are, or are not, in S *)
Keep(s, S) == FlattenSeq([i \in 1 .. Len(s) |-> IF s[i] \in S THEN <<s[i]>> ELSE << >>])
Drop(s, S) == Keep(s, Range(s) \ S)

Owned == lanes["next_turn_boundary"] \o lanes["when_run_idle"]
InState(S) == Keep(Owned, {a \in Acts : act[a].st \in S})
QueuedIn(l) == Keep(lanes[l], {a \in Acts : act[a].st = "queued"})
Selectable(A) == \E a \in Acts : A[a].st \in {"queued", "selected"}
SetState(A, S, s) == [a \in Acts |-> IF a \in S THEN [A[a] EXCEPT !.st = s] ELSE A[a]]
Without(L, S) == [l \in Lanes |-> Drop(L[l], S)]

(* createDeferred: only the first settlement counts. *)
Settle(old, new) == IF old = "pending" THEN new ELSE old

RecordsOf(a) == Range(act[a].prefix) \cup Range(act[a].next) \cup {Primary(a)}
(* Faulty variant: no message of a cancelled dispatch is recognised. *)
CapturedNothing(A) == {}
Captured(A) == UNION {RecordsOf(a) : a \in {b \in Acts : A[b].captured}}
HasCapture == \E a \in Range(Owned) : act[a].captured

(* Faulty variant: the ticket's delivery is left open. *)
CancelledInSilence(a) ==
  [act[a] EXCEPT !.st = "cancelled", !.completed = Settle(@, "error"),
                 !.captured = act[a].st = "committing"]

(* _cancelSessionActions: the new action, the notes it gives back. *)
Cancelled(a) ==
  LET x == act[a]
      refused == a \in Turns /\ (a \in AgentMsgs \/ ~x.vis \/ x.st # "queued")
  IN [x EXCEPT !.st = "cancelled",
               !.delivered = Settle(@, IF refused THEN "rejected" ELSE "not_applicable"),
               !.completed = Settle(@, "error"),
               !.captured = x.st = "committing"]
Restorable(a) ==
  LET back == (IF a \in AgentMsgs THEN act[a].prefix ELSE <<>>) \o act[a].next
      lost == Drop(back, Range(transcript))
  IN [i \in 1 .. Len(lost) |-> Clone(lost[i])]
CancelActions(S) ==
  LET order == Keep(Owned, S)
      dispatched == {a \in S : act[a].st = "committing"}
      A == [a \in Acts |-> IF a \in S THEN Cancelled(a) ELSE act[a]]
  IN /\ act' = A
     /\ lanes' = Without(lanes, S \ dispatched)
     /\ pend' = FlattenSeq([i \in 1 .. Len(order) |-> Restorable(order[i])]) \o pend
     /\ transcript' = Drop(transcript, UNION {RecordsOf(a) : a \in dispatched})

-----------------------------------------------------------------------------
(* The scheduler *)

Bump(s) == [s EXCEPT !.epoch = @ + 1]
Unrequest(s) == Bump([s EXCEPT !.requested = FALSE])

(* _scheduleSessionInputPump, given the actions as they are when it is called *)
Schedule(s, A) ==
  IF s.suspended \/ s.wpauses # {} \/ s.requested \/ ~Selectable(A) THEN s
  ELSE [s EXCEPT !.requested = TRUE, !.queue = Append(@, s.epoch)]

(* _resumeSessionInputAdmission, with the flush that ends in a schedule *)
Resume(s, A) ==
  IF ~s.suspended THEN s
  ELSE LET r == Bump([s EXCEPT !.suspended = FALSE])
       IN IF r.apauses = 0 /\ r.wpauses = {} THEN Schedule(r, A) ELSE r

(* agent.state.isStreaming, and what holds up the session from outside     *)
Active == agent.on \/ retry = "on"
Busy == busy \in {"compaction", "bash"} \/ retry # "no"

(* _isBusyForSessionInput("pump") and _isSessionInputHandoffDeferred *)
PumpBusy == Busy \/ sch.suspended \/ sch.wpauses # {}
Deferred == pump.epoch # sch.epoch \/ PumpBusy

Op(k) == k \in Ops /\ ops < MaxOps /\ ops' = ops + 1

Join(p) == Append(fence, p)
Leave(p) == Drop(fence, {p})
Holds(p) == fence # <<>> /\ Head(fence) = p

Init ==
  /\ act = [a \in Acts |-> NewAction]
  /\ lanes = [l \in Lanes |-> <<>>]
  /\ client = [a \in Acts |-> "none"]
  /\ sch = [epoch |-> 0, requested |-> FALSE, queue |-> <<>>, suspended |-> FALSE,
            wpauses |-> {}, apauses |-> 0]
  /\ pump = NoPump /\ fence = <<>> /\ check = "none" /\ nav = "none"
  /\ busy = "no" /\ agent = NoRun /\ retry = "no"
  /\ transcript = <<>> /\ evq = <<>> /\ evFailed = FALSE /\ persisted = <<>>
  /\ pend = SetToSeq({<<n, 0>> : n \in Notes})
  /\ ops = 0

-----------------------------------------------------------------------------
(* prompt(): the clients *)

agentVars == <<agent, retry, transcript, evq, evFailed, persisted>>
storeVars == <<act, lanes, pend>>

(* Available is _assertSessionActionAdmissionAvailable. *)
Available(s) == s.apauses = 0 /\ ~s.suspended

(* While the agent streams a prompt needs no fence; else it resumes a      *)
(* suspended session (resumeIfIdle = false: it does not) and queues for    *)
(* the direct-turn fence, after a pause.                                   *)
Submit(a) ==
  /\ client[a] = "none"
  /\ IF Active
     THEN /\ client' = [client EXCEPT ![a] = "unfenced"]
          /\ UNCHANGED <<sch, fence>>
     ELSE \E s \in {sch, Resume(sch, act)} :
          /\ sch' = s
          /\ client' = [client EXCEPT ![a] =
               IF ~Available(s) THEN "refused" ELSE IF s.wpauses # {} THEN "wait" ELSE "fence"]
          /\ fence' = IF client'[a] = "fence" THEN Join(a) ELSE fence
  /\ UNCHANGED <<storeVars, pump, check, nav, busy, agentVars, ops>>

(* _acquireDirectTurnAdmissionFence: the loop around pauses and the fence *)
PauseOver(a) ==
  /\ client[a] = "wait" /\ (sch.wpauses = {} \/ ~Available(sch))
  /\ client' = [client EXCEPT ![a] = IF Available(sch) THEN "fence" ELSE "refused"]
  /\ fence' = IF Available(sch) THEN Join(a) ELSE fence
  /\ UNCHANGED <<storeVars, sch, pump, check, nav, busy, agentVars, ops>>

FenceGranted(a) ==
  /\ client[a] = "fence" /\ Holds(a)
  /\ client' = [client EXCEPT ![a] = IF sch.wpauses # {} THEN "wait"
                                     ELSE IF Available(sch) THEN "held" ELSE "refused"]
  /\ fence' = IF client'[a] = "held" THEN fence ELSE Leave(a)
  /\ UNCHANGED <<storeVars, sch, pump, check, nav, busy, agentVars, ops>>

(* _canStartSessionActionImmediately *)
CanStart == ~Active /\ ~Busy /\ ~sch.suspended /\ sch.wpauses = {}

(* _admitSessionInput of a new action x; the pauses are checked first.     *)
Enqueued(a, x) == [act EXCEPT ![a] = x]
Admit(a, x, eligible, immediate) ==
  LET start == eligible /\ InState(Unfinished) = <<>>
      A == Enqueued(a, [x EXCEPT !.st = IF start THEN "selected" ELSE "queued"])
      wake == \/ start \/ immediate \/ a \in Commands
              \/ x.lane = "next_turn_boundary" /\ Active
      s == IF a \in Turns /\ immediate THEN Resume(sch, A) ELSE sch
  IN /\ act' = A
     /\ lanes' = [lanes EXCEPT ![x.lane] = Append(@, a)]
     /\ sch' = IF wake THEN Schedule(s, A) ELSE sch

(* The rest of _prompt after normalization: what the submission becomes.   *)
(* queueIfBusy and resumeIfIdle are the caller's options.                  *)
AdmitPrompt(a) ==
  /\ client[a] \in {"held", "unfenced"}
  /\ fence' = Leave(a)
  /\ \E queueIfBusy, resumeIfIdle \in BOOLEAN, lane \in Lanes :
       LET pending == InState(Unfinished) # <<>>
           visible == Active \/ (queueIfBusy /\ (Busy \/ pending))
           took == IF visible THEN pend ELSE <<>>
           x == [NewAction EXCEPT !.lane = lane, !.vis = visible, !.prefix = took]
       IN IF sch.apauses > 0
          THEN /\ client' = [client EXCEPT ![a] = "refused"]
               /\ pend' = IF visible /\ a \in Turns THEN <<>> ELSE pend
               /\ UNCHANGED <<act, lanes, sch>>
          ELSE /\ client' = [client EXCEPT ![a] = "done"]
               /\ IF a \in Commands
                  THEN /\ Admit(a, [NewAction EXCEPT !.lane = lane],
                                ~pending /\ ~Busy /\ CanStart, TRUE)
                       /\ UNCHANGED pend
                  ELSE /\ Admit(a, x, ~visible /\ CanStart,
                                \/ ~visible \/ resumeIfIdle
                                \/ queueIfBusy /\ CanStart)
                       /\ pend' = IF visible THEN <<>> ELSE pend
  /\ UNCHANGED <<pump, check, nav, busy, agentVars, ops>>

(* Faulty variant: the early return keeps the direct-turn fence. *)
HandledHoldingFence(a) ==
  /\ client[a] \in {"held", "unfenced"}
  /\ client' = [client EXCEPT ![a] = "done"]
  /\ UNCHANGED <<fence, storeVars, sch, pump, check, nav, busy, agentVars, ops>>

(* An extension command or an input handler consumed the submission, or it *)
(* is refused here: cancelled, invalidated by another epoch, or without a  *)
(* streamingBehavior although it would have to be queued.                  *)
Handled(a) ==
  /\ client[a] \in {"held", "unfenced"}
  /\ client' = [client EXCEPT ![a] = "done"]
  /\ fence' = Leave(a)
  /\ UNCHANGED <<storeVars, sch, pump, check, nav, busy, agentVars, ops>>

-----------------------------------------------------------------------------
(* _pumpSessionInputs *)

pumpRest == <<client, check, nav, busy, retry, persisted, ops>>

(* The finally of the pump: schedule again, unless it was blocked or       *)
(* another epoch has begun.                                                *)
Finish(s, A) == IF pump.epoch = s.epoch THEN Schedule(s, A) ELSE s

(* The head of the while loop, entered again after a batch *)
Loop(A) == IF Selectable(A) THEN [NoPump EXCEPT !.pc = "idle", !.epoch = pump.epoch]
           ELSE NoPump

StartPump ==
  /\ pump.pc = "off" /\ sch.queue # <<>>
  /\ sch' = [sch EXCEPT !.requested = FALSE, !.queue = Tail(@)]
  /\ pump' = IF Selectable(act)
             THEN [NoPump EXCEPT !.pc = "idle", !.epoch = Head(sch.queue)] ELSE NoPump
  /\ UNCHANGED <<storeVars, fence, agent, transcript, evq, evFailed, pumpRest>>

Preselected == InState({"selected"})

AgentIdle ==
  /\ pump.pc = "idle" /\ ~Active
  /\ IF pump.epoch # sch.epoch
     THEN /\ act' = SetState(act, {a \in Acts : Preselected # <<>> /\ a = Preselected[1]}, "queued")
          /\ pump' = NoPump
     ELSE /\ pump' = [pump EXCEPT !.pc = "select",
                        !.pre = IF Preselected = <<>> THEN None ELSE Preselected[1]]
          /\ UNCHANGED act
  /\ UNCHANGED <<lanes, pend, sch, fence, agent, transcript, evq, evFailed, pumpRest>>

(* The turns that one dispatch takes: in mode "all" the queued ones behind *)
(* the first, in its lane, that have the same execution policy.            *)
Batch(first) ==
  LET q == QueuedIn(act[first].lane)
      same(i) == q[i] \in Turns /\ act[q[i]].vis = act[first].vis
      n == CHOOSE k \in 1 .. Len(q) : /\ \A i \in 2 .. k : same(i)
                                      /\ k = Len(q) \/ ~same(k + 1)
  IN IF pump.pre # None \/ ~BatchAll THEN <<first>> ELSE <<first>> \o SubSeq(q, 2, n)

(* An event's processing that threw rejects _agentEventQueue for whoever   *)
(* awaits it, until another event has been processed.                      *)
Rejected == evFailed /\ ~HasCapture

SelectInput ==
  /\ pump.pc = "select" /\ (evq = <<>> \/ HasCapture)
  /\ LET queued == InState({"queued"})
         first == IF pump.pre # None THEN pump.pre ELSE queued[1]
     IN
     \/ /\ Rejected    \* the await throws
        /\ pump' = NoPump /\ sch' = Finish(sch, act)
        /\ UNCHANGED <<act, fence>>
     \/ /\ ~Rejected /\ (Deferred \/ Active)
        /\ pump' = NoPump
        /\ UNCHANGED <<act, sch, fence>>
     \/ /\ ~Rejected /\ ~Deferred /\ ~Active
        /\ pump.pre = None /\ queued = <<>>
        /\ pump' = NoPump /\ sch' = Finish(sch, act)
        /\ UNCHANGED <<act, fence>>
     \/ /\ ~Rejected /\ ~Deferred /\ ~Active   \* the illegal transition of a cancelled turn throws
        /\ pump.pre \in Turns /\ act[first].st = "cancelled"
        /\ pump' = NoPump /\ sch' = Finish(sch, act)
        /\ UNCHANGED <<act, fence>>
     \/ /\ ~Rejected /\ ~Deferred /\ ~Active
        /\ pump.pre # None \/ queued # <<>>
        /\ first \in Commands
        /\ act' = IF pump.pre = None THEN SetState(act, {first}, "selected") ELSE act
        /\ pump' = [pump EXCEPT !.pc = "command", !.batch = <<first>>]
        /\ fence' = Join("pump")
        /\ UNCHANGED sch
     \/ /\ ~Rejected /\ ~Deferred /\ ~Active
        /\ pump.pre # None \/ queued # <<>>
        /\ first \in Turns /\ act[first].st # "cancelled"
        /\ act' = SetState(act, Range(Batch(first)), "preparing")
        /\ pump' = [pump EXCEPT !.pc = "validate", !.batch = Batch(first)]
        /\ UNCHANGED <<sch, fence>>
  /\ UNCHANGED <<lanes, pend, agent, transcript, evq, evFailed, pumpRest>>

(* _executeSelectedSessionCommand, up to the command and after it          *)
StartCommand ==
  /\ pump.pc = "command" /\ Holds("pump")
  /\ LET a == pump.batch[1] IN
     \/ /\ act[a].st = "cancelled"
        /\ pump' = NoPump /\ fence' = Leave("pump") /\ sch' = Finish(sch, act)
        /\ UNCHANGED act
     \/ /\ act[a].st # "cancelled" /\ (Deferred \/ Active)
        /\ act' = SetState(act, {a}, "queued")
        /\ pump' = NoPump /\ fence' = Leave("pump") /\ sch' = Finish(sch, act')
     \/ /\ act[a].st # "cancelled" /\ ~Deferred /\ ~Active
        /\ act' = [act EXCEPT ![a] = [act[a] EXCEPT !.st = "running",
                                         !.delivered = Settle(act[a].delivered, "not_applicable")]]
        /\ pump' = [pump EXCEPT !.pc = "executing"]
        /\ UNCHANGED <<fence, sch>>
  /\ UNCHANGED <<lanes, pend, agent, transcript, evq, evFailed, pumpRest>>

(* The command's end; the append of its message, before it, may throw.     *)
AppendFails ==
  /\ pump.pc = "command" /\ Holds("pump")
  /\ act[pump.batch[1]].st # "cancelled" /\ ~Deferred /\ ~Active

EndCommand ==
  /\ pump.pc = "executing" \/ AppendFails
  /\ \E ok \in BOOLEAN :
       LET a == pump.batch[1]
           x == [act[a] EXCEPT !.st = IF ok THEN "completed" ELSE "failed",
                  !.delivered = IF ok THEN @ ELSE Settle(@, "rejected"),
                  !.completed = Settle(@, IF ok THEN "ok" ELSE "error")]
       IN (ok => pump.pc = "executing") /\ act' = [act EXCEPT ![a] = x]
  /\ lanes' = Without(lanes, {pump.batch[1]})
  /\ pump' = NoPump /\ fence' = Leave("pump") /\ sch' = Finish(sch, act')
  /\ UNCHANGED <<pend, agent, transcript, evq, evFailed, pumpRest>>

-----------------------------------------------------------------------------
(* The end of a batch: _startPreparedTurnActions settled or threw          *)

Terminal == {"completed", "failed", "cancelled"}
(* Faulty variant: a finished action stays in the store. *)
ReleasedNone(A) == {}
ReleasedFrom(A) == {a \in Range(pump.batch) : A[a].st \in Terminal /\ ~A[a].captured}

(* The catch: notes that were not delivered wait again, undelivered turns  *)
(* are queued again when the error is a deferral, and fail otherwise.      *)
(* Faulty variant: what has been delivered is rolled back as well. *)
DeliveredNever(a) == FALSE
Delivered(a) == act[a].durable \/ Primary(a) \in Range(transcript)
Throw(deferral) ==
  LET B == {a \in Range(pump.batch) : act[a].st # "cancelled"}
      undelivered == {a \in B : ~Delivered(a)}
      stripped == [a \in Acts |->
         IF a \notin Range(pump.batch) THEN act[a]
         ELSE [act[a] EXCEPT !.next = <<>>,
                 !.prefix = IF a \in B THEN Drop(@, Range(transcript)) ELSE @,
                 !.durable = Delivered(a)]]
      failed(x, a) == [x EXCEPT !.st = "failed", !.completed = Settle(@, "error"),
                         !.delivered = IF a \in undelivered THEN Settle(@, "rejected") ELSE @]
      A == IF deferral THEN SetState(stripped, undelivered, "queued")
           ELSE [a \in Acts |-> IF a \in B THEN failed(stripped[a], a) ELSE stripped[a]]
  IN /\ act' = A
     /\ lanes' = Without(lanes, ReleasedFrom(A))
     /\ pend' = Drop(pump.notes, Range(transcript)) \o pend
     /\ pump' = IF Deferred THEN NoPump ELSE Loop(A)
     /\ sch' = sch

(* Faulty variant: a deferred batch is dropped where it stands. *)
FailWithoutRollback ==
  IF Deferred THEN pump' = NoPump /\ UNCHANGED <<act, lanes, pend, sch>> ELSE Throw(FALSE)

(* An error while preparing is a deferral when the pump has been put off.  *)
Fail == Throw(Deferred)

ActiveTurns == Keep(pump.batch, {a \in Acts : act[a].st = "preparing"})

(* _prepareForCommit up to the extensions' before_agent_start; a direct    *)
(* turn takes the waiting notes here, a queued one when it commits.        *)
Validate ==
  /\ pump.pc = "validate"
  /\ \/ Fail
     \/ /\ ~Deferred
        /\ LET direct == ~act[pump.batch[1]].vis IN
           /\ pump' = [pump EXCEPT !.pc = "extensions", !.notes = IF direct THEN pend ELSE <<>>]
           /\ pend' = IF direct THEN <<>> ELSE pend
        /\ UNCHANGED <<act, lanes, sch>>
  /\ UNCHANGED <<fence, agent, transcript, evq, evFailed, pumpRest>>

(* before_agent_start is over: commit, or stop when all were cancelled *)
Prepare ==
  /\ pump.pc = "extensions"
  /\ \/ Fail /\ UNCHANGED fence
     \/ /\ ~Deferred /\ ActiveTurns = <<>>
        /\ lanes' = Without(lanes, ReleasedFrom(act))
        /\ pend' = pump.notes \o pend
        /\ pump' = Loop(act)
        /\ UNCHANGED <<act, sch, fence>>
     \/ /\ ~Deferred /\ ActiveTurns # <<>>
        /\ pump' = [pump EXCEPT !.pc = "commit", !.turns = ActiveTurns]
        /\ fence' = Join("pump")
        /\ UNCHANGED <<act, lanes, pend, sch>>
  /\ UNCHANGED <<agent, transcript, evq, evFailed, pumpRest>>

(* Under the fence: the last check, the notes, and agent.prompt *)
Commit ==
  /\ pump.pc = "commit" /\ Holds("pump")
  /\ fence' = Leave("pump")
  /\ LET stale == Deferred \/ Active \/ \E a \in Range(pump.turns) : act[a].st # "preparing"
         first == pump.turns[1]
         notes == IF act[pump.batch[1]].vis THEN pend ELSE pump.notes
         A == SetState([act EXCEPT ![first].next = notes], Range(pump.turns), "committing")
         msgs(a) == A[a].prefix \o A[a].next \o <<Primary(a)>>
     IN IF stale THEN Throw(TRUE) /\ UNCHANGED agent
        ELSE /\ act' = A
             /\ pend' = IF act[pump.batch[1]].vis THEN <<>> ELSE pend
             /\ pump' = [pump EXCEPT !.pc = "running", !.notes = notes]
             /\ agent' = [on |-> TRUE, mid |-> FALSE,
                  todo |-> FlattenSeq([i \in 1 .. Len(pump.turns) |-> msgs(pump.turns[i])])]
             /\ UNCHANGED <<lanes, sch>>
  /\ UNCHANGED <<transcript, evq, evFailed, pumpRest>>

(* promptPromise, the retry chain and the events of the run have settled *)
RunSettled ==
  /\ pump.pc = "running" /\ ~Active /\ retry = "no" /\ (evq = <<>> \/ HasCapture)
  /\ LET missing == \E a \in Range(pump.turns) : act[a].st # "cancelled" /\ ~Delivered(a)
         A == [a \in Acts |->
                 IF a \in Range(pump.batch) /\ act[a].st \in {"committing", "running"}
                 THEN [act[a] EXCEPT !.st = "completed", !.completed = Settle(@, "ok")]
                 ELSE act[a]]
     IN IF missing \/ Rejected THEN Fail
        ELSE /\ act' = A
             /\ lanes' = Without(lanes, ReleasedFrom(A))
             /\ pump' = IF pump.epoch # sch.epoch THEN NoPump ELSE Loop(A)
             /\ UNCHANGED <<pend, sch>>
  /\ UNCHANGED <<fence, agent, transcript, evq, evFailed, pumpRest>>

-----------------------------------------------------------------------------
(* The agent's run, and _handleAgentEvent which sees each event at once    *)

runRest == <<lanes, client, pump, fence, check, nav, busy, persisted, pend>>

MessageStart ==
  /\ agent.on /\ ~agent.mid /\ agent.todo # <<>>
  /\ agent' = [agent EXCEPT !.mid = TRUE]
  /\ LET m == Head(agent.todo) IN
     act' = [a \in Acts |-> IF m = Primary(a)
              THEN [act[a] EXCEPT !.started = TRUE, !.delivered = Settle(@, "delivered")]
              ELSE act[a]]
  /\ UNCHANGED <<runRest, sch, retry, ops, transcript, evq, evFailed>>

MessageEnd ==
  /\ agent.on /\ agent.mid
  /\ LET m == Head(agent.todo) IN
     /\ agent' = [agent EXCEPT !.mid = FALSE, !.todo = Tail(@)]
     /\ transcript' = Append(transcript, m)
     /\ evq' = Append(evq, m)
     /\ act' = [a \in Acts |-> IF m = Primary(a)
                 THEN [act[a] EXCEPT !.durable = TRUE,
                         !.st = IF @ = "committing" THEN "running" ELSE @]
                 ELSE act[a]]
  /\ UNCHANGED <<runRest, sch, retry, ops, evFailed>>

(* agent_end; a run that fails early leaves messages undelivered.  When    *)
(* the run can be retried the promise of that is made at once.             *)
AgentEnd ==
  /\ agent.on
  /\ \/ agent.todo = <<>> /\ UNCHANGED ops
     \/ agent.todo # <<>> /\ Op("run_fails")
  /\ retry' = retry \/ ("retry" \in Ops /\ retry' = "promised")
  /\ agent' = NoRun
  /\ transcript' = Drop(transcript, Captured(act))
  /\ evq' = Append(evq, "agent_end")
  /\ UNCHANGED <<runRest, sch, act, evFailed>>

(* The timer's agent.continue(), which looks at no fence and no pause, and *)
(* the end of its run.                                                     *)
RetryRun ==
  /\ retry = "timer" /\ retry' = "on"
  /\ UNCHANGED <<runRest, sch, agent, act, transcript, evq, evFailed, ops>>

RetryEnd ==
  /\ retry = "on" /\ retry' = "promised"
  /\ transcript' = Drop(transcript, Captured(act))
  /\ evq' = Append(evq, "agent_end")
  /\ UNCHANGED <<runRest, sch, agent, act, evFailed, ops>>

(* Faulty variant: the messages of a cancelled dispatch are saved too. *)
SkippedEnd(e) == e = "agent_end"

(* _processAgentEvent: a message goes to the session file, unless it       *)
(* belongs to a cancelled dispatch; the end of the run first releases      *)
(* those.  What follows (an append, an extension, a compaction) may throw. *)
(* A failed run sleeps and arms the timer of its retry, or gives up, which *)
(* schedules the pump (_handleRetryableError, _resolveRetry).              *)
Skipped(e) == e = "agent_end" \/ e \in Captured(act)

ProcessEvent ==
  /\ evq # <<>>
  /\ LET e == Head(evq)
         gone == Captured(act)
         cleared == IF e = "agent_end" THEN {a \in Acts : act[a].captured} ELSE {}
         retrying == e = "agent_end" /\ retry = "promised"
         settled == IF retrying THEN "no" ELSE retry
     IN
     /\ evq' = Tail(evq)
     /\ \/ evFailed' = FALSE /\ UNCHANGED ops /\ retry' = settled
        \/ evFailed' = FALSE /\ Op("retry") /\ retrying /\ cleared = {} /\ retry' = "timer"
        \/ evFailed' = TRUE /\ Op("event_fails") /\ retry' \in {retry, settled}
           /\ (cleared # {} => retry' = settled)
     /\ sch' = IF retrying /\ retry' = "no" THEN Schedule(sch, act) ELSE sch
     /\ lanes' = Without(lanes, cleared)
     /\ act' = [a \in Acts |-> [act[a] EXCEPT !.captured = @ /\ a \notin cleared]]
     /\ transcript' = Drop(transcript, gone)
     /\ persisted' = IF Skipped(e) \/ evFailed' THEN persisted
                     ELSE Append(persisted, e)
  /\ UNCHANGED <<client, pump, fence, check, nav, busy, agent, pend>>

-----------------------------------------------------------------------------
(* Operations from outside *)

opRest == <<client, pump, fence, check, nav, evq, evFailed, persisted>>

(* requestAbort: suspend the pump, cancel the turns no queue shows, abort, *)
(* and end a retry's sleep; before it, the abort comes too early.  That no *)
(* abort comes between the sleep and the timer, 0 ms, is assumed.          *)
RequestAbort ==
  /\ Op("abort")
  /\ retry # "timer" /\ retry' \in {retry} \cup (IF retry = "promised" THEN {"no"} ELSE {})
  /\ sch' = Unrequest([sch EXCEPT !.suspended = TRUE])
  /\ CancelActions({a \in Turns : act[a].st \in Clearable /\ ~act[a].vis})
  /\ UNCHANGED <<opRest, busy, agent>>

ResumeQueuedWork ==
  /\ sch.suspended
  /\ sch' = Schedule(Resume(sch, act), act)
  /\ UNCHANGED <<opRest, retry, storeVars, busy, agent, transcript, ops>>

ClearQueue ==
  /\ Op("clear")
  /\ LET S == {a \in Acts : act[a].st \in Clearable /\ (a \in Commands \/ act[a].vis)} IN
     /\ S # {}
     /\ sch' = IF \E a \in S \cap Turns : act[a].st = "preparing" THEN Bump(sch) ELSE sch
     /\ CancelActions(S)
  /\ UNCHANGED <<opRest, retry, busy, agent>>

(* removeQueuedFollowUp, an aborted promptAndWait, a deleted queue item,   *)
(* which also resumes the queue (mutateQueuedMessage)                      *)
CancelOne ==
  /\ Op("cancel")
  /\ \E a \in Turns : act[a].st \in Clearable /\ CancelActions({a})
  /\ sch' \in {sch, Schedule(Resume(sch, act'), act')}
  /\ UNCHANGED <<opRest, retry, busy, agent>>

(* clearQueuedAgentMessages also takes back a dispatch that has not begun. *)
ClearAgentMessages ==
  /\ Op("clear_agent")
  /\ LET dispatched == {a \in Turns : act[a].st \in {"committing", "running"}}
         S == {a \in AgentMsgs : \/ act[a].st \in Clearable
                                 \/ /\ act[a].st = "committing" /\ ~act[a].started
                                    /\ dispatched = {a}}
     IN S # {} /\ CancelActions(S)
  /\ UNCHANGED <<opRest, retry, sch, busy, agent>>

(* mutateQueuedMessage: a visible queued turn changes its lane.            *)
MoveQueued ==
  /\ Op("move")
  /\ \E a \in Turns \ AgentMsgs :
       /\ act[a].st = "queued" /\ act[a].vis
       /\ LET to == CHOOSE l \in Lanes : l # act[a].lane IN
          /\ act' = [act EXCEPT ![a].lane = to]
          /\ lanes' = [Without(lanes, {a}) EXCEPT ![to] = Append(@, a)]
          /\ sch' = Schedule(Resume(sch, act'), act')
  /\ UNCHANGED <<opRest, retry, pend, busy, agent, transcript>>

(* acquireSessionInputPause and its release *)
PauseAdmission ==
  /\ Op("pause")
  /\ sch' = Unrequest([sch EXCEPT !.apauses = @ + 1])
  /\ UNCHANGED <<opRest, retry, storeVars, busy, agent, transcript>>

ResumeAdmission ==
  /\ sch.apauses > 0
  /\ sch' = Schedule(Bump([sch EXCEPT !.apauses = @ - 1]), act)
  /\ UNCHANGED <<opRest, retry, storeVars, busy, agent, transcript, ops>>

BusyStart ==
  /\ busy = "no" /\ busy' \in {"compaction", "bash"} /\ Op("busy")
  /\ UNCHANGED <<opRest, retry, storeVars, sch, agent, transcript>>

(* Only a compaction schedules the pump at its end; behind a bash command  *)
(* of the user that waits for the agent (_drainQueuedMessagesAfterBash).   *)
BusyEnd ==
  /\ \/ busy = "compaction" /\ busy' = "no" /\ sch' = Schedule(sch, act)
     \/ busy = "bash" /\ busy' \in {"no", "drain"} /\ UNCHANGED sch
     \/ busy = "drain" /\ ~Active /\ busy' = "no" /\ sch' = Schedule(sch, act)
  /\ UNCHANGED <<opRest, retry, storeVars, agent, transcript, ops>>

-----------------------------------------------------------------------------
(* acquireQueuedWorkPause, for an update restart and for a navigation      *)

pauseRest == <<storeVars, client, pump, busy, agentVars>>
Paused(w) == Unrequest([sch EXCEPT !.wpauses = @ \cup {w}])
(* Faulty variant: the end of one pause ends them all. *)
UnpausedAll(w) == Schedule([sch EXCEPT !.wpauses = {}], act)
Unpaused(w) == Schedule([sch EXCEPT !.wpauses = @ \ {w}], act)

(* blocksCheckpoint of waitForSessionInputCheckpoint *)
BlocksCheckpoint ==
  \E a \in Range(Owned) :
    IF a \in Commands THEN act[a].st \in {"selected", "running"}
    ELSE \/ act[a].st \in {"selected", "preparing"}
         \/ act[a].st = "committing" /\ ~act[a].durable

PrepareRestart ==
  /\ check = "none" /\ check' = "wait" /\ Op("restart")
  /\ sch' = Paused("restart")
  /\ UNCHANGED <<pauseRest, fence, nav>>

CheckpointClear ==
  /\ check = "wait" /\ ~BlocksCheckpoint
  /\ check' = "fence" /\ fence' = Join("check")
  /\ UNCHANGED <<pauseRest, sch, nav, ops>>

(* Events that cannot be saved make the preparation fail.                  *)
CheckpointFenced ==
  /\ check = "fence" /\ Holds("check")
  /\ \/ BlocksCheckpoint /\ check' = "wait" /\ UNCHANGED sch
     \/ ~BlocksCheckpoint /\ evq = <<>> /\ ~evFailed /\ check' = "passed" /\ UNCHANGED sch
     \/ ~BlocksCheckpoint /\ evq = <<>> /\ evFailed /\ check' = "none" /\ sch' = Unpaused("restart")
  /\ fence' = Leave("check")
  /\ UNCHANGED <<pauseRest, nav, ops>>

(* cancelPreparedUpdateRestart, from any point of the preparation *)
CancelRestart ==
  /\ check # "none" /\ check' = "none"
  /\ fence' = Leave("check")
  /\ sch' = Unpaused("restart")
  /\ UNCHANGED <<pauseRest, nav, ops>>

Navigate ==
  /\ nav = "none" /\ nav' = "fence" /\ Op("navigate")
  /\ sch' = Paused("navigate")
  /\ fence' = Join("nav")
  /\ UNCHANGED <<pauseRest, check>>

(* Faulty variant: the fence alone, without waiting for the run. *)
NavigateAtOnce ==
  /\ nav = "fence" /\ Holds("nav") /\ nav' = "navigating"
  /\ UNCHANGED <<pauseRest, sch, fence, check, ops>>

(* It waits for the agent and the events, not for a retry to come.         *)
NavigateFenced ==
  /\ nav = "fence" /\ Holds("nav") /\ ~Active /\ evq = <<>>
  /\ IF evFailed THEN nav' = "none" /\ sch' = Unpaused("navigate") /\ fence' = Leave("nav")
     ELSE nav' = "navigating" /\ UNCHANGED <<sch, fence>>
  /\ UNCHANGED <<pauseRest, check, ops>>

NavigateEnd ==
  /\ nav = "navigating" /\ nav' = "none"
  /\ sch' = Unpaused("navigate")
  /\ fence' = Leave("nav")
  /\ UNCHANGED <<pauseRest, check, ops>>

-----------------------------------------------------------------------------
Clients == \E a \in Acts : Submit(a) \/ PauseOver(a) \/ FenceGranted(a)
                           \/ AdmitPrompt(a) \/ Handled(a)
Pump == \/ StartPump \/ AgentIdle \/ SelectInput \/ StartCommand \/ EndCommand
        \/ Validate \/ Prepare \/ Commit \/ RunSettled
Run == MessageStart \/ MessageEnd \/ AgentEnd \/ RetryRun \/ RetryEnd \/ ProcessEvent
Outside == \/ RequestAbort \/ ResumeQueuedWork \/ ClearQueue \/ CancelOne
           \/ ClearAgentMessages \/ MoveQueued \/ PauseAdmission \/ ResumeAdmission
           \/ BusyStart \/ BusyEnd
Pauses == \/ PrepareRestart \/ CheckpointClear \/ CheckpointFenced \/ CancelRestart
          \/ Navigate \/ NavigateFenced \/ NavigateEnd

Next == Clients \/ Pump \/ Run \/ Outside \/ Pauses

Spec == Init /\ [][Next]_vars

(* Promise jobs run: prompt() past its awaits, the pump, the event queue,  *)
(* an agent's run (which ends or is aborted), a waiting checkpoint; and    *)
(* whoever holds the session busy or paused lets go.                       *)
FairSpec ==
  /\ Spec
  /\ \A a \in Acts : WF_vars(PauseOver(a) \/ FenceGranted(a) \/ AdmitPrompt(a) \/ Handled(a))
  /\ WF_vars(Pump) /\ WF_vars(Run)
  /\ WF_vars(BusyEnd) /\ WF_vars(ResumeAdmission)
  /\ WF_vars(CheckpointClear \/ CheckpointFenced \/ CancelRestart)
  /\ WF_vars(NavigateFenced) /\ WF_vars(NavigateEnd)

-----------------------------------------------------------------------------
(* Properties *)

(* The records of the store and of the scheduler keep their shape, and the *)
(* two lists hold every unfinished action once, in the lane of its         *)
(* delivery policy.                                                        *)
TypeOK ==
  /\ \A a \in Acts : act[a].st \in States /\ act[a].lane \in Lanes
  /\ \A l \in Lanes : IsInjective(lanes[l]) /\ \A a \in Range(lanes[l]) : act[a].lane = l
  /\ \A a \in Acts : act[a].st \in Unfinished => a \in Range(lanes[act[a].lane])
  /\ \A a \in Range(Owned) : act[a].st \in Unfinished \/ act[a].captured

(* No message is handed to the model twice, whatever was rolled back,      *)
(* dispatched again, cancelled or restored in between.                     *)
DeliveredOnce ==
  \A i, j \in 1 .. Len(transcript) : i # j => transcript[i][1] # transcript[j][1]

(* A client that was told its prompt was not delivered may submit it       *)
(* again: the session file never has it, and the transcript has it only    *)
(* until the run it was taken back from has been cleaned up.               *)
RejectedStaysOut ==
  \A a \in Turns : act[a].delivered = "rejected" =>
    /\ Primary(a) \notin Range(persisted)
    /\ Primary(a) \in Range(transcript) => act[a].captured

(* An action past "selected" is in the hands of the pump that runs.         *)
Driven ==
  \A a \in Acts :
    act[a].st \in {"preparing", "committing", "running"} => a \in Range(pump.batch)

(* Whoever awaits a ticket hears: an action that has left the store has    *)
(* both promises settled.                                                  *)
TicketsSettled ==
  \A a \in Acts : act[a].st \in Terminal =>
    act[a].delivered # "pending" /\ act[a].completed # "pending"

(* Once an update restart has its checkpoint, and until it is given up,    *)
(* nothing starts: what the manifest lists is what the session holds.      *)
CheckpointHolds == check = "passed" => ~BlocksCheckpoint

(* A navigation of the tree and a turn's dispatch never move the leaf at   *)
(* the same time: while the tree is navigated no dispatch runs, and no     *)
(* message of one waits to be saved.  (A retry's run is no dispatch.)      *)
DispatchesWait == nav = "navigating" => ~agent.on /\ evq \in Seq({"agent_end"})

(* Stronger, and refuted by the retry's timer: no run at all.              *)
NavigationAlone == nav = "navigating" => ~Active

(* The places a note can be delivered from, or has been delivered to. *)
Places(n) ==
  {<<"pend", i>> : i \in {i \in 1 .. Len(pend) : pend[i][1] = n}}
  \cup {<<"pump", i>> : i \in {i \in 1 .. Len(pump.notes) : pump.notes[i][1] = n
            /\ pump.notes[i] \notin Range(transcript)
            /\ ~(pump.pc = "running" /\ act[pump.turns[1]].st = "cancelled")}}
  \cup {<<"prefix", a>> : a \in {a \in Turns : act[a].st \in Unfinished
            /\ \E m \in Range(act[a].prefix) : m[1] = n /\ m \notin Range(transcript)}}
  \cup {<<"transcript", i>> : i \in {i \in 1 .. Len(transcript) : transcript[i][1] = n
            /\ transcript[i] \notin Captured(act)}}

(* A note is never in two places: no turn can deliver it a second time.    *)
NotesOnce == \A n \in Notes : Cardinality(Places(n)) <= 1

(* Whoever queues for the commit fence gets it and gives it back: prompt(), *)
(* the pump, a checkpoint and a navigation, whatever fails in between.     *)
FenceIsPassedOn == \A p \in Acts \cup {"pump", "check", "nav"} :
  p \in Range(fence) ~> p \notin Range(fence)

(* Two promises that the code does not keep (README.md, experiments):      *)
(* while nothing holds the scheduler back, work that can be selected has a *)
(* pump of the current epoch running or chained; and everything admitted   *)
(* is over in the end, unless the user has aborted and not resumed.        *)
NeverStranded ==
  Selectable(act) /\ ~PumpBusy /\ sch.apauses = 0
    => \/ pump.pc # "off" /\ pump.epoch = sch.epoch
       \/ \E i \in 1 .. Len(sch.queue) : sch.queue[i] = sch.epoch
PromptSettles == Owned # <<>> ~> Owned = <<>> \/ sch.suspended

-----------------------------------------------------------------------------
(* The inductive invariant of TypeOK, TicketsSettled, CheckpointHolds and  *)
(* DispatchesWait.                                                         *)

NoteMsgs == Notes \X Nat
Actions ==
  [st : States, lane : Lanes, vis : BOOLEAN, started : BOOLEAN, durable : BOOLEAN,
   prefix : Seq(NoteMsgs), next : Seq(NoteMsgs), captured : BOOLEAN,
   delivered : {"pending", "delivered", "rejected", "not_applicable"},
   completed : {"pending", "ok", "error"}]
Schedulers ==
  [epoch : Nat, requested : BOOLEAN, queue : Seq(Nat), suspended : BOOLEAN,
   wpauses : SUBSET {"restart", "navigate"}, apauses : Nat]
Pumps ==
  [pc : {"off", "idle", "select", "command", "executing", "validate", "extensions",
         "commit", "running"},
   epoch : Nat, pre : Acts \cup {None}, batch : Seq(Acts), turns : Seq(Acts),
   notes : Seq(NoteMsgs)]
Submissions == {"none", "unfenced", "wait", "fence", "held", "refused", "done"}
Parties == Acts \cup {"pump", "check", "nav"}

(* What an agent may be told: notes, and the prompts that were admitted.   *)
Sent == NoteMsgs \cup {Primary(a) : a \in {b \in Acts : act[b].st # "new"}}

StoreTypes ==
  /\ act \in [Acts -> Actions] /\ lanes \in [Lanes -> Seq(Acts)] /\ pump \in Pumps
  /\ agent \in [on : BOOLEAN, mid : BOOLEAN, todo : Seq(Sent)]
  /\ transcript \in Seq(Sent) /\ pend \in Seq(NoteMsgs)
  /\ client \in [Acts -> Submissions]

(* A submission that has not been admitted has no action, and only a       *)
(* cancelled action can be a captured dispatch.                            *)
NewAreFresh ==
  \A a \in Acts : /\ client[a] # "done" => act[a].st = "new"
                  /\ act[a].captured => act[a].st = "cancelled"

(* What the pump holds, by where it is.                                    *)
BatchStates ==
  /\ pump.pc = "select" /\ pump.pre # None => act[pump.pre].st \in {"selected", "cancelled"}
  /\ pump.pc \in {"command", "executing"} =>
       pump.batch # << >> /\ pump.batch[1] \in Commands
  /\ pump.pc = "command" => act[pump.batch[1]].st \in {"selected", "cancelled"}
  /\ pump.pc = "executing" =>
       act[pump.batch[1]].st = "running" /\ act[pump.batch[1]].delivered # "pending"
  /\ pump.pc \in {"validate", "extensions", "commit"} =>
       \A a \in Range(pump.batch) : a \in Turns /\ act[a].st \in {"preparing", "cancelled"}
  /\ pump.pc = "running" =>
       /\ Range(pump.batch) \subseteq Turns
       /\ \A a \in Range(pump.turns) : act[a].st \in {"committing", "running", "cancelled"}
  /\ pump.pc \in {"commit", "running"} =>
       /\ Range(pump.turns) \subseteq Range(pump.batch)
       /\ \A a \in Range(pump.batch) \ Range(pump.turns) : act[a].st = "cancelled"
  /\ \A a \in Acts : act[a].st \in {"preparing", "committing"} => a \in Turns

(* Whoever awaits the delivery of a message the agent has seen has heard.  *)
DeliveriesHeard ==
  /\ \A a \in Acts : Delivered(a) => act[a].delivered # "pending"
  /\ agent.mid =>
       /\ agent.todo # << >>
       /\ \A a \in Acts : Head(agent.todo) = Primary(a) => act[a].delivered # "pending"

StoreInv ==
  /\ StoreTypes /\ TypeOK /\ NewAreFresh /\ BatchStates
  /\ DeliveriesHeard /\ TicketsSettled

PauseInv ==
  /\ sch \in Schedulers /\ fence \in Seq(Parties)
  /\ check # "none" => "restart" \in sch.wpauses
  /\ CheckpointHolds
  /\ nav = "navigating" => Holds("nav") /\ ~agent.on /\ evq \in Seq({"agent_end"})

SessionInv == StoreInv /\ PauseInv

-----------------------------------------------------------------------------
(* The other properties hold when some of the outside operations do not    *)
(* happen (README.md shows how they fail otherwise); their inductive       *)
(* invariants, on top of SessionInv.                                       *)

(* The agent runs for the pump's dispatch and has its messages to deliver, *)
(* the pump waits for the retry of a failed run, and a pump without a      *)
(* dispatch has no batch.                                                  *)
AgentDriven ==
  /\ agent.on => pump.pc = "running"
  /\ ~agent.on => ~agent.mid /\ agent.todo = << >>
  /\ retry # "no" => ~agent.on /\ pump.pc = "running"
  /\ pump.pc \in {"off", "idle", "select"} => pump.batch = << >>
  /\ pump.pc \in {"command", "executing"} => Range(pump.batch) = {pump.batch[1]}
  /\ \A a \in Acts : Primary(a) \in Range(agent.todo) => a \in Range(pump.turns)

(* What has not been dispatched has not been delivered.                    *)
Undelivered ==
  \A a \in Acts : act[a].st \in {"new", "queued", "selected", "preparing"} => ~Delivered(a)

(* No run and no event fails: every turn of the dispatch is delivered or   *)
(* will be, unless it is taken back.                                       *)
AllDelivered ==
  /\ ~evFailed
  /\ pump.pc = "running" => \A a \in Range(pump.turns) :
       act[a].st = "cancelled" \/ act[a].durable \/ Primary(a) \in Range(agent.todo)

DrivenInv == AgentDriven /\ Undelivered /\ AllDelivered /\ Driven

(* The events of a run and the session file.                               *)
EventTypes ==
  /\ Len(evq) \in Nat /\ evq = [i \in 1 .. Len(evq) |-> evq[i]]
  /\ \A i \in 1 .. Len(evq) : evq[i] = "agent_end" \/ evq[i] \in Sent
  /\ persisted \in Seq(Sent)

(* Where the agent, the transcript, the event queue and the session file   *)
(* have a prompt.                                                          *)
Waits(a) == \E i \in 1 .. Len(evq) : Primary(a) = evq[i]
Seen(a) == Primary(a) \in Range(transcript) \/ Waits(a) \/ Primary(a) \in Range(persisted)

(* A prompt that the agent has begun to deliver has been heard of, what    *)
(* has been seen was begun, and a prompt to deliver is of a dispatch.      *)
BegunIsHeard ==
  /\ \A a \in Acts : /\ Seen(a) => act[a].started
                     /\ act[a].started => act[a].delivered # "pending"
                     /\ Primary(a) \in Range(agent.todo) =>
                          act[a].st \in {"committing", "running"} \/ act[a].captured
  /\ agent.mid => \A a \in Acts : Head(agent.todo) = Primary(a) => act[a].started

(* What was refused is finished, and it is nowhere when its run is cleaned *)
(* up.                                                                     *)
RefusedIsOut ==
  \A a \in Acts : act[a].delivered = "rejected" =>
    /\ act[a].st \in {"cancelled", "failed"}
    /\ act[a].captured \/ (~Seen(a) /\ Primary(a) \notin Range(agent.todo))

(* The messages of a dispatch that was taken back are not saved, and the   *)
(* end of their run comes after them.                                      *)
CaptureEnds ==
  \A a \in Acts : act[a].captured =>
    /\ a \in AgentMsgs /\ Primary(a) \notin Range(persisted)
    /\ \A i \in 1 .. Len(evq) : evq[i] = "agent_end" =>
         /\ Primary(a) \notin Range(agent.todo)
         /\ \A j \in i + 1 .. Len(evq) : Primary(a) # evq[j]

(* A dispatch begins before the end of an earlier run has been processed   *)
(* only when a message of an agent was taken back.                         *)
NoEarlierEnd ==
  (\E i \in 1 .. Len(evq) : evq[i] = "agent_end")
    /\ (agent.on \/ pump.pc \in {"validate", "extensions", "commit"})
    => \E c \in AgentMsgs : act[c].st = "cancelled"

RejectedInv ==
  EventTypes /\ AgentDriven /\ BegunIsHeard /\ RefusedIsOut /\ CaptureEnds /\ NoEarlierEnd

(* Who holds notes that may still be delivered, and which.  A run whose    *)
(* prompt was taken back has given its notes back.                         *)
Holders == Acts \cup {"pend", "pump"}
Retaken == pump.pc = "running" /\ act[pump.turns[1]].st = "cancelled"
Stock(h) ==
  IF h = "pend" THEN pend
  ELSE IF h = "pump" THEN IF Retaken THEN << >> ELSE pump.notes
  ELSE IF act[h].st \in Unfinished THEN act[h].prefix ELSE << >>

(* Each note is held once, and what is held waits to be delivered, unless  *)
(* it just was; it is no message of a dispatch that was taken back.        *)
StockOnce ==
  /\ \A h \in Holders : IsInjective(Stock(h)) /\ Range(Stock(h)) \cap Captured(act) = {}
  /\ \A g, h \in Holders : \A x \in Range(Stock(g)), y \in Range(Stock(h)) :
       x[1] = y[1] => g = h /\ x = y
  /\ \A h \in Holders : \A x \in Range(Stock(h)), y \in Range(transcript) :
       x[1] = y[1] => y \in Captured(act) \/ (h # "pend" /\ x = y)

(* What has not been dispatched has delivered none of its notes.           *)
StockReady ==
  /\ \A a \in Acts : act[a].st \in Clearable =>
       act[a].next = << >> /\ Range(act[a].prefix) \cap Range(transcript) = {}
  /\ pump.pc \in {"extensions", "commit"} => Range(pump.notes) \cap Range(transcript) = {}
  /\ pump.pc \notin {"extensions", "commit", "running"} => pump.notes = << >>

(* What the agent has to deliver is there once, is new, and is of the      *)
(* turns that were dispatched; what it has delivered is there once.        *)
MessagesOnce ==
  /\ IsInjective(agent.todo) /\ IsInjective(transcript)
  /\ \A x, y \in Range(agent.todo) : x[1] = y[1] => x = y
  /\ \A x, y \in Range(transcript) : x[1] = y[1] => x = y
  /\ \A x \in Range(agent.todo), y \in Range(transcript) : x[1] # y[1]
  /\ Range(agent.todo) \subseteq UNION {RecordsOf(a) : a \in Range(pump.turns)}

(* The messages of a dispatch that was taken back are in the transcript    *)
(* only until its run ends.                                                *)
CaptureRuns ==
  /\ IF agent.on /\ Retaken
     THEN act[pump.turns[1]].captured /\ \A i \in 1 .. Len(evq) : evq[i] # "agent_end"
     ELSE Range(transcript) \cap Captured(act) = {}
  /\ (\E a \in Acts : act[a].captured) \/ Retaken => "clear_agent" \in Ops
  /\ evFailed => "event_fails" \in Ops

(* The turns of a dispatch: each is there once, the first has the notes    *)
(* that the pump took, and only a single one can have been taken back.     *)
BatchOnce ==
  /\ IsInjective(pump.batch) /\ IsInjective(pump.turns)
  /\ pump.pc \in {"commit", "running"} => pump.turns # << >>
  /\ pump.pc = "running" =>
       /\ act[pump.turns[1]].next = pump.notes
       /\ \A a \in Range(pump.turns) : a # pump.turns[1] => act[a].next = << >>
       /\ \/ \A a \in Range(pump.turns) : act[a].st \in {"committing", "running"}
          \/ Retaken /\ Range(pump.turns) = {pump.turns[1]}

(* A dispatched prompt that is not delivered is of the dispatch that runs. *)
InFlight ==
  /\ \A a \in Turns : act[a].st \in {"committing", "running"} /\ ~act[a].durable
                        => pump.pc = "running" /\ a \in Range(pump.turns)
  /\ \A a \in Acts : act[a].durable => act[a].started

OnceInv ==
  /\ RejectedInv /\ Undelivered /\ StockOnce /\ StockReady
  /\ MessagesOnce /\ CaptureRuns /\ BatchOnce /\ InFlight
=============================================================================
