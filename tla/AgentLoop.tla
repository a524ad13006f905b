----------------------------- MODULE AgentLoop -----------------------------
(***************************************************************************)
(* The agent loop of packages/agent: class Agent (agent.ts) with its       *)
(* steering and follow-up queues, and the loop it runs (agent-loop.ts).    *)
(*                                                                         *)
(* One step of the model is the code between two awaits.  While a run is   *)
(* active the caller may enqueue, remove and clear queued messages and may *)
(* abort at every such point.  The model, the tools and the callbacks of   *)
(* the configuration are external: they answer with anything, throw, or    *)
(* never answer.                                                           *)
(*                                                                         *)
(* The transcript (agent.state.messages) grows by the events the loop      *)
(* emits; the context that is sent to the model is a copy which the loop   *)
(* maintains on its own, and the two are separate variables here.          *)
(***************************************************************************)
EXTENDS Naturals, Sequences, SequencesExt, FiniteSets

CONSTANTS
    Batches,         \* the message batches the caller has, each used once
    Custom,          \* the messages whose role is "custom"
    Mode,            \* the QueueMode of both queues
    ToolModes,       \* whether a batch of tool calls may be sequential: by toolExecution,
                     \* or because one of its tools has that executionMode
    ListenerThrows,  \* an event listener may throw
    MaxRuns,         \* bound: runs started
    MaxToolTurns,    \* bound: assistant messages with tool calls
    MaxCalls         \* bound: tool calls of one assistant message

Msgs == UNION {Range(b) : b \in Batches}

ASSUME LoopAssumption ==
    /\ \A b \in Batches : b \in Seq(Msgs) /\ b # << >> /\ IsInjective(b)
    /\ \A b, c \in Batches : b # c => Range(b) \cap Range(c) = {}
    /\ Custom \subseteq Msgs
    /\ Mode \in {"all", "one-at-a-time"}
    /\ ToolModes \subseteq BOOLEAN /\ ListenerThrows \in BOOLEAN
    /\ MaxRuns \in Nat /\ MaxToolTurns \in Nat /\ MaxCalls \in Nat

VARIABLES
    pc,         \* where the active run is; "idle" when there is none
    aborted,    \* the active run's abort signal has fired
    steering,   \* steeringQueue.batches
    followUp,   \* followUpQueue.batches
    skip,       \* skipInitialSteeringPoll of the active run
    pending,    \* messages about to be emitted (prompts, pendingMessages)
    drained,    \* messages taken from a queue by a poll not yet resumed
    messages,   \* agent.state.messages
    context,    \* currentContext.messages of the active run
    start,      \* Len(messages) when the active run began
    calls,      \* states of the tool calls of the current assistant message
    results,    \* how many of their results were emitted as messages
    hasMore,    \* hasMoreToolCalls
    orphans,    \* tool calls that outlived the run that launched them
    runs,       \* runs started so far
    ended,      \* agent_end was emitted for the active run
    \* History, for the properties.
    sent,       \* batches given to each operation, in order
    removed,    \* messages the caller took back from a queue
    spoiled,    \* messages in the loop's hands when it was aborted or threw
    late        \* a tool call's event was emitted after its run's agent_end

loop == <<pc, skip, pending, drained, context, start, calls, results,
          hasMore, ended>>
queues == <<steering, followUp>>
history == <<sent, removed, spoiled>>
vars == <<loop, queues, history, aborted, messages, orphans, runs, late>>

Waits == {"initialWait", "steeringWait", "followUpWait"}
Points == {"idle", "prompts", "inject", "streaming", "tools", "turnEnd",
           "stopWait", "steering", "steered", "followUp", "followed",
           "contWait", "end", "settling", "failing", "finish"} \cup Waits

User(m) == [role |-> IF m \in Custom THEN "custom" ELSE "user", msg |-> m]
Assistant(stop, n, seq) ==
    [role |-> "assistant", stop |-> stop, calls |-> n, sequential |-> seq]
Result(i) == [role |-> "toolResult", call |-> i]
Users(ms) == [k \in DOMAIN ms |-> User(ms[k])]

InTranscript == {messages[k].msg : k \in
                    {j \in DOMAIN messages : messages[j].role \in {"user", "custom"}}}
Queued(q) == UNION {Range(q[k]) : k \in DOMAIN q}
Accepted == UNION {UNION {Range(sent[op][k]) : k \in DOMAIN sent[op]} : op \in DOMAIN sent}
Unused == {b \in Batches : Range(b) \cap Accepted = {}}

Send(op, b) == b \in Unused /\ sent' = [sent EXCEPT ![op] = Append(@, b)]

Init ==
    /\ pc = "idle" /\ aborted = FALSE /\ steering = << >> /\ followUp = << >>
    /\ skip = FALSE /\ pending = << >> /\ drained = << >>
    /\ messages = << >> /\ context = << >> /\ start = 0
    /\ calls = << >> /\ results = 0 /\ hasMore = TRUE
    /\ orphans = {} /\ runs = 0 /\ ended = FALSE
    /\ sent = [op \in {"prompt", "steer", "followUp", "continuation"} |-> << >>]
    /\ removed = {} /\ spoiled = {} /\ late = FALSE

(***************************************************************************)
(* PendingMessageQueue.                                                    *)
(***************************************************************************)
Drained(q) == IF q = << >> THEN << >>
              ELSE IF Mode = "all" THEN FlattenSeq(q) ELSE Head(q)
Remaining(q) == IF q = << >> \/ Mode = "all" THEN << >> ELSE Tail(q)
WithoutMatch(q, m) ==
    FlattenSeq([k \in 1..Len(q) |-> IF m \in Range(q[k]) THEN << >> ELSE <<q[k]>>])

(***************************************************************************)
(* The caller.                                                             *)
(***************************************************************************)

\* runWithLifecycle with runAgentLoop or runAgentLoopContinue: the prompts are
\* in the context at once, and in the transcript when they are emitted.
RunWithLifecycle(prompts, skipPoll) ==
    /\ pc = "idle" /\ runs < MaxRuns
    /\ pc' = "prompts" /\ pending' = prompts /\ skip' = skipPoll
    /\ context' = messages \o Users(prompts) /\ start' = Len(messages)
    /\ hasMore' = TRUE /\ ended' = FALSE /\ runs' = runs + 1
    /\ UNCHANGED <<drained, calls, results, aborted, messages, orphans, removed,
                   spoiled, late>>

Prompt(b) ==
    /\ Send("prompt", b)
    /\ RunWithLifecycle(b, FALSE)
    /\ UNCHANGED queues

\* runQueuedMessages: steering first, and a run that begins with steering does
\* not poll for more of it before its first turn.
RunQueuedMessages ==
    /\ \/ /\ steering # << >>
          /\ steering' = Remaining(steering) /\ UNCHANGED followUp
          /\ RunWithLifecycle(Drained(steering), TRUE)
       \/ /\ steering = << >> /\ followUp # << >>
          /\ followUp' = Remaining(followUp) /\ UNCHANGED steering
          /\ RunWithLifecycle(Drained(followUp), FALSE)
    /\ UNCHANGED sent

Continue ==
    LET role == IF messages = << >> THEN "none" ELSE Last(messages).role
    IN  \/ role \in {"none", "assistant", "custom"} /\ RunQueuedMessages
        \/ /\ \/ role \in {"user", "toolResult"}
              \/ role = "custom" /\ steering = << >> /\ followUp = << >>
           /\ RunWithLifecycle(<< >>, FALSE)
           /\ UNCHANGED <<queues, sent>>

\* Faulty variant: a new batch overtakes the queue.
SteerInFront(b) ==
    /\ Send("steer", b)
    /\ steering' = <<b>> \o steering
    /\ UNCHANGED <<loop, followUp, removed, spoiled, aborted, messages, orphans,
                   runs, late>>

Steer(b) ==
    /\ Send("steer", b)
    /\ steering' = Append(steering, b)
    /\ UNCHANGED <<loop, followUp, removed, spoiled, aborted, messages, orphans,
                   runs, late>>

FollowUp(b) ==
    /\ Send("followUp", b)
    /\ followUp' = Append(followUp, b)
    /\ UNCHANGED <<loop, steering, removed, spoiled, aborted, messages, orphans,
                   runs, late>>

ClearAllQueues ==
    /\ steering' = << >> /\ followUp' = << >>
    /\ removed' = removed \cup Queued(steering) \cup Queued(followUp)
    /\ UNCHANGED <<loop, sent, spoiled, aborted, messages, orphans, runs, late>>

\* A predicate that matches one message removes the whole batch it came in.
RemoveQueuedMessages(m) ==
    /\ steering' = WithoutMatch(steering, m) /\ followUp' = WithoutMatch(followUp, m)
    /\ removed' = removed \cup ((Queued(steering) \cup Queued(followUp))
                                \ (Queued(steering') \cup Queued(followUp')))
    /\ UNCHANGED <<loop, sent, spoiled, aborted, messages, orphans, runs, late>>

Spoil == spoiled' = spoiled \cup Range(pending) \cup Range(drained)

Abort ==
    /\ pc # "idle" /\ ~aborted
    /\ aborted' = TRUE /\ Spoil
    /\ UNCHANGED <<loop, queues, sent, removed, messages, orphans, runs, late>>

(***************************************************************************)
(* The loop up to the request.  A poll drains its queue at once and        *)
(* resumes later; raceWithAbort rejects it when the signal fires in        *)
(* between, and throwIfAborted at the head of a turn when it fires after.  *)
(***************************************************************************)
Unmoved == UNCHANGED <<sent, removed, orphans, runs, aborted, late>>

EmitPrompt ==
    /\ pc = "prompts" /\ pending # << >>
    /\ messages' = Append(messages, User(Head(pending)))
    /\ pending' = Tail(pending)
    /\ UNCHANGED <<pc, skip, drained, context, start, calls, results, hasMore,
                   ended, queues, spoiled>>
    /\ Unmoved

\* throwIfAborted at the head of the loops.
BeginTurn == pc' = IF aborted THEN "failing" ELSE "inject"

InitialPoll ==
    /\ pc = "prompts" /\ pending = << >>
    /\ IF aborted \/ skip
       THEN UNCHANGED <<steering, drained>>
       ELSE drained' = Drained(steering) /\ steering' = Remaining(steering)
    /\ skip' = (skip /\ aborted)
    /\ pc' = "initialWait"
    /\ UNCHANGED <<pending, context, start, calls, results, hasMore, ended,
                   followUp, messages, spoiled>>
    /\ Unmoved

Inject ==
    /\ pc = "inject" /\ pending # << >>
    /\ messages' = Append(messages, User(Head(pending)))
    /\ context' = Append(context, User(Head(pending)))
    /\ pending' = Tail(pending)
    /\ UNCHANGED <<pc, skip, drained, start, calls, results, hasMore, ended,
                   queues, spoiled>>
    /\ Unmoved

\* streamAssistantResponse up to the call of the provider; an aborted run goes
\* through it to the aborted message, which AbortedReply adds.
Request ==
    /\ pc = "inject" /\ pending = << >>
    /\ pc' = "streaming"
    /\ UNCHANGED <<skip, pending, drained, context, start, calls, results,
                   hasMore, ended, queues, messages, spoiled>>
    /\ Unmoved

(***************************************************************************)
(* The answer.  Only an answer that ends normally has its tool calls       *)
(* executed; an error or an abort keeps the partial message and ends the   *)
(* run.                                                                    *)
(***************************************************************************)
ToolTurns == Cardinality({k \in DOMAIN messages : messages[k].role = "assistant"
                                                   /\ messages[k].calls > 0})

Answer(stop, n, seq) ==
    /\ pc = "streaming"
    /\ messages' = Append(messages, Assistant(stop, n, seq))
    /\ context' = Append(context, Assistant(stop, n, seq))
    /\ UNCHANGED <<skip, pending, drained, start, ended, queues, spoiled>>
    /\ Unmoved

Reply(n) ==
    /\ ~aborted /\ (n > 0 => ToolTurns < MaxToolTurns)
    /\ \E seq \in IF n > 0 THEN ToolModes ELSE {FALSE} : Answer("stop", n, seq)
    /\ calls' = [i \in 1..n |-> "new"] /\ results' = 0 /\ hasMore' = FALSE
    /\ pc' = IF n > 0 THEN "tools" ELSE "turnEnd"

EndingReply(stop, n) ==
    /\ Answer(stop, n, FALSE)
    /\ pc' = "end" /\ UNCHANGED <<calls, results, hasMore>>

ErrorReply == ~aborted /\ \E n \in {0, MaxCalls} : EndingReply("error", n)
AbortedReply == aborted /\ \E n \in {0, MaxCalls} : EndingReply("aborted", n)

(***************************************************************************)
(* executeToolCallsParallel and executeToolCallsSequential.  A call is     *)
(* "new", then "ready" (prepared) or at once "done" (an immediate outcome, *)
(* which an abort during beforeToolCall also is), and "done" once its      *)
(* tool_execution_end is out.  Parallel calls run when all are prepared.   *)
(***************************************************************************)

\* The mode of the batch: only its results follow the message that has the calls.
Sequential == messages[Len(messages) - results].sequential

Started == Cardinality({i \in DOMAIN calls : calls[i] # "new"})
Ready == {i \in DOMAIN calls : calls[i] = "ready"}
Running == IF Sequential \/ Started = Len(calls) THEN Ready ELSE {}

Executing(others) ==
    /\ pc = "tools"
    /\ UNCHANGED <<skip, pending, drained, start, ended, queues, spoiled>>
    /\ UNCHANGED others

StartCall ==
    /\ Executing(<<pc, context, messages, results, hasMore>>) /\ Unmoved
    /\ Started < Len(calls)
    /\ Sequential => ~aborted /\ results = Started
    /\ \E state \in {"ready", "done"} : calls' = [calls EXCEPT ![Started + 1] = state]

\* executePreparedToolCall, finalizeExecutedToolCall, emitToolExecutionEnd.
FinishCall(i) ==
    /\ Executing(<<pc, context, messages, results, hasMore>>) /\ Unmoved
    /\ i \in Running
    /\ calls' = [calls EXCEPT ![i] = "done"]

\* A listener throws on the tool_execution_end of a parallel call: Promise.all
\* rejects, and the other calls run on.  A sequential batch has no others.
FinishCallThrows(i) ==
    /\ ListenerThrows
    /\ Executing(<<context, messages, results, hasMore>>)
    /\ i \in Running
    /\ calls' = [calls EXCEPT ![i] = "done"]
    /\ orphans' = orphans \cup {<<runs, j>> : j \in Running \ {i}}
    /\ pc' = "failing"
    /\ UNCHANGED <<sent, removed, runs, aborted, late>>

\* Faulty variant: the bound of the loop over the results is off by one.
EmitResultAgain ==
    /\ Executing(<<pc, context, calls, hasMore>>) /\ Unmoved
    /\ results <= Len(calls)
    /\ \A i \in DOMAIN calls : calls[i] = "done"
    /\ results' = results + 1
    /\ messages' = Append(messages, Result(results + 1))

\* Result messages are emitted in the order of the calls: of a parallel batch
\* when all calls are done, of a sequential one as each call is done.
EmitResult ==
    /\ Executing(<<pc, context, calls, hasMore>>) /\ Unmoved
    /\ results < Len(calls)
    /\ IF Sequential THEN calls[results + 1] = "done"
                     ELSE \A i \in DOMAIN calls : calls[i] = "done"
    /\ results' = results + 1
    /\ messages' = Append(messages, Result(results + 1))

\* Faulty variant: the batch stops after a call whether aborted or not.
StopBatchEarly ==
    /\ Executing(<<calls, results, messages>>) /\ Unmoved
    /\ results = Len(calls) \/ (Sequential /\ results = Started)
    /\ context' = context \o [i \in 1..results |-> Result(i)]
    /\ hasMore' \in BOOLEAN
    /\ pc' = "turnEnd"

\* Faulty variant: the results are emitted but not pushed to the context.
ForgetResults ==
    /\ Executing(<<calls, results, messages, context>>) /\ Unmoved
    /\ results = Len(calls) \/ (Sequential /\ aborted /\ results = Started)
    /\ hasMore' \in BOOLEAN
    /\ pc' = "turnEnd"

\* A sequential batch stops at the next call when the run is aborted.  The
\* batch terminates the loop when every result asks for it.
TakeResults ==
    /\ Executing(<<calls, results, messages>>) /\ Unmoved
    /\ results = Len(calls) \/ (Sequential /\ aborted /\ results = Started)
    /\ context' = context \o [i \in 1..results |-> Result(i)]
    /\ hasMore' \in BOOLEAN
    /\ pc' = "turnEnd"

OrphanFinishes ==
    /\ \E o \in orphans :
        /\ orphans' = orphans \ {o}
        /\ late' = (late \/ (pc # "idle" /\ (ended \/ o[1] # runs)))
    /\ UNCHANGED <<loop, queues, history, aborted, messages, runs>>

(***************************************************************************)
(* After the turn.                                                         *)
(***************************************************************************)
Quiet(p) ==
    /\ pc = p
    /\ UNCHANGED <<skip, context, start, calls, results, hasMore, ended, messages,
                   spoiled>>
    /\ Unmoved

TurnEnd ==
    /\ Quiet("turnEnd") /\ UNCHANGED <<pending, drained, queues>>
    /\ pc' = IF aborted THEN "end" ELSE "stopWait"

\* shouldStopAfterTurn, then shouldStopBeforeTurn.
StopResumes ==
    /\ Quiet("stopWait") /\ UNCHANGED <<pending, drained, queues>>
    /\ pc' \in {"end", "steering"}

\* Faulty variant: the queue is drained even though the run is aborted.
PollAlways ==
    /\ Quiet("steering") /\ UNCHANGED <<pending, followUp>>
    /\ pc' = "steeringWait"
    /\ drained' = Drained(steering) /\ steering' = Remaining(steering)

PollSteering ==
    /\ Quiet("steering") /\ UNCHANGED <<pending, followUp>>
    /\ IF aborted
       THEN pc' = "steered" /\ UNCHANGED <<drained, steering>>
       ELSE /\ pc' = "steeringWait"
            /\ drained' = Drained(steering) /\ steering' = Remaining(steering)

PollFollowUp ==
    /\ Quiet("followUp") /\ UNCHANGED <<pending, steering>>
    /\ IF aborted
       THEN pc' = "followed" /\ UNCHANGED <<drained, followUp>>
       ELSE /\ pc' = "followUpWait"
            /\ drained' = Drained(followUp) /\ followUp' = Remaining(followUp)

\* What a rejected poll does: the initial one fails the run, the others
\* (settlePostTurn) end it.  The drained messages are gone either way.
PollRejected ==
    /\ pc \in Waits /\ aborted
    /\ Quiet(pc) /\ UNCHANGED <<pending, queues>>
    /\ drained' = << >>
    /\ pc' = IF pc = "initialWait" THEN "failing" ELSE "end"

PollResolved ==
    /\ pc \in Waits
    /\ Quiet(pc) /\ UNCHANGED queues
    /\ pending' = drained /\ drained' = << >>
    /\ CASE pc = "initialWait" -> BeginTurn
         [] pc = "steeringWait" -> pc' = "steered"
         [] pc = "followUpWait" -> pc' = "followed"

\* Drained steering owns the turn boundary; a stop counts only without it.
Steered ==
    /\ Quiet("steered") /\ UNCHANGED <<pending, drained, queues>>
    /\ \/ pending = << >> /\ pc' = "end"
       \/ (hasMore \/ pending # << >>) /\ BeginTurn
       \/ ~hasMore /\ pending = << >> /\ pc' = "followUp"

Followed ==
    /\ Quiet("followed") /\ UNCHANGED <<pending, drained, queues>>
    /\ IF pending # << >> THEN BeginTurn
       ELSE pc' \in {"end", IF aborted THEN "end" ELSE "contWait"}

\* getContinuationMessages: nothing, an abort, or messages for another turn.
NoContinuation ==
    /\ Quiet("contWait") /\ UNCHANGED <<pending, drained, queues>>
    /\ pc' = "end"

Continuation(b) ==
    /\ pc = "contWait" /\ ~aborted
    /\ Send("continuation", b)
    /\ pending' = b /\ BeginTurn
    /\ UNCHANGED <<skip, drained, context, start, calls, results, hasMore, ended,
                   queues, removed, spoiled, messages, orphans, runs, aborted, late>>

(***************************************************************************)
(* The end of a run.                                                       *)
(***************************************************************************)
AgentEnd ==
    /\ pc = "end"
    /\ pc' = "settling" /\ ended' = TRUE
    /\ UNCHANGED <<skip, pending, drained, context, start, calls, results, hasMore,
                   queues, history, aborted, messages, orphans, runs, late>>

\* The provider, a callback or a listener throws.
FailPoints == {"streaming", "stopWait", "contWait"} \cup
              (IF ListenerThrows
               THEN {"prompts", "inject", "turnEnd", "end", "settling"} ELSE {})

Throws ==
    /\ pc \in FailPoints \/ (ListenerThrows /\ pc = "tools" /\ Running = {})
    /\ pc' = "failing" /\ Spoil
    /\ UNCHANGED <<skip, pending, drained, context, start, calls, results, hasMore,
                   ended, queues, sent, removed, messages, orphans, runs, aborted, late>>

\* handleRunFailure: a failure message and agent_end; its errors are swallowed.
HandleRunFailure ==
    /\ pc = "failing"
    /\ messages' = Append(messages, Assistant(IF aborted THEN "aborted" ELSE "error", 0, FALSE))
    /\ ended' = TRUE /\ pc' = "finish"
    /\ UNCHANGED <<skip, pending, drained, context, start, calls, results, hasMore,
                   queues, history, orphans, runs, aborted, late>>

FinishRun ==
    /\ pc \in {"settling", "finish"}
    /\ pc' = "idle" /\ aborted' = FALSE
    /\ pending' = << >> /\ drained' = << >> /\ context' = << >>
    /\ calls' = << >> /\ results' = 0 /\ hasMore' = TRUE /\ skip' = FALSE
    /\ start' = 0 /\ ended' = FALSE
    /\ UNCHANGED <<queues, history, messages, orphans, runs, late>>

(***************************************************************************)
(* The specification.                                                      *)
(***************************************************************************)
Caller ==
    \/ \E b \in Batches : Prompt(b) \/ Steer(b) \/ FollowUp(b)
    \/ Continue \/ ClearAllQueues \/ Abort
    \/ \E m \in Msgs : RemoveQueuedMessages(m)

\* Steps the loop takes on its own.
Own ==
    \/ EmitPrompt \/ InitialPoll \/ Inject \/ Request \/ AbortedReply
    \/ StartCall \/ EmitResult \/ TakeResults \/ TurnEnd
    \/ PollSteering \/ PollFollowUp \/ PollRejected \/ PollResolved
    \/ Steered \/ Followed \/ AgentEnd \/ HandleRunFailure \/ FinishRun

\* Faulty variant: a tool's execution is not raced with the abort signal.
CallbacksOnly == StopResumes \/ NoContinuation

\* Steps that wait for a tool or a callback.
Awaited ==
    \/ StopResumes \/ NoContinuation
    \/ \E i \in DOMAIN calls : FinishCall(i)

External ==
    \/ \E n \in 0..MaxCalls : Reply(n)
    \/ ErrorReply \/ Throws \/ OrphanFinishes
    \/ \E b \in Batches : Continuation(b)
    \/ \E i \in DOMAIN calls : FinishCallThrows(i)

Next == Caller \/ Own \/ Awaited \/ External

Spec == Init /\ [][Next]_vars

\* Listeners return, so the loop's own steps are taken; what it awaits from
\* others it need not wait for once it is aborted (raceWithAbort).
FairSpec == Spec /\ WF_vars(Own) /\ WF_vars(aborted /\ Awaited)

(***************************************************************************)
(* Properties.                                                             *)
(***************************************************************************)

\* Every variable holds what the code can hold there.
TypeOK ==
    /\ pc \in Points
    /\ {aborted, skip, hasMore, ended, late} \subseteq BOOLEAN
    /\ \A q \in {steering, followUp} : \A k \in DOMAIN q : q[k] \in Batches
    /\ Range(pending) \cup Range(drained) \cup removed \cup spoiled \subseteq Msgs
    /\ start \in 0..Len(messages) /\ runs \in 0..MaxRuns
    /\ \A i \in DOMAIN calls : calls[i] \in {"new", "ready", "done"}
    /\ results <= Len(calls)
    /\ orphans \subseteq (1..MaxRuns) \X (1..MaxCalls)

\* A message handed to prompt, steer or followUp is in a queue, in the loop's
\* hands or in the transcript, unless the caller removed it or the loop held it
\* when it was aborted or threw.  In particular a stop between two turns, and an
\* abort before a poll, leave queued messages queued.
NothingLost ==
    Accepted \ (removed \cup spoiled) \subseteq
        Queued(steering) \cup Queued(followUp) \cup Range(pending)
        \cup Range(drained) \cup InTranscript

Position(m) == CHOOSE k \in DOMAIN messages : messages[k] = User(m)

\* Messages enter the transcript once; those of each queue in the order in which
\* they were enqueued; and those of a batch in its order, one right after the other.
DeliveredInOrder ==
    /\ \A j, k \in DOMAIN messages :
        j # k /\ messages[j].role \in {"user", "custom"} => messages[j] # messages[k]
    /\ \A op \in {"steer", "followUp"} : \A i, j \in DOMAIN sent[op] :
        i < j => \A x \in Range(sent[op][i]) \cap InTranscript,
                    y \in Range(sent[op][j]) \cap InTranscript : Position(x) < Position(y)
    /\ \A b \in Batches : \A j, k \in DOMAIN b :
        {b[j], b[k]} \subseteq InTranscript => Position(b[j]) + k = Position(b[k]) + j

\* When the model is called, it is sent exactly the transcript, and every tool
\* call this run's earlier answers made has its result there, right behind the
\* answer and in the order of the calls.
RequestsComplete ==
    pc = "streaming" /\ ~aborted =>
        /\ context = messages
        /\ \A k \in (start + 1)..Len(messages) :
            messages[k].role = "assistant" =>
                /\ k + messages[k].calls < Len(messages) + 1
                /\ \A i \in 1..messages[k].calls : messages[k + i] = Result(i)

\* An aborted run ends, whatever the provider, the tools and the callbacks do.
AbortEndsRun == aborted ~> pc = "idle"

\* What a listener that throws breaks (README.md, experiments): `agent_end` is the
\* last event of its run, no message of the run is added to the transcript after
\* it, and none of its tool calls reports any more, not even into a later run.
EndIsFinal == [][(ended => messages' = messages) /\ ~late']_vars

(***************************************************************************)
(* What these rest on, as an inductive invariant.                          *)
(***************************************************************************)
Operations == {"prompt", "steer", "followUp", "continuation"}
Messages ==
    [role : {"user", "custom"}, msg : Msgs]
    \cup [role : {"assistant"}, stop : {"stop", "error", "aborted"}, calls : Nat,
          sequential : BOOLEAN]
    \cup [role : {"toolResult"}, call : Nat]

LoopTypes ==
    /\ steering \in Seq(Batches) /\ followUp \in Seq(Batches)
    /\ pending \in Seq(Msgs) /\ drained \in Seq(Msgs)
    /\ messages \in Seq(Messages) /\ context \in Seq(Messages)
    /\ calls \in Seq({"new", "ready", "done"}) /\ Len(calls) <= MaxCalls
    /\ results \in Nat /\ sent \in [Operations -> Seq(Batches)]
    /\ (pc # "idle" => runs # 0) /\ (pc = "idle" => ~aborted)

\* Where the loop can hold messages that are in no queue and not yet in the
\* transcript; those it will not deliver were spoiled.
InHand ==
    /\ pc \notin {"prompts", "inject", "steered", "followed", "failing", "finish"}
         => pending = << >>
    /\ pc \notin Waits => drained = << >>
    /\ aborted \/ pc \in {"failing", "finish"}
         => Range(pending) \cup Range(drained) \subseteq spoiled

\* The places of a run where its context is the transcript.
Turning == {"inject", "streaming", "turnEnd", "stopWait", "steering", "steered",
            "followUp", "followed", "contWait"} \cup Waits

\* The context runs ahead of the transcript by the prompts not yet emitted, and
\* behind it by the results of the tool calls under way.
SameContext ==
    /\ pc = "prompts" => context = messages \o Users(pending)
    /\ pc \in Turning => context = messages
    /\ pc = "tools" => messages = context \o [i \in 1..results |-> Result(i)]

\* The answers at the places m + 1 to n of ms have their results there.
Answered(ms, m, n) ==
    \A k \in (m + 1)..n :
        ms[k].role = "assistant" =>
            /\ k + ms[k].calls <= n
            /\ \A i \in 1..ms[k].calls : ms[k + i] = Result(i)

\* Only an aborted run can be past a turn whose calls lack results.
CallsAnswered ==
    /\ pc \in Turning \cup {"prompts"} /\ ~aborted => Answered(messages, start, Len(messages))
    /\ pc = "tools" =>
        LET n == Len(context) IN
        /\ n > start /\ context[n].role = "assistant" /\ context[n].calls = Len(calls)
        /\ Answered(context, start, n - 1)

LoopInv == TypeOK /\ LoopTypes /\ InHand /\ SameContext /\ CallsAnswered /\ NothingLost

\* The transcript and, behind it, what the loop will add to it, in that order;
\* after a failure that is nothing.
Line == messages \o Users(IF pc = "finish" THEN << >> ELSE pending \o drained)

At(l, m) == {p \in DOMAIN l : l[p] = User(m)}
Before(s, b, c) == \E i, j \in DOMAIN s : i < j /\ s[i] = b /\ s[j] = c

\* The caller's messages in the line l are among A.
Known(l, A) ==
    \A p \in DOMAIN l : l[p].role \in {"user", "custom"} => \E m \in A : l[p] = User(m)

\* The messages of a batch are as far from each other in the line as in the batch.
Contiguous(l) ==
    \A b \in Batches : \A j, k \in DOMAIN b :
        \A p \in At(l, b[j]), q \in At(l, b[k]) : p + k = q + j

\* Of two batches of s, the later one is in the line l behind the earlier one,
\* and only when that one has left the queue q.
Follows(l, s, q) ==
    \A b, c \in Batches : Before(s, b, c) =>
        \A n \in Range(c) : \A k \in At(l, n) :
            b \notin Range(q) /\ \A m \in Range(b) : \A j \in At(l, m) : j < k

\* The queue q holds batches of s, in their order.
QueueOrder(q, s) ==
    /\ Range(q) \subseteq Range(s)
    /\ \A k, n \in DOMAIN q : k < n => Before(s, q[k], q[n])

\* A batch is given to the agent once.
SentOnce ==
    \A op, oq \in Operations : \A i \in DOMAIN sent[op], j \in DOMAIN sent[oq] :
        sent[op][i] = sent[oq][j] => op = oq /\ i = j

OrderInv ==
    /\ SentOnce
    /\ QueueOrder(steering, sent["steer"]) /\ QueueOrder(followUp, sent["followUp"])
    /\ Known(Line, Accepted \ (Queued(steering) \cup Queued(followUp)))
    /\ Contiguous(Line)
    /\ Follows(Line, sent["steer"], steering) /\ Follows(Line, sent["followUp"], followUp)
=============================================================================
