---------------------------- MODULE FlashLoopService ----------------------------
(***************************************************************************)
(* The FlashLoop MLX completion service: experimental/flashloop_mlx/       *)
(* service.py (the asyncio side) and runtime.py (the worker thread).       *)
(*                                                                         *)
(* One asyncio event loop runs the request handlers, one generate() task   *)
(* per admitted request and the lifespan; a step of any of them is atomic  *)
(* up to its next await.  A ThreadPoolExecutor with one thread runs        *)
(* Runtime.run truly concurrently with the loop.  Both sides share the     *)
(* gate (an asyncio.Lock), ONE cancellation event for every request, and   *)
(* the gauges that /metrics and /slots report.                             *)
(***************************************************************************)
EXTENDS Naturals

CONSTANTS
    Requests,       \* completion requests (each arrives at most once)
    PromptLengths,  \* token counts a prompt may have
    OutputLimits,   \* values of max_tokens a request may carry
    MaxContext      \* Runtime.max_context

ASSUME PromptAssumption  == PromptLengths \subseteq Nat \ {0}
ASSUME OutputAssumption  == OutputLimits \subseteq Nat \ {0}
ASSUME ContextAssumption == MaxContext \in Nat

Outcomes == {"success", "rejected_context", "cancelled", "error"}

VARIABLES
    server,         \* uvicorn: serving, draining, stopping, closing, stopped
    disconnected,   \* requests whose client has closed the connection
    body,           \* prompt length and max_tokens of each request
    handler,        \* the completion() coroutine of each request
    reply,          \* the HTTP status each request was answered with
    task,           \* the generate() task of each request
    job,            \* Runtime.run for each request, on the executor thread
    result,         \* how Runtime.run ended, as its future reports it
    outcome,        \* the label generate() counted the attempt under
    gate,           \* asyncio.Lock: locked?
    cancellation,   \* threading.Event: set?
    active,         \* gauge requests_active
    cache,          \* gauge cache_bytes: nonzero?
    context,        \* gauge context_tokens
    promptTokens,   \* Runtime.prompt_tokens, shown by /slots
    outputTokens,   \* Runtime.output_tokens, shown by /slots
    position,       \* OuroEngine.position of the run in progress
    emitted,        \* len(generated) of the run in progress
    loaded          \* Runtime.base is not None

loopVars    == <<handler, reply, task, outcome, gate>>
serverVars  == <<server, disconnected, body>>
workerVars  == <<job, result, position, emitted, loaded>>
gaugeVars   == <<active, cache, context, promptTokens, outputTokens>>
vars == <<loopVars, serverVars, workerVars, gaugeVars, cancellation>>

HandlerStates == {"absent", "received", "waiting", "polling", "ended"}
JobStates == {"none", "queued", "tokenized", "loading", "loaded", "prefill",
              "select", "decode", "returned"}

TypeOK ==
    /\ server \in {"serving", "draining", "stopping", "closing", "stopped"}
    /\ disconnected \subseteq Requests
    /\ body \in [Requests -> [prompt : PromptLengths, limit : OutputLimits]]
    /\ handler \in [Requests -> HandlerStates]
    /\ reply \in [Requests -> {"none", "200", "400", "499", "500", "503", "dropped"}]
    /\ task \in [Requests -> {"none", "created", "awaiting", "done"}]
    /\ job \in [Requests -> JobStates]
    /\ result \in [Requests -> Outcomes \cup {"none"}]
    /\ outcome \in [Requests -> Outcomes \cup {"none"}]
    /\ gate \in BOOLEAN
    /\ cancellation \in BOOLEAN
    /\ active \in {0, 1}
    /\ cache \in BOOLEAN
    /\ context \in Nat
    /\ promptTokens \in Nat
    /\ outputTokens \in Nat
    /\ position \in Nat
    /\ emitted \in Nat
    /\ loaded \in BOOLEAN

Init ==
    /\ server = "serving"
    /\ disconnected = {}
    /\ body \in [Requests -> [prompt : PromptLengths, limit : OutputLimits]]
    /\ handler = [r \in Requests |-> "absent"]
    /\ reply = [r \in Requests |-> "none"]
    /\ task = [r \in Requests |-> "none"]
    /\ job = [r \in Requests |-> "none"]
    /\ result = [r \in Requests |-> "none"]
    /\ outcome = [r \in Requests |-> "none"]
    /\ gate = FALSE
    /\ cancellation = FALSE
    /\ active = 0
    /\ cache = FALSE
    /\ context = 0
    /\ promptTokens = 0
    /\ outputTokens = 0
    /\ position = 0
    /\ emitted = 0
    /\ loaded = FALSE

\* The tasks in `pending`: created by a handler and not done yet.
Pending == {r \in Requests : task[r] \in {"created", "awaiting"}}

\* Runs of Runtime.run that the executor holds, queued or on its thread.
OnThread == {r \in Requests : job[r] \notin {"none", "queued", "returned"}}
Submitted == {r \in Requests : job[r] \notin {"none", "returned"}}

(***************************************************************************)
(* Clients and the server (uvicorn).                                       *)
(***************************************************************************)

\* The request has arrived; its handler runs later.
Receive(r) ==
    /\ server = "serving"
    /\ handler[r] = "absent"
    /\ handler' = [handler EXCEPT ![r] = "received"]
    /\ UNCHANGED <<serverVars, workerVars, gaugeVars, cancellation,
                   reply, task, outcome, gate>>

Disconnect(r) ==
    /\ handler[r] \in {"received", "waiting", "polling"}
    /\ r \notin disconnected
    /\ disconnected' = disconnected \cup {r}
    /\ UNCHANGED <<loopVars, workerVars, gaugeVars, cancellation, server, body>>

\* A signal: uvicorn accepts nothing more and waits for the open requests.
Drain ==
    /\ server = "serving"
    /\ server' = "draining"
    /\ UNCHANGED <<loopVars, workerVars, gaugeVars, cancellation, disconnected, body>>

\* timeout_graceful_shutdown passed, or every handler ended: the handlers that
\* are left are cancelled (CancelHandler) and the lifespan is told to end.
GraceOver ==
    /\ server = "draining"
    /\ server' = "stopping"
    /\ UNCHANGED <<loopVars, workerVars, gaugeVars, cancellation, disconnected, body>>

\* lifespan(), after its yield: cancellation.set(), then gather(*pending).
LifespanShutdown ==
    /\ server = "stopping"
    /\ server' = "closing"
    /\ cancellation' = TRUE
    /\ UNCHANGED <<loopVars, workerVars, gaugeVars, disconnected, body>>

\* gather() has returned and the executor's exit has joined its thread.
LifespanEnd ==
    /\ server = "closing"
    /\ Pending = {}
    /\ Submitted = {}
    /\ server' = "stopped"
    /\ UNCHANGED <<loopVars, workerVars, gaugeVars, cancellation, disconnected, body>>

(***************************************************************************)
(* completion(): the handler coroutine of a request, on the event loop.    *)
(* uvicorn has cancelled every handler that is left once it is stopping.   *)
(***************************************************************************)
HandlersRun == server \in {"serving", "draining"}

RejectModel(r) ==
    /\ HandlersRun
    /\ handler[r] = "received"
    /\ handler' = [handler EXCEPT ![r] = "ended"]
    /\ reply' = [reply EXCEPT ![r] = "400"]
    /\ UNCHANGED <<serverVars, workerVars, gaugeVars, cancellation, task, outcome, gate>>

SlotFreeOnceAbandoned == ~gate \/ Pending \subseteq disconnected   \* mutant

\* not gate.locked()
SlotFree == ~gate

RejectBusyAfterClear(r) ==   \* mutant: clear() moved before the test of the gate
    /\ HandlersRun
    /\ handler[r] = "received"
    /\ ~SlotFree
    /\ cancellation' = FALSE
    /\ handler' = [handler EXCEPT ![r] = "ended"]
    /\ reply' = [reply EXCEPT ![r] = "503"]
    /\ UNCHANGED <<serverVars, workerVars, gaugeVars, task, outcome, gate>>

RejectBusy(r) ==
    /\ HandlersRun
    /\ handler[r] = "received"
    /\ ~SlotFree
    /\ handler' = [handler EXCEPT ![r] = "ended"]
    /\ reply' = [reply EXCEPT ![r] = "503"]
    /\ UNCHANGED <<serverVars, workerVars, gaugeVars, cancellation, task, outcome, gate>>

\* acquire() of an unlocked asyncio.Lock does not yield, so the test, the lock,
\* clear(), the gauge and create_task() are one step; so is entering wait().
Admit(r) ==
    /\ HandlersRun
    /\ handler[r] = "received"
    /\ SlotFree
    /\ gate' = TRUE
    /\ cancellation' = FALSE
    /\ active' = 1
    /\ task' = [task EXCEPT ![r] = "created"]
    /\ handler' = [handler EXCEPT ![r] = "waiting"]
    /\ UNCHANGED <<serverVars, workerVars, cache, context, promptTokens,
                   outputTokens, reply, outcome>>

\* asyncio.wait({task}, timeout=.1) returned: the task is done or 0.1 s passed.
\* is_disconnected() then looks at the connection, perhaps after other steps.
WakeUp(r) ==
    /\ HandlersRun
    /\ handler[r] = "waiting"
    /\ handler' = [handler EXCEPT ![r] = "polling"]
    /\ UNCHANGED <<serverVars, workerVars, gaugeVars, cancellation,
                   reply, task, outcome, gate>>

PollDisconnectedFreesSlot(r) ==   \* mutant: the handler frees the slot itself
    /\ HandlersRun
    /\ handler[r] = "polling"
    /\ r \in disconnected
    /\ cancellation' = TRUE
    /\ gate' = FALSE
    /\ active' = active - 1
    /\ handler' = [handler EXCEPT ![r] = "ended"]
    /\ reply' = [reply EXCEPT ![r] = "499"]
    /\ UNCHANGED <<serverVars, workerVars, cache, context, promptTokens,
                   outputTokens, task, outcome>>

PollDisconnected(r) ==
    /\ HandlersRun
    /\ handler[r] = "polling"
    /\ r \in disconnected
    /\ cancellation' = TRUE
    /\ handler' = [handler EXCEPT ![r] = "ended"]
    /\ reply' = [reply EXCEPT ![r] = "499"]
    /\ UNCHANGED <<serverVars, workerVars, gaugeVars, task, outcome, gate>>

PollAgain(r) ==
    /\ HandlersRun
    /\ handler[r] = "polling"
    /\ r \notin disconnected
    /\ task[r] # "done"
    /\ handler' = [handler EXCEPT ![r] = "waiting"]
    /\ UNCHANGED <<serverVars, workerVars, gaugeVars, cancellation,
                   reply, task, outcome, gate>>

StatusOfBare(o) ==   \* mutant: GenerationCancelled has no except clause
    CASE o = "success"          -> "200"
      [] o = "rejected_context" -> "400"
      [] OTHER                  -> "500"

\* The status task.result() leads to: its value, or the HTTPException raised.
StatusOf(o) ==
    CASE o = "success"          -> "200"
      [] o = "rejected_context" -> "400"
      [] o = "cancelled"        -> "499"
      [] OTHER                  -> "500"

Answer(r) ==
    /\ HandlersRun
    /\ handler[r] = "polling"
    /\ r \notin disconnected
    /\ task[r] = "done"
    /\ handler' = [handler EXCEPT ![r] = "ended"]
    /\ reply' = [reply EXCEPT ![r] = StatusOf(outcome[r])]
    /\ UNCHANGED <<serverVars, workerVars, gaugeVars, cancellation, task, outcome, gate>>

\* CancelledError reaches a handler: outside the try in "received", inside it
\* (cancellation.set(), raise) in wait() or is_disconnected().
CancelHandler(r) ==
    /\ ~HandlersRun
    /\ handler[r] \in {"received", "waiting", "polling"}
    /\ cancellation' = (cancellation \/ handler[r] # "received")
    /\ handler' = [handler EXCEPT ![r] = "ended"]
    /\ reply' = [reply EXCEPT ![r] = "dropped"]
    /\ UNCHANGED <<serverVars, workerVars, gaugeVars, task, outcome, gate>>

(***************************************************************************)
(* generate(): the task of an admitted request, on the event loop.         *)
(***************************************************************************)

\* The task's first step: run_in_executor queues Runtime.run.
SubmitJob(r) ==
    /\ task[r] = "created"
    /\ task' = [task EXCEPT ![r] = "awaiting"]
    /\ job' = [job EXCEPT ![r] = "queued"]
    /\ UNCHANGED <<serverVars, gaugeVars, cancellation, handler, reply, outcome,
                   gate, result, position, emitted, loaded>>

ResolvesUnlessError(r) ==   \* mutant: an unexpected exception never surfaces
    job[r] = "returned" /\ result[r] # "error"

\* run_in_executor's future is done.
Resolves(r) == job[r] = "returned"

ClearGaugesButContext ==   \* mutant: one gauge is not reset
    /\ active' = 0
    /\ cache' = FALSE
    /\ promptTokens' = 0
    /\ outputTokens' = 0
    /\ UNCHANGED context

ClearGauges ==
    /\ active' = 0
    /\ cache' = FALSE
    /\ context' = 0
    /\ promptTokens' = 0
    /\ outputTokens' = 0

\* The future resolved: the except clauses name the outcome, the finally block
\* counts it, clears the gauges and releases the gate, without an await.
FinishTask(r) ==
    /\ task[r] = "awaiting"
    /\ Resolves(r)
    /\ task' = [task EXCEPT ![r] = "done"]
    /\ outcome' = [outcome EXCEPT ![r] = result[r]]
    /\ ClearGauges
    /\ gate' = FALSE
    /\ UNCHANGED <<serverVars, workerVars, cancellation, handler, reply>>

(***************************************************************************)
(* Runtime.run on the executor thread.  A step is what lies between two    *)
(* looks at the cancellation event or between two gauge updates.           *)
(***************************************************************************)
ToStage(r, stage) == job' = [job EXCEPT ![r] = stage]

\* run() returns or raises; its frame (position, generated) is gone.
Return(r, how) ==
    /\ ToStage(r, "returned")
    /\ result' = [result EXCEPT ![r] = how]
    /\ position' = 0
    /\ emitted' = 0

KeepLoop == UNCHANGED <<serverVars, loopVars, cancellation, active>>

FitsPromptOnly(r) == body[r].prompt <= MaxContext   \* mutant: output not counted

\* The capacity check: the prompt and everything that may be generated.
Fits(r) == body[r].prompt + body[r].limit <= MaxContext

\* The single thread takes the queued run, tokenizes, and checks the capacity.
Tokenize(r) ==
    /\ job[r] = "queued"
    /\ OnThread = {}
    /\ \/ ~Fits(r) /\ Return(r, "rejected_context")
       \/ Fits(r) /\ ToStage(r, "tokenized") /\ UNCHANGED <<result, position, emitted>>
    /\ UNCHANGED <<loaded, cache, context, promptTokens, outputTokens>>
    /\ KeepLoop

\* cancel.is_set(), looked at before the load, before prefill, before a token.
StopIfCancelled(r) ==
    /\ job[r] \in {"tokenized", "loaded", "select"}
    /\ cancellation
    /\ Return(r, "cancelled")
    /\ UNCHANGED <<loaded, cache, context, promptTokens, outputTokens>>
    /\ KeepLoop

PassCheck(r) ==
    /\ ~cancellation
    /\ \/ job[r] = "tokenized" /\ ~loaded /\ ToStage(r, "loading")
       \/ job[r] = "tokenized" /\ loaded /\ ToStage(r, "loaded")
       \/ job[r] = "loaded" /\ ToStage(r, "prefill")
    /\ UNCHANGED <<result, position, emitted, loaded, cache, context, promptTokens,
                   outputTokens>>
    /\ KeepLoop

Load(r) ==
    /\ job[r] = "loading"
    /\ loaded' = TRUE
    /\ ToStage(r, "loaded")
    /\ UNCHANGED <<result, position, emitted, cache, context, promptTokens, outputTokens>>
    /\ KeepLoop

\* engine.prefill, prompt_tokens and the first snapshot().
Prefill(r) ==
    /\ job[r] = "prefill"
    /\ position' = body[r].prompt
    /\ promptTokens' = body[r].prompt
    /\ cache' = TRUE
    /\ context' = position'
    /\ ToStage(r, "select")
    /\ UNCHANGED <<result, emitted, loaded, outputTokens>>
    /\ KeepLoop

\* One turn of the token loop: the token is selected and counted; an end token
\* or the last step ends the run, otherwise it goes on to decode.
SelectToken(r) ==
    /\ job[r] = "select"
    /\ ~cancellation
    /\ outputTokens' = emitted + 1
    /\ \/ Return(r, "success")
       \/ /\ emitted + 1 < body[r].limit
          /\ emitted' = emitted + 1
          /\ ToStage(r, "decode")
          /\ UNCHANGED <<result, position>>
    /\ UNCHANGED <<loaded, cache, context, promptTokens>>
    /\ KeepLoop

\* engine.decode and snapshot().
Decode(r) ==
    /\ job[r] = "decode"
    /\ position' = position + 1
    /\ cache' = TRUE
    /\ context' = position'
    /\ ToStage(r, "select")
    /\ UNCHANGED <<result, emitted, loaded, promptTokens, outputTokens>>
    /\ KeepLoop

\* Any other exception: tokenizer, weights, the engine or MLX.
Raise(r) ==
    /\ r \in OnThread
    /\ Return(r, "error")
    /\ UNCHANGED <<loaded, cache, context, promptTokens, outputTokens>>
    /\ KeepLoop

Handle(r) == RejectModel(r) \/ RejectBusy(r) \/ Admit(r)
Poll(r) == WakeUp(r) \/ PollDisconnected(r) \/ PollAgain(r) \/ Answer(r)
Generate(r) == SubmitJob(r) \/ FinishTask(r)
Work(r) == \/ Tokenize(r) \/ StopIfCancelled(r) \/ PassCheck(r) \/ Load(r)
           \/ Prefill(r) \/ SelectToken(r) \/ Decode(r) \/ Raise(r)

Next ==
    \/ Drain \/ GraceOver \/ LifespanShutdown \/ LifespanEnd
    \/ \E r \in Requests :
         \/ Receive(r) \/ Disconnect(r)
         \/ Handle(r) \/ Poll(r) \/ CancelHandler(r)
         \/ Generate(r) \/ Work(r)

Spec == Init /\ [][Next]_vars

\* The event loop runs what is ready, the thread runs what is queued, and a
\* shutdown that has begun goes on.  Nobody has to send, disconnect or signal.
Fairness ==
    /\ WF_vars(GraceOver) /\ WF_vars(LifespanShutdown) /\ WF_vars(LifespanEnd)
    /\ \A r \in Requests :
         /\ WF_vars(Handle(r)) /\ WF_vars(Poll(r)) /\ WF_vars(CancelHandler(r))
         /\ WF_vars(Generate(r)) /\ WF_vars(Work(r))

FairSpec == Spec /\ Fairness

(***************************************************************************)
(* Properties.                                                             *)
(***************************************************************************)

\* "The slot remains occupied until the worker exits": a run the executor holds
\* belongs to the one task that owns the locked gate, and the gauge says so.
SlotHeldByWorker ==
    /\ \A r, s \in Pending : r = s
    /\ gate <=> Pending # {}
    /\ gate <=> active = 1
    /\ \A r \in Requests : job[r] # "none" => task[r] \in {"awaiting", "done"}
    /\ \A r \in Submitted : task[r] = "awaiting"

\* cache_bytes and context_tokens are "zero when idle", and /slots shows no
\* tokens for an idle slot, although the worker thread writes all of them.
IdleGaugesZero ==
    ~gate => /\ active = 0 /\ ~cache /\ context = 0
             /\ promptTokens = 0 /\ outputTokens = 0

\* A cancellation that a handler or the lifespan asked for is not taken back
\* while the attempt it was meant for is still going on.
CancellationKept ==
    \A r \in Pending :
        handler[r] = "ended" \/ server \in {"closing", "stopped"} => cancellation

\* What is cached and every token that may still be generated fit the context
\* capacity, at every moment of a run, and the context gauge reports no more.
ContextWithinCapacity ==
    /\ context <= MaxContext
    /\ \A r \in OnThread : position + body[r].limit <= MaxContext + emitted

\* Every answer agrees with the outcome that was counted for its attempt.
AnswersAgree ==
    \A r \in Requests :
        /\ reply[r] = "200" => outcome[r] = "success" /\ r \notin disconnected
        /\ reply[r] = "500" => outcome[r] = "error"
        /\ reply[r] = "503" => task[r] = "none"
        /\ outcome[r] = "success" /\ handler[r] = "ended" =>
             reply[r] \in {"200", "499", "dropped"}

\* The abstract service: the slot is what the pending tasks occupy.
Status(r) ==
    IF r \in Pending THEN "admitted"
    ELSE IF task[r] = "done" THEN outcome[r]
    ELSE IF reply[r] = "400" THEN "invalid"
    ELSE IF reply[r] = "503" THEN "busy"
    ELSE "new"

Abstract == INSTANCE SingleSlot WITH slot <- Pending,
                                     status <- [r \in Requests |-> Status(r)]

\* The service implements the one-slot service, its progress included: an
\* admitted attempt finishes, once, and frees the slot in the same step.
ImplementsSingleSlot == Abstract!Spec

\* Every request that reached the application is answered or dropped.
EveryRequestEnds ==
    \A r \in Requests : handler[r] = "received" ~> handler[r] = "ended"

\* Shutdown is not held up: gather(*pending) and the executor's exit return.
ShutdownCompletes == server = "draining" ~> server = "stopped"

\* Nothing hangs on the worker thread: requests end, and so does a shutdown.
EverythingEnds == EveryRequestEnds /\ ShutdownCompletes

\* A run is cancelled only when its own client went away or the server stops.
\* (The code breaks this: the event is shared and a late handler may set it.)
CancelledOnlyByOwner ==
    \A r \in Requests :
        result[r] = "cancelled" => r \in disconnected \/ ~HandlersRun
=============================================================================
