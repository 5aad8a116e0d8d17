----------------------------- MODULE TaxdeskBroker -----------------------------
(***************************************************************************)
(* The Tax Desk broker (lm_launcher/taxdesk_broker.py) and the shim that    *)
(* forwards the agent's calls to it (support/pi/sandbox/taxdesk-docs.ts).   *)
(*                                                                         *)
(* Every call has a shim process, a handler thread and at most one process *)
(* of the CLI.  The threads share the semaphore and the log.  Time is      *)
(* discrete: a tick may pass only when no thread is about to take a step   *)
(* that does not wait, and never passes a deadline.                        *)
(***************************************************************************)
EXTENDS Integers, Sequences, FiniteSets

CONSTANTS
    Calls,          \* calls the agent makes
    MaxCalls,       \* MAX_CONCURRENT_CALLS
    CallTimeout,    \* CALL_TIMEOUT_S
    ShimTimeout,    \* REQUEST_TIMEOUT_MS, in the same unit
    CliExits        \* exit codes of the CLI

ASSUME BrokerAssumption ==
    /\ IsFiniteSet(Calls)
    /\ MaxCalls \in Nat \ {0} /\ CallTimeout \in Nat \ {0}
    /\ ShimTimeout \in Nat /\ ShimTimeout > CallTimeout
    /\ CliExits \subseteq 0 .. 6

\* What is wrong with a request, in the order of the tests.
Requests == {"too_large", "disallowed", "unexpected_stdin", "large_stdin", "valid"}

VARIABLES
    server,     \* the broker's process: "up", "closed" (stop called) or "dead"
    request,    \* per call: what it asks for
    shim,       \* per call: Idle, Sent or what the shim reports
    thread,     \* per call: the step its handler is at
    answer,     \* per call: the reply its handler has formed
    binary,     \* per call: the CLI's process, its exit code and whether it wrote too much
    slots,      \* Broker._slots
    log,        \* broker.log
    clock,      \* per call: time in the wait the handler is in
    age         \* per call: time since the request was sent

vars == <<server, request, shim, thread, answer, binary, slots, log, clock, age>>

Reply(status, exit, error) == [status |-> status, exit |-> exit, error |-> error]
NoReply     == Reply(0, 0, "")
Idle        == Reply(0, 0, "not called")
Sent        == Reply(0, 0, "waiting")
Unavailable == Reply(0, 6, "unreachable")     \* EXIT.unavailable

\* large: its stdout is more than MAX_STDOUT_BYTES.
Cli(state, exit, large) == [state |-> state, exit |-> exit, large |-> large]
NotRun  == Cli("none", 0, FALSE)
Running == Cli("running", 0, FALSE)

Init ==
    /\ server = "up"
    /\ request \in [Calls -> Requests]
    /\ shim = [c \in Calls |-> Idle]
    /\ thread = [c \in Calls |-> "none"]
    /\ answer = [c \in Calls |-> NoReply]
    /\ binary = [c \in Calls |-> NotRun]
    /\ slots = MaxCalls
    /\ log = <<>>
    /\ clock = [c \in Calls |-> 0]
    /\ age = [c \in Calls |-> 0]

Steps == {"none", "parse", "acquire", "execute", "log", "reply", "end", "killed"}

\* subprocess.run returned or raised TimeoutExpired, which counts as exit 6.
Outcomes ==
    {Cli("killed", 6, FALSE)} \cup [state : {"exited"}, exit : CliExits, large : BOOLEAN]

Live(c) == thread[c] \notin {"none", "end", "killed"}

TypeOK ==
    /\ server \in {"up", "closed", "dead"}
    /\ request \in [Calls -> Requests]
    /\ \A c \in Calls : /\ shim[c] \in {Idle, Sent, Unavailable, answer[c]}
                        /\ thread[c] \in Steps
                        /\ binary[c] \in {NotRun, Running} \cup Outcomes
                        /\ age[c] \in 0 .. 2 * CallTimeout
                        /\ clock[c] \in 0 .. CallTimeout
    /\ slots \in 0 .. MaxCalls

(***************************************************************************)
(* The shim: main().  Broker.authorized holds for it.                      *)
(***************************************************************************)
Send(c) ==
    /\ shim[c] = Idle
    /\ IF server = "up"
         THEN /\ shim' = [shim EXCEPT ![c] = Sent]
              /\ thread' = [thread EXCEPT ![c] = "parse"]
         ELSE /\ shim' = [shim EXCEPT ![c] = Unavailable]
              /\ UNCHANGED thread
    /\ UNCHANGED <<server, request, answer, binary, slots, log, clock, age>>

\* AbortSignal.timeout(REQUEST_TIMEOUT_MS); the handler does not notice.
ShimGivesUp(c) ==
    /\ shim[c] = Sent /\ age[c] = ShimTimeout
    /\ shim' = [shim EXCEPT ![c] = Unavailable]
    /\ UNCHANGED <<server, request, thread, answer, binary, slots, log, clock, age>>

(***************************************************************************)
(* The handler: do_POST, Broker.call, _execute, _collect.                  *)
(***************************************************************************)
Form(c, reply) ==
    /\ thread' = [thread EXCEPT ![c] = "reply"]
    /\ answer' = [answer EXCEPT ![c] = reply]

LoggedAlways(r) == TRUE   \* mutant: every call has its line before it runs

\* parse_call and the refusal of stdin are logged, the two sizes are not.
Logged(r) == r \in {"disallowed", "unexpected_stdin"}

Parse(c) ==
    /\ thread[c] = "parse"
    /\ IF request[c] = "valid"
         THEN /\ thread' = [thread EXCEPT ![c] = "acquire"]
              /\ UNCHANGED answer
         ELSE Form(c, Reply(IF request[c] = "too_large" THEN 413 ELSE 400, 2, "refused"))
    /\ log' = IF Logged(request[c]) THEN Append(log, [call |-> c, exit |-> 2]) ELSE log
    /\ UNCHANGED <<server, request, shim, binary, slots, clock, age>>

\* How long the handler waits for a slot, and then for the CLI.
Deadline(step) == CallTimeout

Acquire(c) ==
    /\ thread[c] = "acquire" /\ slots > 0
    /\ slots' = slots - 1
    /\ thread' = [thread EXCEPT ![c] = "execute"]
    /\ clock' = [clock EXCEPT ![c] = 0]
    /\ UNCHANGED <<server, request, shim, answer, binary, log, age>>

\* _slots.acquire(timeout) returns False.
NoSlot(c) ==
    /\ thread[c] = "acquire" /\ clock[c] = Deadline(thread[c])
    /\ Form(c, Reply(400, 2, "busy"))
    /\ UNCHANGED <<server, request, shim, binary, slots, log, clock, age>>

Spawn(c) ==
    /\ thread[c] = "execute" /\ binary[c] = NotRun
    /\ binary' = [binary EXCEPT ![c] = Running]
    /\ UNCHANGED <<server, request, shim, thread, answer, slots, log, clock, age>>

\* subprocess.run kills the CLI and waits for it.
RunTimeout(c) ==
    /\ thread[c] = "execute" /\ binary[c] = Running /\ clock[c] = Deadline(thread[c])
    /\ binary' = [binary EXCEPT ![c] = Cli("killed", 6, FALSE)]
    /\ UNCHANGED <<server, request, shim, thread, answer, slots, log, clock, age>>

ReleasedOnSuccess(failed) == IF failed THEN slots ELSE slots + 1   \* mutant: no finally

\* The finally of call: whether _execute returned or raised.
Released(failed) == slots + 1

\* An output that is too large is replaced by an error, and the exit code by 1.
Reported(cli) == IF cli.large THEN 1 ELSE cli.exit

CollectTimeoutAsSuccess(c) ==   \* mutant: a CLI killed for its time is exit 0
    /\ thread[c] = "execute" /\ binary[c] \in Outcomes
    /\ thread' = [thread EXCEPT ![c] = "log"]
    /\ answer' = [answer EXCEPT ![c] =
                    Reply(200, IF binary[c].state = "killed" THEN 0
                               ELSE Reported(binary[c]), "")]
    /\ slots' = Released(FALSE)
    /\ UNCHANGED <<server, request, shim, binary, log, clock, age>>

Collect(c) ==
    /\ thread[c] = "execute" /\ binary[c] \in Outcomes
    /\ thread' = [thread EXCEPT ![c] = "log"]
    /\ answer' = [answer EXCEPT ![c] = Reply(200, Reported(binary[c]), "")]
    /\ slots' = Released(FALSE)
    /\ UNCHANGED <<server, request, shim, binary, log, clock, age>>

\* The output directories or the CLI's process cannot be made, the outputs
\* cannot be read, or they are larger than MAX_FILE_BYTES.
ExecuteFails(c) ==
    /\ thread[c] = "execute"
    /\ \/ binary[c] \in {NotRun} \cup Outcomes /\ Form(c, Reply(500, 1, "failed"))
       \/ binary[c] \in Outcomes /\ Form(c, Reply(400, 2, "files"))
    /\ slots' = Released(TRUE)
    /\ UNCHANGED <<server, request, shim, binary, log, clock, age>>

WriteLog(c) ==
    /\ thread[c] = "log"
    /\ thread' = [thread EXCEPT ![c] = "reply"]
    /\ log' = Append(log, [call |-> c, exit |-> answer[c].exit])
    /\ UNCHANGED <<server, request, shim, answer, binary, slots, clock, age>>

LogFails(c) ==
    /\ thread[c] = "log"
    /\ Form(c, Reply(500, 1, "failed"))
    /\ UNCHANGED <<server, request, shim, binary, slots, log, clock, age>>

SendReplyToListener(c) ==   \* mutant: the reply waits for a shim that has gone
    /\ thread[c] = "reply" /\ shim[c] = Sent
    /\ thread' = [thread EXCEPT ![c] = "end"]
    /\ shim' = [shim EXCEPT ![c] = answer[c]]
    /\ UNCHANGED <<server, request, answer, binary, slots, log, clock, age>>

SendReply(c) ==
    /\ thread[c] = "reply"
    /\ thread' = [thread EXCEPT ![c] = "end"]
    /\ shim' = [shim EXCEPT ![c] = IF @ = Sent THEN answer[c] ELSE @]
    /\ UNCHANGED <<server, request, answer, binary, slots, log, clock, age>>

HandlerStep(c) ==
    \/ Parse(c) \/ Acquire(c) \/ NoSlot(c) \/ Spawn(c) \/ RunTimeout(c)
    \/ Collect(c) \/ ExecuteFails(c) \/ WriteLog(c) \/ LogFails(c) \/ SendReply(c)

(***************************************************************************)
(* The CLI, the end of the session, and time.                              *)
(***************************************************************************)
CliExit(c) ==
    /\ binary[c] = Running
    /\ \E e \in CliExits, large \in BOOLEAN :
         binary' = [binary EXCEPT ![c] = Cli("exited", e, large)]
    /\ UNCHANGED <<server, request, shim, thread, answer, slots, log, clock, age>>

\* BrokerServer.stop when Pi exits: nobody listens, the threads go on.
Stop ==
    /\ server = "up"
    /\ server' = "closed"
    /\ UNCHANGED <<request, shim, thread, answer, binary, slots, log, clock, age>>

\* The process ends; the threads are daemons, the CLI's processes are not.
ProcessEnds ==
    /\ server = "closed"
    /\ server' = "dead"
    /\ thread' = [c \in Calls |-> IF Live(c) THEN "killed" ELSE thread[c]]
    /\ shim' = [c \in Calls |-> IF shim[c] = Sent THEN Unavailable ELSE shim[c]]
    /\ UNCHANGED <<request, answer, binary, slots, log, clock, age>>

Waiting(c) == \/ thread[c] = "acquire" /\ slots = 0
              \/ thread[c] = "execute" /\ binary[c] = Running

Tick ==
    /\ \E c \in Calls : Live(c)
    /\ \A c \in Calls : /\ Live(c) => Waiting(c) /\ clock[c] < Deadline(thread[c])
                        /\ shim[c] = Sent => age[c] < ShimTimeout
    /\ clock' = [c \in Calls |-> IF Live(c) THEN clock[c] + 1 ELSE clock[c]]
    /\ age' = [c \in Calls |-> IF Live(c) THEN age[c] + 1 ELSE age[c]]
    /\ UNCHANGED <<server, request, shim, thread, answer, binary, slots, log>>

Next ==
    \/ \E c \in Calls : Send(c) \/ ShimGivesUp(c) \/ HandlerStep(c) \/ CliExit(c)
    \/ Stop \/ ProcessEnds \/ Tick

\* Threads are scheduled, time passes, the shim's timer fires. The agent need
\* not call, the CLI need not exit, the session need not end.
Fairness ==
    /\ \A c \in Calls : WF_vars(HandlerStep(c)) /\ WF_vars(ShimGivesUp(c))
    /\ WF_vars(Tick)

Spec == Init /\ [][Next]_vars /\ Fairness

(***************************************************************************)
(* Properties.                                                             *)
(***************************************************************************)

\* The semaphore is exact on every path out of _execute: no call ever takes a
\* slot with it, and no more CLIs run under a thread than there are slots.
SlotsAccounted ==
    LET held == {c \in Calls : thread[c] = "execute"} IN
    server # "dead" => /\ slots + Cardinality(held) = MaxCalls
                       /\ {c \in Calls : binary[c] = Running} \subseteq held

\* broker.log can be held against what the agent reports (pi_run.py): a call
\* has at most one line, which has its own CLI's exit code, 1 when that CLI wrote
\* more than the broker hands out, or says that it was refused; and a call that
\* was answered with an exit code has its line by then.
LogAgrees ==
    /\ \A i, j \in DOMAIN log : log[i].call = log[j].call => i = j
    /\ \A i \in DOMAIN log : LET c == log[i].call IN
         \/ /\ binary[c] \in Outcomes
            /\ log[i].exit = IF binary[c].large THEN 1 ELSE binary[c].exit
         \/ binary[c] = NotRun /\ request[c] # "valid" /\ log[i].exit = 2
    /\ \A c \in Calls : thread[c] = "end" /\ answer[c].status = 200 =>
         \E i \in DOMAIN log : log[i].call = c

\* What the broker has the shim tell the agent is true when it is told and stays
\* true: an exit code is that of this very call's CLI, or 1 when that CLI wrote
\* too much; and a call refused or turned away for want of a slot has not run and
\* will not, so that it may be repeated.  (Of a call whose shim gave up or lost
\* the broker nothing is promised: it may have run, or run still.)
ReportsTrue ==
    \A c \in Calls : shim[c] \notin {Idle, Sent} =>
        /\ shim[c].status = 200 =>
             /\ binary[c] \in Outcomes
             /\ shim[c].exit = IF binary[c].large THEN 1 ELSE binary[c].exit
        /\ shim[c].error \in {"refused", "busy"} => binary[c] = NotRun

\* Every call ends, for the agent and for the thread that handles it, though the
\* CLI may hang, slots be taken and the shim give up first.
EveryCallEnds ==
    \A c \in Calls :
        shim[c] = Sent \/ Live(c)  ~>  shim[c] # Sent /\ ~Live(c)
=============================================================================
