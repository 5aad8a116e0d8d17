----------------------------- MODULE HostProcesses -----------------------------
(***************************************************************************)
(* The processes that own a model server or the llama-swap proxy:          *)
(*   capture  run-server.py with run capture: run_capture.py, whose server *)
(*            a pid_monitor.py samples beside it;                          *)
(*   kev      the same for a kev decision model, mlx_server.py, which      *)
(*            first needs a checkout of the kev runtime;                   *)
(*   swap     llama-swap start: llama_swap/cli.py, wrapper.py and bin.py,  *)
(*            which first needs the llama-swap binary.                     *)
(* The checkout and the binary are fetched in place and shared; run        *)
(* folders are shared by name.                                             *)
(*                                                                         *)
(* A child is the environment's: it may exit whenever it likes, and once   *)
(* asked to stop it may or may not.  Losing an owner (a signal it does not *)
(* handle, an exception nobody catches) and a tool that cannot be fetched  *)
(* are failures, and are counted.  What ModelStore has a name for too is   *)
(* called Host here, since both describe what serves a model.              *)
(***************************************************************************)
EXTENDS Naturals, FiniteSets

CONSTANTS
    Owners,     \* the owning processes
    RunIds,     \* names of run folders: a UTC second and an alias, or RUN_NAME
    Nobody,     \* not an owner, not a run id
    MaxFailures \* bound: failures in a behaviour

ASSUME NobodyAssumption == Nobody \notin Owners \cup RunIds
ASSUME OwnersAssumption == "empty" \notin Owners /\ "whole" \notin Owners
ASSUME FailureAssumption == MaxFailures \in Nat

CloneAttempts == 3

VARIABLES
    kind,       \* capture, kev or swap; none before it starts
    pc,         \* where an owner is
    pass,       \* which of its two calls of ensure_kev_repo a kev owner is in
    tries,      \* clone attempts made in it
    exit,       \* none, ok, refused (before any child), error, lost
    dir,        \* the run folder it made, Nobody before
    child,      \* none, running, exited
    rc,         \* how the child exited: none, clean, signal, crash
    monitor,    \* none, running, exited
    handlers,   \* does it forward SIGINT and SIGTERM?
    asked,      \* has it been asked to stop, with handlers or a finally in place?
    meta,       \* metadata.json of its run folder
    checkout,   \* support/kev: empty, whole, or the owner cloning into it
    binary,     \* .runtime/bin/llama-swap: absent, partial, whole
    disturbed,  \* history: a launch removed another's checkout, or took one that
                \* was still being cloned
    failures    \* history: failures so far

runVars == <<kind, dir, meta>>
toolVars == <<pass, tries, checkout, binary, disturbed>>
childVars == <<child, rc, monitor>>
askVars == <<handlers, asked>>
hostVars == <<runVars, pc, exit, toolVars, childVars, askVars, failures>>

Metadata == [stage : {"none", "initial", "server", "monitor", "completed"},
             rc : {"none", "clean", "signal", "crash"}, monitored : BOOLEAN]

HostTypeOK ==
    /\ kind \in [Owners -> {"none", "capture", "kev", "swap"}]
    /\ pass \in [Owners -> 1 .. 2]
    /\ tries \in [Owners -> 0 .. CloneAttempts]
    /\ exit \in [Owners -> {"none", "ok", "refused", "error", "lost"}]
    /\ dir \in [Owners -> RunIds \cup {Nobody}]
    /\ child \in [Owners -> {"none", "running", "exited"}]
    /\ rc \in [Owners -> {"none", "clean", "signal", "crash"}]
    /\ monitor \in [Owners -> {"none", "running", "exited"}]
    /\ handlers \in [Owners -> BOOLEAN] /\ asked \in [Owners -> BOOLEAN]
    /\ meta \in [Owners -> Metadata]
    /\ checkout \in {"empty", "whole"} \cup Owners
    /\ binary \in {"absent", "partial", "whole"}
    /\ disturbed \in BOOLEAN /\ failures \in 0 .. MaxFailures

HostInit ==
    /\ kind = [o \in Owners |-> "none"] /\ pc = [o \in Owners |-> "idle"]
    /\ pass = [o \in Owners |-> 1] /\ tries = [o \in Owners |-> 0]
    /\ exit = [o \in Owners |-> "none"] /\ dir = [o \in Owners |-> Nobody]
    /\ child = [o \in Owners |-> "none"] /\ rc = [o \in Owners |-> "none"]
    /\ monitor = [o \in Owners |-> "none"]
    /\ handlers = [o \in Owners |-> FALSE] /\ asked = [o \in Owners |-> FALSE]
    /\ meta = [o \in Owners |-> [stage |-> "none", rc |-> "none", monitored |-> FALSE]]
    /\ checkout = "empty" /\ binary = "absent"
    /\ disturbed = FALSE /\ failures = 0

At(o, step) == pc[o] = step
Goto(o, step) == pc' = [pc EXCEPT ![o] = step]
End(o, how) == Goto(o, "ended") /\ exit' = [exit EXCEPT ![o] = how]
\* An exception inside cmd_start's try: its finally runs.
Raise(o) == Goto(o, "stop") /\ exit' = [exit EXCEPT ![o] = "error"]
Set(f, o, v) == [f EXCEPT ![o] = v]
Failure == failures < MaxFailures /\ failures' = failures + 1

\* main: validate_runtime of a kev model wants the checkout first.
Begin(o, k) ==
    /\ At(o, "idle")
    /\ kind' = Set(kind, o, k)
    /\ Goto(o, CASE k = "capture" -> "mkdir" [] k = "kev" -> "ensure"
                 [] k = "swap" -> "find")
    /\ UNCHANGED <<dir, meta, exit, toolVars, childVars, askVars, failures>>

-----------------------------------------------------------------------------
(* ensure_kev_repo: called by validate_runtime and again by build_args.    *)

\* The caller goes on: validate_runtime to run_with_capture, build_args to Popen.
HaveCheckout(o) ==
    /\ Goto(o, IF pass[o] = 1 THEN "mkdir" ELSE "popen")
    /\ pass' = Set(pass, o, 2)

\* pyproject.toml marks a checkout, and git may write it before the rest: a
\* checkout still being made, or left by a lost cloner, is refused or taken.
EnsureCheckout(o) ==
    /\ At(o, "ensure")
    /\ \/ checkout = "whole" /\ HaveCheckout(o) /\ UNCHANGED <<exit, tries, disturbed>>
       \/ /\ checkout \in Owners /\ HaveCheckout(o)
          /\ disturbed' = TRUE /\ UNCHANGED <<exit, tries>>
       \/ /\ checkout \in Owners /\ End(o, "refused")
          /\ UNCHANGED <<pass, tries, disturbed>>
       \/ /\ checkout = "empty" /\ Goto(o, "clone")
          /\ tries' = Set(tries, o, 0) /\ UNCHANGED <<exit, pass, disturbed>>
    /\ UNCHANGED <<runVars, checkout, binary, childVars, askVars, failures>>

\* git clone refuses a folder that is not empty; a clone that fails tidies up.
Clone(o) ==
    /\ At(o, "clone")
    /\ tries' = Set(tries, o, tries[o] + 1)
    /\ \/ checkout = "empty" /\ checkout' = o /\ Goto(o, "cloning") /\ UNCHANGED exit
       \/ checkout # "empty" /\ Goto(o, "remove") /\ UNCHANGED <<checkout, exit>>
    /\ UNCHANGED <<runVars, pass, binary, disturbed, childVars, askVars, exit, failures>>

FinishClone(o) ==
    /\ At(o, "cloning")
    /\ \/ checkout = o /\ checkout' = "whole" /\ HaveCheckout(o)
       \/ checkout = o /\ checkout' = "empty" /\ Goto(o, "remove") /\ UNCHANGED pass
       \/ checkout # o /\ Goto(o, "remove") /\ UNCHANGED <<checkout, pass>>
    /\ UNCHANGED <<runVars, exit, tries, binary, disturbed, childVars, askVars, failures>>

\* Mutant: the loop has no else clause that fails after the last attempt.
RemoveAndGoOn(o) ==
    /\ At(o, "remove")
    /\ checkout' = "empty"
    /\ disturbed' = (disturbed \/ checkout \notin {"empty", o})
    /\ IF tries[o] < CloneAttempts THEN Goto(o, "clone") /\ UNCHANGED pass
                                   ELSE HaveCheckout(o)
    /\ UNCHANGED <<runVars, exit, tries, binary, childVars, askVars, failures>>

\* rm -rf of whatever is there, and another attempt, or fail after the third.
RemoveCheckout(o) ==
    /\ At(o, "remove")
    /\ checkout' = "empty"
    /\ disturbed' = (disturbed \/ checkout \notin {"empty", o})
    /\ IF tries[o] < CloneAttempts THEN Goto(o, "clone") /\ UNCHANGED exit
                                   ELSE End(o, "refused")
    /\ UNCHANGED <<runVars, pass, tries, binary, childVars, askVars, failures>>

-----------------------------------------------------------------------------
(* run_with_capture.                                                       *)

\* Mutant: mkdir with exist_ok=True.
MakeAnyRunDir(o, id) ==
    /\ At(o, "mkdir")
    /\ dir' = Set(dir, o, id)
    /\ meta' = Set(meta, o, [meta[o] EXCEPT !.stage = "initial"])
    /\ Goto(o, IF kind[o] = "kev" THEN "ensure" ELSE "popen")
    /\ UNCHANGED <<kind, exit, toolVars, childVars, askVars, failures>>

\* prepare_run_context: the folder must not exist.  write_initial_metadata.
MakeRunDir(o, id) ==
    /\ At(o, "mkdir")
    /\ IF \E p \in Owners : dir[p] = id
       THEN End(o, "refused") /\ UNCHANGED <<dir, meta>>
       ELSE /\ dir' = Set(dir, o, id)
            /\ meta' = Set(meta, o, [meta[o] EXCEPT !.stage = "initial"])
            /\ Goto(o, IF kind[o] = "kev" THEN "ensure" ELSE "popen")
            /\ UNCHANGED exit
    /\ UNCHANGED <<kind, toolVars, childVars, askVars, failures>>

StartServer(o) ==
    /\ At(o, "popen") /\ kind[o] # "swap"
    /\ child' = Set(child, o, "running")
    /\ meta' = Set(meta, o, [meta[o] EXCEPT !.stage = "server"])
    /\ Goto(o, "monitor")
    /\ UNCHANGED <<kind, dir, exit, toolVars, rc, monitor, askVars, failures>>

StartMonitor(o) ==
    /\ At(o, "monitor")
    /\ monitor' = Set(monitor, o, "running")
    /\ meta' = Set(meta, o, [meta[o] EXCEPT !.stage = "monitor"])
    /\ Goto(o, "install")
    /\ UNCHANGED <<kind, dir, exit, toolVars, child, rc, askVars, failures>>

InstallHandlers(o) ==
    /\ At(o, "install")
    /\ handlers' = Set(handlers, o, TRUE)
    /\ Goto(o, "wait")
    /\ UNCHANGED <<runVars, exit, toolVars, childVars, asked, failures>>

\* process.wait() returns, and the server is reaped.
ServerExited(o) ==
    /\ At(o, "wait") /\ child[o] = "exited"
    /\ Goto(o, "stop")
    /\ UNCHANGED <<runVars, exit, toolVars, childVars, askVars, failures>>

\* stop_monitor: SIGTERM, five seconds, SIGKILL; either way it is waited for.
StopMonitor(o) ==
    /\ At(o, "stop") /\ kind[o] # "swap"
    /\ monitor' = Set(monitor, o, "exited")
    /\ Goto(o, "finalize")
    /\ UNCHANGED <<runVars, exit, toolVars, child, rc, askVars, failures>>

FinalizeRun(o) ==
    /\ At(o, "finalize")
    /\ meta' = Set(meta, o, [stage |-> "completed", rc |-> rc[o],
                             monitored |-> monitor[o] = "exited"])
    /\ End(o, IF rc[o] = "clean" THEN "ok" ELSE "error")
    /\ UNCHANGED <<kind, dir, toolVars, childVars, askVars, failures>>

\* pid_monitor leaves its loop when ps has no row for the pid any more: the
\* server has exited and its parent (in wait, or in the signal handler's poll) or
\* init has reaped it.  Another process may get the pid first: it need not end.
MonitorEnds(o) ==
    /\ monitor[o] = "running" /\ child[o] = "exited"
    /\ pc[o] \in {"stop", "ended"} \/ (At(o, "wait") /\ asked[o])
    /\ monitor' = Set(monitor, o, "exited")
    /\ UNCHANGED <<runVars, pc, exit, toolVars, child, rc, askVars, failures>>

-----------------------------------------------------------------------------
(* llama-swap start: cmd_start, LlamaSwap.start and stop, ensure_binary.   *)

FindBinary(o) ==
    /\ At(o, "find")
    /\ Goto(o, IF binary = "absent" THEN "fetch" ELSE "popen")
    /\ UNCHANGED <<runVars, exit, toolVars, childVars, askVars, failures>>

\* install_binary copies out of the release archive into place; a file that is
\* there by now is kept as it is, whoever is still writing it.
FetchBinary(o) ==
    /\ At(o, "fetch")
    /\ \/ /\ binary = "absent" /\ binary' = "partial" /\ Goto(o, "copy")
          /\ UNCHANGED <<exit, failures>>
       \/ /\ binary # "absent" /\ Goto(o, "popen")
          /\ UNCHANGED <<binary, exit, failures>>
       \/ Failure /\ Raise(o) /\ UNCHANGED binary
    /\ UNCHANGED <<runVars, pass, tries, checkout, disturbed, childVars, askVars>>

CopyBinary(o) ==
    /\ At(o, "copy")
    /\ \/ binary' = "whole" /\ Goto(o, "popen") /\ UNCHANGED <<exit, failures>>
       \/ Failure /\ Raise(o) /\ UNCHANGED binary
    /\ UNCHANGED <<runVars, pass, tries, checkout, disturbed, childVars, askVars>>

\* A file that is not the whole program does not start.
StartProxy(o) ==
    /\ At(o, "popen") /\ kind[o] = "swap"
    /\ \/ /\ binary = "whole" /\ child' = Set(child, o, "running")
          /\ Goto(o, "ready") /\ UNCHANGED exit
       \/ binary # "whole" /\ Raise(o) /\ UNCHANGED child
    /\ UNCHANGED <<runVars, toolVars, rc, monitor, askVars, failures>>

\* Mutant: start() is called before the try.
WaitReadyOutsideTry(o) ==
    /\ At(o, "ready")
    /\ \/ child[o] = "running" /\ Goto(o, "poll") /\ UNCHANGED exit
       \/ End(o, "error")
    /\ UNCHANGED <<runVars, toolVars, childVars, askVars, failures>>

\* Healthy within the timeout; or exited, or silent until it: an exception,
\* which cmd_start's finally sees.
WaitReady(o) ==
    /\ At(o, "ready")
    /\ \/ child[o] = "running" /\ Goto(o, "poll") /\ UNCHANGED exit
       \/ Raise(o)
    /\ UNCHANGED <<runVars, toolVars, childVars, askVars, failures>>

PollProxy(o) ==
    /\ At(o, "poll") /\ child[o] = "exited"
    /\ Goto(o, "stop")
    /\ UNCHANGED <<runVars, exit, toolVars, childVars, askVars, failures>>

\* stop(): SIGTERM, ten seconds, SIGKILL; the child is waited for.
StopProxy(o) ==
    /\ At(o, "stop") /\ kind[o] = "swap"
    /\ \/ /\ child[o] = "running" /\ child' = Set(child, o, "exited")
          /\ rc' = Set(rc, o, "signal")
       \/ child[o] # "running" /\ UNCHANGED <<child, rc>>
    /\ End(o, IF exit[o] = "none" THEN "ok" ELSE exit[o])
    /\ UNCHANGED <<runVars, toolVars, monitor, askVars, failures>>

-----------------------------------------------------------------------------
(* Signals and children.                                                   *)

\* Mutant: the handler is installed and does nothing.
SwallowSignal(o, group) ==
    /\ handlers[o] /\ ~At(o, "ended") /\ asked' = Set(asked, o, TRUE)
    /\ UNCHANGED <<runVars, pc, exit, toolVars, childVars, handlers, failures>>

\* The handler of install_signal_forwarding; a terminal's Ctrl-C reaches the
\* whole process group, the monitor too.
ForwardSignal(o, group) ==
    /\ handlers[o] /\ ~At(o, "ended") /\ ~asked[o]
    /\ asked' = Set(asked, o, TRUE)
    /\ rc' = IF child[o] = "running" THEN Set(rc, o, "signal") ELSE rc
    /\ monitor' = IF group THEN Set(monitor, o, "exited") ELSE monitor
    /\ UNCHANGED <<runVars, pc, exit, toolVars, child, handlers, failures>>

\* Ctrl-C on llama-swap start, inside cmd_start's try.
InterruptStart(o) ==
    /\ kind[o] = "swap" /\ pc[o] \in {"find", "fetch", "copy", "popen", "ready", "poll"}
    /\ asked' = Set(asked, o, TRUE)
    /\ Goto(o, "stop")
    /\ UNCHANGED <<runVars, exit, toolVars, childVars, handlers, failures>>

\* A signal before the handlers are in place, SIGTERM on llama-swap start, a
\* write or a fork that raises, SIGKILL: the owner is gone, its child is not.
Lose(o) ==
    /\ pc[o] \notin {"idle", "ended"} /\ Failure
    /\ End(o, "lost")
    /\ UNCHANGED <<runVars, toolVars, childVars, askVars>>

\* A child that was asked to stop exits with what the signal made of it.
ChildExits(o) ==
    /\ child[o] = "running"
    /\ child' = Set(child, o, "exited")
    /\ \/ rc[o] = "none" /\ \E how \in {"clean", "crash"} : rc' = Set(rc, o, how)
       \/ rc[o] # "none" /\ UNCHANGED rc
    /\ UNCHANGED <<runVars, pc, exit, toolVars, monitor, askVars, failures>>

-----------------------------------------------------------------------------
Ensure(o) == EnsureCheckout(o) \/ Clone(o) \/ FinishClone(o) \/ RemoveCheckout(o)
Capture(o) ==
    \/ \E id \in RunIds : MakeRunDir(o, id)
    \/ StartServer(o) \/ StartMonitor(o) \/ InstallHandlers(o)
    \/ ServerExited(o) \/ StopMonitor(o) \/ FinalizeRun(o)
Swap(o) ==
    \/ FindBinary(o) \/ FetchBinary(o) \/ CopyBinary(o) \/ StartProxy(o)
    \/ WaitReady(o) \/ PollProxy(o) \/ StopProxy(o)
Work(o) == Ensure(o) \/ Capture(o) \/ Swap(o)

HostNext ==
    \E o \in Owners :
        \/ \E k \in {"capture", "kev", "swap"} : Begin(o, k)
        \/ Work(o) \/ Lose(o) \/ InterruptStart(o) \/ ChildExits(o) \/ MonitorEnds(o)
        \/ \E group \in BOOLEAN : ForwardSignal(o, group)

\* An owner runs on its own; a server that got a signal does exit (llama-server,
\* mlx_lm and uvicorn install handlers that end them).  Nothing is assumed of a
\* server that got none, nor of the proxy.
Fairness ==
    \A o \in Owners :
        /\ WF_hostVars(Work(o))
        /\ WF_hostVars(kind[o] # "swap" /\ rc[o] = "signal" /\ ChildExits(o))

HostSpec == HostInit /\ [][HostNext]_hostVars /\ Fairness

-----------------------------------------------------------------------------
(* Properties.                                                             *)

\* A run folder that says "completed" tells the truth about one run: nobody
\* else has it, its server has exited with the code it holds, and its monitor
\* no longer writes to it.
FinalizedTruthfully ==
    \A o \in Owners : meta[o].stage = "completed" =>
        /\ \A p \in Owners \ {o} : dir[p] # dir[o]
        /\ child[o] = "exited" /\ meta[o].rc = rc[o]
        /\ monitor[o] = "exited" /\ meta[o].monitored

\* An owner that comes to its own end, by whatever path, leaves no server, no
\* proxy and no monitor behind.
NothingLeftRunning ==
    \A o \in Owners : At(o, "ended") /\ exit[o] # "lost" =>
        child[o] # "running" /\ monitor[o] # "running"

\* A kev server is started only from a checkout that is whole, through failed
\* clones, retries and two looks for it: unless a launch removed what another had
\* made or was making, or took what another was still making.
CheckoutWhole ==
    \A o \in Owners :
        kind[o] = "kev" /\ At(o, "popen") /\ ~disturbed => checkout = "whole"

\* Asked to stop, an owner that can hear it ends, its run folder completed.
StopsWhenAsked ==
    \A o \in Owners :
        asked[o] ~> /\ At(o, "ended")
                    /\ exit[o] # "lost" /\ kind[o] # "swap" => meta[o].stage = "completed"
=============================================================================
