------------------------------ MODULE ServeManager ------------------------------
(***************************************************************************)
(* serve-manager apply and stop: cmd/serve-manager/main.go.                *)
(*                                                                         *)
(* Every invocation is a process of its own; invocations share nothing but *)
(* the files under .runtime/serve-manager (one pid file per component, the *)
(* active-generation file, an activation.json per generation) and the      *)
(* daemons they leave behind.  An invocation i that applies plans and      *)
(* starts generation i, so "the process of generation i" names its daemons *)
(* too.                                                                    *)
(*                                                                         *)
(* A daemon may die or stay silent at any time.  What an operator is not   *)
(* meant to do, or what the host does to an invocation, is a fault and is  *)
(* counted: invocations that overlap, one that is killed, a write that     *)
(* fails.                                                                  *)
(***************************************************************************)
EXTENDS Naturals, FiniteSets, FiniteSetsExt

CONSTANTS
    Last,       \* bound: invocations 1 .. Last, begun in this order
    MaxFaults   \* bound: faults in a behaviour

ASSUME BoundAssumption == Last \in Nat \ {0} /\ MaxFaults \in Nat

Invocations == 1 .. Last
Components  == {"llama-swap", "haproxy"}
None == 0

VARIABLES
    kind,       \* what each invocation does: apply-managed, apply-direct, stop
    pc,         \* where its run is
    target,     \* the pid its stopManagedProcess has read, None without a file
    failed,     \* has it met an error?
    exit,       \* how it ended: none, ok, error, killed
    proc,       \* the daemons, per component and generation
    pidFile,    \* pids/<component>.pid: the generation whose process it names
    active,     \* the active-generation file, None at first
    activation, \* activation.json per generation: none, failed, activated
    answeredBy, \* history: generations whose daemons answered i's health checks
    faults      \* history: number of faults so far

runVars    == <<kind, pc, target, failed, exit, answeredBy>>
fileVars   == <<pidFile, active, activation>>
vars == <<runVars, proc, fileVars, faults>>

Kinds == {"apply-managed", "apply-direct", "stop"}
\* A step is named with the component it is about.
Steps == ({"idle", "plan", "stopped", "declare", "record", "fail", "done"} \X {"-"})
          \cup ({"signal", "wait", "start", "pid", "health"} \X Components)

TypeOK ==
    /\ kind \in [Invocations -> Kinds \cup {"none"}]
    /\ pc \in [Invocations -> Steps]
    /\ target \in [Invocations -> Invocations \cup {None}]
    /\ failed \in [Invocations -> BOOLEAN]
    /\ exit \in [Invocations -> {"none", "ok", "error", "killed"}]
    /\ proc \in [Components -> [Invocations ->
                    {"gone", "starting", "serving", "killed"}]]
    /\ pidFile \in [Components -> Invocations \cup {None}]
    /\ active \in Invocations \cup {None}
    /\ activation \in [Invocations -> {"none", "failed", "activated"}]
    /\ answeredBy \in [Invocations -> SUBSET Invocations]
    /\ faults \in 0 .. MaxFaults

Init ==
    /\ kind = [i \in Invocations |-> "none"]
    /\ pc = [i \in Invocations |-> <<"idle", "-">>]
    /\ target = [i \in Invocations |-> None]
    /\ failed = [i \in Invocations |-> FALSE]
    /\ exit = [i \in Invocations |-> "none"]
    /\ proc = [c \in Components |-> [i \in Invocations |-> "gone"]]
    /\ pidFile = [c \in Components |-> None]
    /\ active = None
    /\ activation = [i \in Invocations |-> "none"]
    /\ answeredBy = [i \in Invocations |-> {}]
    /\ faults = 0

GoTo(i, step) == pc' = [pc EXCEPT ![i] = step]

Running == {i \in Invocations : pc[i][1] \notin {"idle", "done"}}

(***************************************************************************)
(* The daemons.                                                            *)
(***************************************************************************)
Alive(c) == {i \in Invocations : proc[c][i] \in {"starting", "serving"}}
Serving(c) == {i \in Invocations : proc[c][i] = "serving"}

\* A process that has been sent SIGKILL answers no more but holds its port
\* until it is gone.
Holds(c) == {i \in Invocations : proc[c][i] \in {"serving", "killed"}}

Becomes(c, i, state) == proc' = [proc EXCEPT ![c][i] = state]

\* llama-swap needs the port for itself; HAProxy binds with SO_REUSEPORT.
Bind(c, i) ==
    /\ proc[c][i] = "starting"
    /\ c = "haproxy" \/ Holds(c) = {}
    /\ Becomes(c, i, "serving")
    /\ UNCHANGED <<runVars, fileVars, faults>>

\* The process exits: a port in use, SIGTERM, SIGKILL, or a crash of its own.
Die(c, i) ==
    /\ proc[c][i] \in {"starting", "serving", "killed"}
    /\ Becomes(c, i, "gone")
    /\ UNCHANGED <<runVars, fileVars, faults>>

(***************************************************************************)
(* apply and stop, up to the point where the old children are stopped.     *)
(***************************************************************************)

\* main(): invocations begin in order; beginning before the last has ended is a
\* fault.
Begin(i) ==
    /\ pc[i] = <<"idle", "-">>
    /\ \A j \in 1 .. i - 1 : pc[j] # <<"idle", "-">>
    /\ \E k \in Kinds :
         /\ kind' = [kind EXCEPT ![i] = k]
         /\ GoTo(i, IF k = "stop" THEN <<"signal", "llama-swap">> ELSE <<"plan", "-">>)
    /\ IF Running = {} THEN UNCHANGED faults
                       ELSE faults < MaxFaults /\ faults' = faults + 1
    /\ UNCHANGED <<target, failed, exit, answeredBy, proc, fileVars>>

\* buildAndWritePlan and the look at validation.Valid.  An error before the
\* generation directory exists ends the invocation without a record.
Plan(i) ==
    /\ pc[i] = <<"plan", "-">>
    /\ \/ GoTo(i, <<"signal", "llama-swap">>) /\ UNCHANGED <<failed, exit>>
       \/ GoTo(i, <<"fail", "-">>) /\ failed' = [failed EXCEPT ![i] = TRUE] /\ UNCHANGED exit
       \/ GoTo(i, <<"done", "-">>) /\ exit' = [exit EXCEPT ![i] = "error"] /\ UNCHANGED failed
    /\ UNCHANGED <<kind, target, answeredBy, proc, fileVars, faults>>

AfterStopSwapOnly(c) == <<"stopped", "-">>   \* mutant: HAProxy is not stopped

\* The two components are stopped in this order, the second one in any case.
AfterStop(c) == IF c = "llama-swap" THEN <<"signal", "haproxy">> ELSE <<"stopped", "-">>

\* stopManagedProcess: read the pid file, SIGTERM.  The signal is refused when
\* the pid now belongs to a process of somebody else.
SignalChild(i, c) ==
    /\ pc[i] = <<"signal", c>>
    /\ \/ /\ pidFile[c] = None
          /\ GoTo(i, AfterStop(c))
          /\ UNCHANGED <<target, failed>>
       \/ /\ pidFile[c] # None
          /\ target' = [target EXCEPT ![i] = pidFile[c]]
          /\ GoTo(i, <<"wait", c>>)
          /\ UNCHANGED failed
       \/ /\ pidFile[c] # None /\ proc[c][pidFile[c]] = "gone"
          /\ failed' = [failed EXCEPT ![i] = TRUE]
          /\ GoTo(i, AfterStop(c))
          /\ UNCHANGED target
    /\ UNCHANGED <<kind, exit, answeredBy, proc, fileVars, faults>>

\* os.Remove(pidPath), whatever the file says by now.
RemovePidFile(c) == pidFile' = [pidFile EXCEPT ![c] = None]

ChildGone(i, c) ==
    /\ pc[i] = <<"wait", c>>
    /\ proc[c][target[i]] = "gone"
    /\ RemovePidFile(c)
    /\ GoTo(i, AfterStop(c))
    /\ target' = [target EXCEPT ![i] = None]
    /\ UNCHANGED <<kind, failed, exit, answeredBy, proc, active, activation, faults>>

KillChildUnsignalled(i, c) ==   \* mutant: the deadline passes and nothing is sent
    /\ pc[i] = <<"wait", c>>
    /\ RemovePidFile(c)
    /\ GoTo(i, AfterStop(c))
    /\ target' = [target EXCEPT ![i] = None]
    /\ UNCHANGED <<kind, failed, exit, answeredBy, proc, active, activation, faults>>

KillChildNever(i, c) ==   \* mutant: no deadline, it waits for the process to go
    /\ pc[i] = <<"wait", c>>
    /\ proc[c][target[i]] = "gone"
    /\ RemovePidFile(c)
    /\ GoTo(i, AfterStop(c))
    /\ target' = [target EXCEPT ![i] = None]
    /\ UNCHANGED <<kind, failed, exit, answeredBy, proc, active, activation, faults>>

\* Ten seconds have passed: SIGKILL, and the pid file goes without a wait.
KillChild(i, c) ==
    /\ pc[i] = <<"wait", c>>
    /\ Becomes(c, target[i],
               IF proc[c][target[i]] \in {"starting", "serving"} THEN "killed"
                                                                ELSE proc[c][target[i]])
    /\ RemovePidFile(c)
    /\ GoTo(i, AfterStop(c))
    /\ target' = [target EXCEPT ![i] = None]
    /\ UNCHANGED <<kind, failed, exit, answeredBy, active, activation, faults>>

\* stopManagedChildren has returned: errors of both components end an apply.
ChildrenStopped(i) ==
    /\ pc[i] = <<"stopped", "-">>
    /\ \/ /\ kind[i] = "stop"
          /\ GoTo(i, <<"done", "-">>)
          /\ exit' = [exit EXCEPT ![i] = IF failed[i] THEN "error" ELSE "ok"]
       \/ /\ kind[i] # "stop"
          /\ GoTo(i, IF failed[i] THEN <<"fail", "-">>
                     ELSE IF kind[i] = "apply-managed" THEN <<"start", "llama-swap">>
                     ELSE <<"start", "haproxy">>)
          /\ UNCHANGED exit
    /\ UNCHANGED <<kind, target, failed, answeredBy, proc, fileVars, faults>>

(***************************************************************************)
(* apply: start, wait for health, declare.                                 *)
(***************************************************************************)
Fail(i) == GoTo(i, <<"fail", "-">>) /\ failed' = [failed EXCEPT ![i] = TRUE]

\* startManagedProcess: no binary, no log file, or cmd.Start().
StartChild(i, c) ==
    /\ pc[i] = <<"start", c>>
    /\ \/ Becomes(c, i, "starting") /\ GoTo(i, <<"pid", c>>) /\ UNCHANGED failed
       \/ Fail(i) /\ UNCHANGED proc
    /\ UNCHANGED <<kind, target, exit, answeredBy, fileVars, faults>>

WritePidFile(i, c) ==
    /\ pc[i] = <<"pid", c>>
    /\ pidFile' = [pidFile EXCEPT ![c] = i]
    /\ GoTo(i, <<"health", c>>)
    /\ UNCHANGED <<kind, target, failed, exit, answeredBy, proc, active, activation, faults>>

\* GET /health of a component is 200: for llama-swap it answers itself, HAProxy
\* asks its backend, which is llama-swap or, in direct mode, a server outside.
Healthy(c, answerers) ==
    \/ c = "llama-swap" /\ \E s \in Serving(c) : answerers = {s}
    \/ /\ c = "haproxy"
       /\ \E h \in Serving(c) :
            \/ kind[h] = "apply-direct" /\ answerers = {h}
            \/ /\ kind[h] = "apply-managed"
               /\ \E s \in Serving("llama-swap") : answerers = {h, s}

HealthOK(i, c) ==
    /\ pc[i] = <<"health", c>>
    /\ \E answerers \in SUBSET Invocations :
         /\ Healthy(c, answerers)
         /\ answeredBy' = [answeredBy EXCEPT ![i] = @ \cup answerers]
    /\ GoTo(i, IF c = "llama-swap" THEN <<"start", "haproxy">> ELSE <<"declare", "-">>)
    /\ UNCHANGED <<kind, target, failed, exit, proc, fileVars, faults>>

\* waitForHTTP gives up after 20 seconds.
HealthTimeout(i, c) ==
    /\ pc[i] = <<"health", c>>
    /\ Fail(i)
    /\ UNCHANGED <<kind, target, exit, answeredBy, proc, fileVars, faults>>

DeclareFirstOnly(i) ==   \* mutant: an existing active-generation file is kept
    /\ pc[i] = <<"declare", "-">>
    /\ active' = IF active = None THEN i ELSE active
    /\ GoTo(i, <<"record", "-">>)
    /\ UNCHANGED <<kind, target, failed, exit, answeredBy, proc, pidFile, activation, faults>>

\* Both health checks passed: the active-generation file is written.
Declare(i) ==
    /\ pc[i] = <<"declare", "-">>
    /\ active' = i
    /\ GoTo(i, <<"record", "-">>)
    /\ UNCHANGED <<kind, target, failed, exit, answeredBy, proc, pidFile, activation, faults>>

\* activation.json of the generation, with the errors or with activated = true.
Record(i) ==
    /\ pc[i][1] \in {"record", "fail"}
    /\ activation' = [activation EXCEPT ![i] = IF failed[i] THEN "failed" ELSE "activated"]
    /\ exit' = [exit EXCEPT ![i] = IF failed[i] THEN "error" ELSE "ok"]
    /\ GoTo(i, <<"done", "-">>)
    /\ UNCHANGED <<kind, target, failed, answeredBy, proc, pidFile, active, faults>>

(***************************************************************************)
(* Faults.                                                                 *)
(***************************************************************************)

\* The invocation itself is killed, the daemons it started stay.
KillInvocation(i) ==
    /\ pc[i][1] \notin {"idle", "done"}
    /\ faults < MaxFaults /\ faults' = faults + 1
    /\ GoTo(i, <<"done", "-">>)
    /\ exit' = [exit EXCEPT ![i] = "killed"]
    /\ UNCHANGED <<kind, target, failed, answeredBy, proc, fileVars>>

\* A write fails: the pid file after the start, which ends in "fail", or
\* active-generation, which returns at once; an unwritten record is ignored.
WriteFails(i) ==
    /\ faults < MaxFaults /\ faults' = faults + 1
    /\ \/ /\ pc[i][1] = "pid"
          /\ Fail(i)
          /\ UNCHANGED exit
       \/ /\ pc[i][1] \in {"declare", "record", "fail"}
          /\ GoTo(i, <<"done", "-">>)
          /\ exit' = [exit EXCEPT ![i] = "error"]
          /\ UNCHANGED failed
    /\ UNCHANGED <<kind, target, answeredBy, proc, fileVars>>

Step(i) ==
    \/ Plan(i) \/ ChildrenStopped(i) \/ Declare(i) \/ Record(i)
    \/ \E c \in Components :
         \/ SignalChild(i, c) \/ ChildGone(i, c) \/ KillChild(i, c)
         \/ StartChild(i, c) \/ WritePidFile(i, c)
         \/ HealthOK(i, c) \/ HealthTimeout(i, c)

Next ==
    \E i \in Invocations :
        \/ Begin(i) \/ Step(i) \/ KillInvocation(i) \/ WriteFails(i)
        \/ \E c \in Components : Bind(c, i) \/ Die(c, i)

Spec == Init /\ [][Next]_vars

\* An invocation that runs goes on: all its waits have deadlines.  Nothing is
\* assumed of the daemons.
FairSpec == Spec /\ \A i \in Invocations : WF_vars(Step(i))

(***************************************************************************)
(* Properties.                                                             *)
(***************************************************************************)

\* Without faults, no daemon is out of stop's reach: each one alive is the one
\* its component's pid file names, or the one that is being started.
NothingUnmanaged ==
    faults = 0 =>
        \A c \in Components : \A i \in Alive(c) :
            pidFile[c] = i \/ pc[i] = <<"pid", c>>

\* A generation is declared active on the word of its own daemons only.  (An
\* overlapping or killed invocation breaks this: any 200 counts as healthy.)
DeclaredOnItsOwn ==
    \A i \in Invocations :
        pc[i] = <<"declare", "-">> \/ active = i \/ activation[i] = "activated" =>
            answeredBy[i] = {i}

\* ... which holds as long as there are no faults, whatever daemons do.
DeclaredSoundly == faults = 0 => DeclaredOnItsOwn

\* The files agree: without faults the active generation is the newest one whose
\* activation.json says so (or is about to), whoever failed after it.
ActiveIsNewestActivated ==
    faults = 0 =>
        active = Max({None} \cup {i \in Invocations :
                        activation[i] = "activated" \/ pc[i] = <<"record", "-">>})

\* "Failures must be attributed to a specific generation": an apply that got as
\* far as its generation and was neither killed nor unable to write has left an
\* activation.json, and it tells success from failure as the exit status does.
ActivationAttributed ==
    \A i \in Invocations :
        /\ activation[i] = "activated" => exit[i] = "ok" /\ active # None
        /\ exit[i] = "ok" /\ kind[i] # "stop" => activation[i] = "activated"
        /\ faults = 0 /\ exit[i] = "error" /\ failed[i] /\ kind[i] # "stop" =>
             activation[i] = "failed" /\ active # i

\* active-generation and the activation.json files tell one story.
ActivationFilesAgree == ActiveIsNewestActivated /\ ActivationAttributed

\* After a stop that reported success nothing serves until the next apply,
\* unless a fault has put a daemon out of its reach.
StoppedMeansDown ==
    \A i \in Invocations :
        faults = 0 /\ kind[i] = "stop" /\ exit[i] = "ok"
          /\ (\A j \in i + 1 .. Last : pc[j] = <<"idle", "-">>) =>
            \A c \in Components : Alive(c) = {} /\ pidFile[c] = None

\* Every invocation comes to its end, whatever its daemons do.
InvocationEnds == \A i \in Invocations : pc[i] # <<"idle", "-">> ~> pc[i] = <<"done", "-">>
=============================================================================
