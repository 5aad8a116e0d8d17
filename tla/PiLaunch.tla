-------------------------------- MODULE PiLaunch --------------------------------
(***************************************************************************)
(* Launches of ./pi-local: main, launch_local and launch_sandboxed of      *)
(* lm_launcher/pi_bootstrap.py, and lm_launcher/pi_run.py.                 *)
(*                                                                         *)
(* Launches started from one checkout share the workspace folder .pi-run,  *)
(* the host's agent-sandbox folder, the node tarball and the one virtual   *)
(* machine pi-local; nothing locks any of them.  A launch either runs Pi   *)
(* on the host, inside a scratch folder of its own, or provisions the      *)
(* machine and runs Pi there, with a taxdesk-docs broker beside it.        *)
(*                                                                         *)
(* What OpenShell, node's mirror and npm do is the environment's: a call   *)
(* fails, times out or succeeds, and one that is cut short may have done   *)
(* part of its work; a command in the machine ends with its call.  A       *)
(* machine that wedges, a failed download of the records and a launch that *)
(* is killed are faults, and are counted.                                  *)
(***************************************************************************)
EXTENDS Naturals

CONSTANTS
    Launches,   \* the launches
    NoOne,      \* none of them
    MaySandbox, \* bound: those that may be launches with --sandbox
    Mixed,      \* bound: do launches of both kinds, which share no state, meet?
    MaxFaults   \* bound: faults in a behaviour

ASSUME NoOneAssumption == NoOne \notin Launches
ASSUME BoundAssumption ==
    MaxFaults \in Nat /\ MaySandbox \subseteq Launches /\ Mixed \in BOOLEAN

Ignore == ".gitignore"
ASSUME IgnoreAssumption == Ignore \notin Launches

VARIABLES
    kind,       \* none, local or sandbox, per launch
    keep,       \* --keep-run-files
    pc,         \* where a launch is
    exit,       \* how it ended: none, ok, error, killed
    piRun,      \* the workspace has a folder .pi-run
    names,      \* what it lists: run folders and the .gitignore
    seen,       \* what a launch's rmtree of .pi-run still has to remove
    retry,      \* may the launch still recreate the machine?
    needPi,     \* did its probe miss the Pi install?
    broker,     \* its taxdesk-docs broker: none, running, stopped
    hostAgent,  \* the host's agent-sandbox folder: whose, with whose token
    tarball,    \* the host's node tarball: absent, partial, whole
    vm,         \* the virtual machine
    fetched,    \* trajectories in .runtime/pi/runs/<run-id>
    alone,      \* history: no other sandboxed launch ran beside this one
    faults      \* history: faults so far

localVars   == <<piRun, names, seen>>
sandboxVars == <<retry, needPi, broker, hostAgent, tarball, vm, fetched, alone>>
startVars   == <<kind, keep>>
vars == <<startVars, pc, exit, localVars, sandboxVars, faults>>

Markers == {"absent", "partial", "whole"}
AgentDirs == [owner : Launches \cup {NoOne}, token : Launches \cup {NoOne}]
Machines == [phase : {"none", "ready", "error"},
             policy : Launches \cup {NoOne}, \* whose broker port is open
             agent : AgentDirs,              \* the uploaded agent-sandbox
             pi : Markers,                   \* support/pi and its node_modules
             node : Markers,                 \* the unpacked node
             records : SUBSET Launches]      \* /sandbox/.pi-records

NoAgentDir == [owner |-> NoOne, token |-> NoOne]
NoMachine == [phase |-> "none", policy |-> NoOne, agent |-> NoAgentDir,
              pi |-> "absent", node |-> "absent", records |-> {}]
FreshMachine(r) == [NoMachine EXCEPT !.phase = "ready", !.policy = r]

PreparePcs == {"parent", "rundir", "chmod", "ignore"}
CleanupPcs == {"rmtree", "list", "scan", "unlink", "rmdir"}
ProvisionPcs == {"probe", "create", "policy", "wait", "recreate", "agentdir",
                 "upload", "agent", "check", "tarball", "extract", "npm"}
SessionPcs == {"session", "fetch", "forget", "finally"}

TypeOK ==
    /\ kind \in [Launches -> {"none", "local", "sandbox"}]
    /\ keep \in [Launches -> BOOLEAN]
    /\ pc \in [Launches -> {"idle", "ended"} \cup PreparePcs \cup CleanupPcs
                             \cup ProvisionPcs \cup SessionPcs]
    /\ exit \in [Launches -> {"none", "ok", "error", "killed"}]
    /\ piRun \in BOOLEAN
    /\ names \subseteq Launches \cup {Ignore}
    /\ seen \in [Launches -> SUBSET (Launches \cup {Ignore})]
    /\ retry \in [Launches -> BOOLEAN]
    /\ needPi \in [Launches -> BOOLEAN]
    /\ broker \in [Launches -> {"none", "running", "stopped"}]
    /\ hostAgent \in AgentDirs
    /\ tarball \in Markers
    /\ vm \in Machines
    /\ fetched \subseteq Launches
    /\ alone \in [Launches -> BOOLEAN]
    /\ faults \in 0 .. MaxFaults

Init ==
    /\ kind = [r \in Launches |-> "none"]
    /\ keep = [r \in Launches |-> FALSE]
    /\ pc = [r \in Launches |-> "idle"]
    /\ exit = [r \in Launches |-> "none"]
    /\ piRun = FALSE /\ names = {}
    /\ seen = [r \in Launches |-> {}]
    /\ retry = [r \in Launches |-> TRUE]
    /\ needPi = [r \in Launches |-> FALSE]
    /\ broker = [r \in Launches |-> "none"]
    /\ hostAgent = NoAgentDir
    /\ tarball = "absent"
    /\ vm = NoMachine
    /\ fetched = {}
    /\ alone = [r \in Launches |-> TRUE]
    /\ faults = 0

At(r, step) == pc[r] = step
Goto(r, step) == pc' = [pc EXCEPT ![r] = step]
End(r, how) == Goto(r, "ended") /\ exit' = [exit EXCEPT ![r] = how]
Running(r) == pc[r] \notin {"idle", "ended"}
MayBe(k) == Mixed \/ \A s \in Launches : kind[s] \in {"none", k}

-----------------------------------------------------------------------------
(* A launch on the host: its scratch folder <workspace>/.pi-run/<run-id>.  *)

BeginLocal(r, keeps) ==
    /\ At(r, "idle") /\ MayBe("local")
    /\ kind' = [kind EXCEPT ![r] = "local"]
    /\ keep' = [keep EXCEPT ![r] = keeps]
    /\ Goto(r, "parent")
    /\ UNCHANGED <<exit, localVars, sandboxVars, faults>>

\* prepare_run_dir makes missing parents one by one, then the run's folder,
\* sets their modes, and writes .pi-run/.gitignore.  A folder that another
\* launch's cleanup has removed meanwhile is a FileNotFoundError.
MakeParent(r) ==
    /\ At(r, "parent")
    /\ piRun' = TRUE
    /\ Goto(r, "rundir")
    /\ UNCHANGED <<startVars, exit, names, seen, sandboxVars, faults>>

MakeRunDir(r) ==
    /\ At(r, "rundir")
    /\ \/ piRun /\ names' = names \cup {r} /\ Goto(r, "chmod") /\ UNCHANGED exit
       \/ ~piRun /\ End(r, "error") /\ UNCHANGED names
    /\ UNCHANGED <<startVars, piRun, seen, sandboxVars, faults>>

SetModes(r) ==
    /\ At(r, "chmod")
    /\ \/ r \in names /\ Goto(r, "ignore") /\ UNCHANGED exit
       \/ r \notin names /\ End(r, "error")
    /\ UNCHANGED <<startVars, localVars, sandboxVars, faults>>

WriteIgnore(r) ==
    /\ At(r, "ignore")
    /\ \/ /\ piRun /\ names' = names \cup {Ignore}
          /\ Goto(r, "session") /\ UNCHANGED exit
       \/ ~piRun /\ End(r, "error") /\ UNCHANGED names
    /\ UNCHANGED <<startVars, piRun, seen, sandboxVars, faults>>

\* Pi exits, at the person's will; a Ctrl-C meant for it does not end pi-local.
EndLocalSession(r) ==
    /\ At(r, "session") /\ kind[r] = "local"
    /\ IF keep[r] THEN End(r, "ok") ELSE Goto(r, "rmtree") /\ UNCHANGED exit
    /\ UNCHANGED <<startVars, localVars, sandboxVars, faults>>

\* cleanup_run: the run's own folder, then .pi-run when nobody else is listed.
RemoveRunDir(r) ==
    /\ At(r, "rmtree")
    /\ names' = names \ {r}
    /\ Goto(r, "list")
    /\ UNCHANGED <<startVars, exit, piRun, seen, sandboxVars, faults>>

\* Mutant: `leftovers` compared with the empty set.
LeftoversCountIgnore(ns) == ns

Leftovers(ns) == ns \ {Ignore}

ListLeftovers(r) ==
    /\ At(r, "list")
    /\ IF piRun /\ Leftovers(names) = {}
       THEN Goto(r, "scan") /\ UNCHANGED exit
       ELSE End(r, "ok")
    /\ UNCHANGED <<startVars, localVars, sandboxVars, faults>>

\* rmtree(parent, ignore_errors=True) lists again, removes what it listed, one
\* name at a time, and then the folder if it is empty by now.
ScanParent(r) ==
    /\ At(r, "scan")
    /\ seen' = [seen EXCEPT ![r] = names]
    /\ Goto(r, "unlink")
    /\ UNCHANGED <<startVars, exit, piRun, names, sandboxVars, faults>>

UnlinkEntry(r) ==
    /\ At(r, "unlink")
    /\ \/ \E n \in seen[r] :
            /\ seen' = [seen EXCEPT ![r] = @ \ {n}]
            \* A folder its launch writes to may not be empty when its turn comes.
            /\ \/ names' = names \ {n}
               \/ n \in Launches /\ At(n, "session") /\ UNCHANGED names
            /\ UNCHANGED pc
       \/ seen[r] = {} /\ Goto(r, "rmdir") /\ UNCHANGED <<names, seen>>
    /\ UNCHANGED <<startVars, exit, piRun, sandboxVars, faults>>

RemoveParent(r) ==
    /\ At(r, "rmdir")
    /\ piRun' = (piRun /\ names # {})
    /\ End(r, "ok")
    /\ UNCHANGED <<startVars, names, seen, sandboxVars, faults>>

-----------------------------------------------------------------------------
(* A launch in the virtual machine.                                        *)

Sandboxed(r) == kind[r] = "sandbox"
VmReady == vm.phase = "ready"

\* main, start_taxdesk_broker: the broker starts when the host has a
\* taxdesk-docs binary whose manifest loads, before launch_sandboxed's try.
BeginSandboxed(r, binary) ==
    /\ At(r, "idle") /\ r \in MaySandbox /\ MayBe("sandbox")
    /\ kind' = [kind EXCEPT ![r] = "sandbox"]
    /\ broker' = [broker EXCEPT ![r] = IF binary THEN "running" ELSE "none"]
    /\ LET others == {s \in Launches \ {r} : Sandboxed(s) /\ Running(s)}
       IN  alone' = [s \in Launches |->
                       alone[s] /\ (s \in others \/ s = r => others = {})]
    /\ Goto(r, "probe")
    /\ UNCHANGED <<keep, exit, localVars, retry, needPi, hostAgent, tarball,
                   vm, fetched, faults>>

\* What a call that is cut short has done by then: all of it, part or nothing.
\* None of it is undone.
CutShort(r) ==
    \/ UNCHANGED <<hostAgent, tarball, vm>>
    \/ At(r, "agentdir") /\ hostAgent' = NoAgentDir /\ UNCHANGED <<tarball, vm>>
    \/ /\ At(r, "tarball") /\ tarball = "absent" /\ tarball' = "partial"
       /\ UNCHANGED <<hostAgent, vm>>
    \/ /\ \/ At(r, "create") /\ vm.phase = "none" /\ vm' = FreshMachine(r)
          \/ At(r, "recreate") /\ vm' = NoMachine
          \/ At(r, "policy") /\ VmReady /\ vm' = [vm EXCEPT !.policy = r]
          \/ pc[r] \in {"upload", "npm"} /\ VmReady /\ vm' = [vm EXCEPT !.pi = "partial"]
          \/ At(r, "agent") /\ VmReady /\ vm' = [vm EXCEPT !.agent = NoAgentDir]
          \/ At(r, "extract") /\ VmReady /\ vm' = [vm EXCEPT !.node = "partial"]
       /\ UNCHANGED <<hostAgent, tarball>>

\* Any call of openshell may time out or fail, the budget may be spent, the
\* mirror unreachable or Ctrl-C pressed: the exception runs the finally block.
AbortProvisioning(r) ==
    /\ pc[r] \in ProvisionPcs
    /\ CutShort(r)
    /\ Goto(r, "finally")
    /\ exit' = [exit EXCEPT ![r] = "error"]
    /\ UNCHANGED <<startVars, localVars, retry, needPi, broker, fetched, alone, faults>>

ProbeMachine(r) ==
    /\ At(r, "probe")
    /\ Goto(r, IF vm.phase = "none" THEN "create" ELSE "policy")
    /\ UNCHANGED <<startVars, exit, localVars, sandboxVars, faults>>

\* OpenShell refuses a name that is taken: AbortProvisioning.
CreateMachine(r) ==
    /\ At(r, "create")
    /\ vm.phase = "none" /\ vm' = FreshMachine(r)
    /\ Goto(r, "wait")
    /\ UNCHANGED <<startVars, exit, localVars, retry, needPi, broker, hostAgent,
                   tarball, fetched, alone, faults>>

\* The result of `policy set` is not looked at.
RefreshPolicy(r) ==
    /\ At(r, "policy")
    /\ \/ VmReady /\ vm' = [vm EXCEPT !.policy = r]
       \/ UNCHANGED vm
    /\ Goto(r, "wait")
    /\ UNCHANGED <<startVars, exit, localVars, retry, needPi, broker, hostAgent,
                   tarball, fetched, alone, faults>>

\* wait_sandbox_ready polls until an exec works, the phase is Error, or 90 s.
WaitReady(r) ==
    /\ At(r, "wait")
    /\ \/ VmReady /\ Goto(r, "agentdir") /\ UNCHANGED exit
       \/ ~VmReady /\ retry[r] /\ Goto(r, "recreate") /\ UNCHANGED exit
       \/ ~VmReady /\ ~retry[r] /\ Goto(r, "finally")
          /\ exit' = [exit EXCEPT ![r] = "error"]
    /\ UNCHANGED <<startVars, localVars, sandboxVars, faults>>

\* Mutant: the recursive call forgets retry=False.
RecreateForever(r) ==
    /\ At(r, "recreate")
    /\ vm' = NoMachine \/ UNCHANGED vm
    /\ Goto(r, "probe")
    /\ UNCHANGED <<startVars, exit, localVars, retry, needPi, broker, hostAgent,
                   tarball, fetched, alone, faults>>

\* `sandbox delete`, its result not looked at, and ensure_sandbox once more
\* with retry=False and the same broker.
RecreateMachine(r) ==
    /\ At(r, "recreate")
    /\ \/ vm' = NoMachine
       \/ UNCHANGED vm
    /\ retry' = [retry EXCEPT ![r] = FALSE]
    /\ Goto(r, "probe")
    /\ UNCHANGED <<startVars, exit, localVars, needPi, broker, hostAgent, tarball,
                   fetched, alone, faults>>

\* Mutant: the recursive call forgets broker=broker.
RenderWithoutBroker(r) ==
    /\ At(r, "agentdir")
    /\ hostAgent' = [owner |-> r, token |-> IF broker[r] = "running" /\ retry[r]
                                           THEN r ELSE NoOne]
    /\ Goto(r, "upload")
    /\ UNCHANGED <<startVars, exit, localVars, retry, needPi, broker, tarball, vm,
                   fetched, alone, faults>>

\* sandbox_agent_dir replaces the host folder and writes the shim's config.
RenderAgentDir(r) ==
    /\ At(r, "agentdir")
    /\ hostAgent' = [owner |-> r,
                     token |-> IF broker[r] = "running" THEN r ELSE NoOne]
    /\ Goto(r, "upload")
    /\ UNCHANGED <<startVars, exit, localVars, retry, needPi, broker, tarball, vm,
                   fetched, alone, faults>>

\* The workspace and support/pi.  The latter goes with --no-git-ignore: with the
\* node_modules that check_pi_install has found on the host.
UploadPi(r) ==
    /\ At(r, "upload")
    /\ VmReady
    /\ vm' = [vm EXCEPT !.pi = "whole"]
    /\ Goto(r, "agent")
    /\ UNCHANGED <<startVars, exit, localVars, retry, needPi, broker, hostAgent,
                   tarball, fetched, alone, faults>>

\* Whatever agent-sandbox holds now.
UploadAgent(r) ==
    /\ At(r, "agent")
    /\ VmReady
    /\ vm' = [vm EXCEPT !.agent = hostAgent]
    /\ Goto(r, "check")
    /\ UNCHANGED <<startVars, exit, localVars, retry, needPi, broker, hostAgent,
                   tarball, fetched, alone, faults>>

\* Two probes for an executable file each.  What was cut short may have its
\* file or not; a failed exec reads as "missing".
CheckMarkers(r) ==
    /\ At(r, "check")
    /\ \E pi, node \in BOOLEAN :
         /\ pi => VmReady /\ vm.pi # "absent"
         /\ node => VmReady /\ vm.node # "absent"
         /\ needPi' = [needPi EXCEPT ![r] = ~pi]
         /\ Goto(r, IF ~node THEN "tarball" ELSE IF ~pi THEN "npm" ELSE "session")
    /\ UNCHANGED <<startVars, exit, localVars, retry, broker, hostAgent, tarball,
                   vm, fetched, alone, faults>>

\* A file that is there is used as it is; urlretrieve writes it in place.
FetchTarball(r) ==
    /\ At(r, "tarball")
    /\ tarball' = IF tarball = "absent" THEN "whole" ELSE tarball
    /\ Goto(r, "extract")
    /\ UNCHANGED <<startVars, exit, localVars, retry, needPi, broker, hostAgent, vm,
                   fetched, alone, faults>>

\* The result of the archive's upload is not looked at: what the machine has may
\* be nothing, part of it or, when the host's is whole, an earlier one.  tar of
\* anything but the whole fails: AbortProvisioning.
ExtractNode(r) ==
    /\ At(r, "extract")
    /\ VmReady /\ tarball = "whole"
    /\ vm' = [vm EXCEPT !.node = "whole"]
    /\ Goto(r, IF needPi[r] THEN "npm" ELSE "session")
    /\ UNCHANGED <<startVars, exit, localVars, retry, needPi, broker, hostAgent,
                   tarball, fetched, alone, faults>>

\* npm ci in /sandbox/support/pi, with whatever node the PATH leads to.
InstallPi(r) ==
    /\ At(r, "npm")
    /\ VmReady /\ vm.pi # "absent"
    /\ vm' = [vm EXCEPT !.pi = "whole"]
    /\ Goto(r, "session")
    /\ UNCHANGED <<startVars, exit, localVars, retry, needPi, broker, hostAgent,
                   tarball, fetched, alone, faults>>

\* The script in the machine runs Pi, which writes the trajectory, and ends
\* with Pi, or with a machine that broke or was deleted under it.
EndSandboxSession(r) ==
    /\ At(r, "session") /\ Sandboxed(r)
    /\ vm' = IF VmReady THEN [vm EXCEPT !.records = @ \cup {r}] ELSE vm
    /\ Goto(r, "fetch")
    /\ UNCHANGED <<startVars, exit, localVars, retry, needPi, broker, hostAgent,
                   tarball, fetched, alone, faults>>

\* fetch_sandbox_records: the download's exit status is not looked at; only a
\* timeout, which raises, skips the rm -rf that follows.
DownloadRecords(r) ==
    /\ At(r, "fetch")
    /\ \/ /\ VmReady
          /\ fetched' = fetched \cup (vm.records \cap {r})
          /\ Goto(r, "forget") /\ UNCHANGED faults
       \/ ~VmReady /\ Goto(r, "forget") /\ UNCHANGED <<fetched, faults>>
       \/ /\ faults < MaxFaults /\ faults' = faults + 1
          /\ Goto(r, "forget") \/ Goto(r, "finally")
          /\ UNCHANGED fetched
    /\ UNCHANGED <<startVars, exit, localVars, retry, needPi, broker, hostAgent,
                   tarball, vm, alone>>

ForgetRecords(r) ==
    /\ At(r, "forget")
    /\ \/ VmReady /\ vm' = [vm EXCEPT !.records = @ \ {r}]
       \/ ~VmReady /\ UNCHANGED vm
    /\ Goto(r, "finally")
    /\ UNCHANGED <<startVars, exit, localVars, retry, needPi, broker, hostAgent,
                   tarball, fetched, alone, faults>>

\* Mutant: only the broker is stopped.
FinishLeavesToken(r) ==
    /\ At(r, "finally")
    /\ broker' = [broker EXCEPT ![r] = IF @ = "running" THEN "stopped" ELSE @]
    /\ End(r, IF exit[r] = "none" THEN "ok" ELSE exit[r])
    /\ UNCHANGED <<startVars, localVars, retry, needPi, hostAgent, tarball, vm,
                   fetched, alone, faults>>

\* launch_sandboxed's finally: broker.stop, and the shim's config is unlinked,
\* whoever wrote it last.
FinishSandboxed(r) ==
    /\ At(r, "finally")
    /\ IF broker[r] = "running"
       THEN /\ broker' = [broker EXCEPT ![r] = "stopped"]
            /\ hostAgent' = [hostAgent EXCEPT !.token = NoOne]
       ELSE UNCHANGED <<broker, hostAgent>>
    /\ End(r, IF exit[r] = "none" THEN "ok" ELSE exit[r])
    /\ UNCHANGED <<startVars, localVars, retry, needPi, tarball, vm, fetched,
                   alone, faults>>

-----------------------------------------------------------------------------
(* Faults.                                                                 *)

\* SIGTERM, SIGKILL, or Ctrl-C outside a try: no cleanup runs.  The broker's
\* threads end with the process, and so does the call it is in.
Kill(r) ==
    /\ Running(r)
    /\ CutShort(r)
    /\ faults < MaxFaults /\ faults' = faults + 1
    /\ End(r, "killed")
    /\ broker' = [broker EXCEPT ![r] = IF @ = "running" THEN "stopped" ELSE @]
    /\ UNCHANGED <<startVars, localVars, retry, needPi, fetched, alone>>

\* The machine enters phase Error, which only a new one recovers from.
Wedge ==
    /\ VmReady
    /\ faults < MaxFaults /\ faults' = faults + 1
    /\ vm' = [vm EXCEPT !.phase = "error"]
    /\ UNCHANGED <<startVars, pc, exit, localVars, retry, needPi, broker, hostAgent,
                   tarball, fetched, alone>>

-----------------------------------------------------------------------------
Prepare(r) == MakeParent(r) \/ MakeRunDir(r) \/ SetModes(r) \/ WriteIgnore(r)
Cleanup(r) ==
    \/ RemoveRunDir(r) \/ ListLeftovers(r) \/ ScanParent(r) \/ UnlinkEntry(r)
    \/ RemoveParent(r)
Provision(r) ==
    \/ AbortProvisioning(r) \/ ProbeMachine(r) \/ CreateMachine(r)
    \/ RefreshPolicy(r) \/ WaitReady(r) \/ RecreateMachine(r) \/ RenderAgentDir(r)
    \/ UploadPi(r) \/ UploadAgent(r) \/ CheckMarkers(r) \/ FetchTarball(r)
    \/ ExtractNode(r) \/ InstallPi(r)
Finish(r) == DownloadRecords(r) \/ ForgetRecords(r) \/ FinishSandboxed(r)
Work(r) == Prepare(r) \/ Cleanup(r) \/ Provision(r) \/ Finish(r)

Next ==
    \/ \E r \in Launches :
         \/ \E b \in BOOLEAN : BeginLocal(r, b) \/ BeginSandboxed(r, b)
         \/ EndLocalSession(r) \/ EndSandboxSession(r)
         \/ Work(r) \/ Kill(r)
    \/ Wedge

\* pi-local's own steps are not held up for ever: each call it makes has a
\* timeout.  How long a person stays in Pi is nobody's business.
Fairness == \A r \in Launches : WF_vars(Work(r))

Spec == Init /\ [][Next]_vars /\ Fairness

-----------------------------------------------------------------------------
(* Properties.                                                             *)

Local(r) == kind[r] = "local"
Over(r) == pc[r] = "ended" /\ exit[r] # "killed"

\* A launch that ended left no scratch folder of its own, whatever other
\* launches created, listed and removed meanwhile; and once all are over, the
\* last of them has removed .pi-run: unless a run was to be kept, or one was
\* killed, or one lost its folder to another's cleanup before Pi started.
ScratchRemoved ==
    /\ \A r \in Launches : Local(r) /\ Over(r) /\ ~keep[r] => r \notin names
    /\ (\A r \in Launches : Local(r) => ~keep[r] /\ At(r, "ended") /\ exit[r] = "ok")
         => ~piRun

\* Pi starts in the machine only with the whole of Pi, with this launch's own
\* agent folder, its broker's token in it, and with a node, the machine being
\* new, reused or recreated and whatever earlier launches left half done; and
\* part of a node is taken for node only where a launch failed or was killed:
\* unless another sandboxed launch ran beside it.
SessionProvisioned ==
    \A r \in Launches : Sandboxed(r) /\ At(r, "session") /\ alone[r] =>
        /\ vm.pi = "whole"
        /\ vm.agent = [owner |-> r,
                       token |-> IF broker[r] = "running" THEN r ELSE NoOne]
        /\ \/ vm.node = "whole"
           \/ vm.node = "partial" /\ \E s \in Launches : exit[s] \in {"error", "killed"}

\* A broker and the token that opens it end with their launch, on every path:
\* no later launch uploads the token of one that is over.
BrokerEnds ==
    \A r \in Launches : Over(r) => broker[r] # "running" /\ hostAgent.token # r

\* Provisioning comes to a session or an error, a machine that wedges again
\* after being recreated included.
ProvisioningSettles ==
    \A r \in Launches : pc[r] \in ProvisionPcs ~> pc[r] \in SessionPcs \cup {"ended"}

\* What the documentation says of the trajectory: "downloaded to
\* .runtime/pi/runs/<run-id>/ when Pi exits".  The machine's copy, the only
\* other one, is removed only when the download has succeeded.
\* (The code breaks this: it ignores the exit status of the download.)
TrajectoryKept ==
    [][\A r \in Launches : ForgetRecords(r) /\ r \in vm.records => r \in fetched]_vars
=============================================================================
