----------------------------- MODULE PiLaunchProofs -----------------------------
(***************************************************************************)
(* Proofs about PiLaunch, for any set of launches and any number of faults.*)
(*                                                                         *)
(* The inductive invariant has a part for each promise.  Role says which   *)
(* launches can be where.  Broker follows a broker and its token.          *)
(* Provisioned follows the agent folder, node and Pi into the machine;     *)
(* Separate says whose work no other sandboxed launch can disturb, and     *)
(* HalfDone what a part of a node in the machine comes from.               *)
(* Scratch says which run folders there can be, and Caretaker that a       *)
(* .gitignore, hence a .pi-run, is never left without a launch that will   *)
(* still remove it or has given up for a reason.                           *)
(***************************************************************************)
EXTENDS PiLaunch, TLAPS

(***************************************************************************)
(* The inductive invariant.                                                *)
(***************************************************************************)

\* Which launches are where, and what has become of them.
Role(r) ==
    /\ pc[r] = "idle" <=> kind[r] = "none"
    /\ pc[r] \in PreparePcs \cup CleanupPcs => Local(r)
    /\ pc[r] \in ProvisionPcs \cup {"fetch", "forget", "finally"} => Sandboxed(r)
    /\ pc[r] \notin {"finally", "ended"} => exit[r] = "none"
    /\ pc[r] = "finally" => exit[r] \in {"none", "error"}

\* A broker runs as long as its launch does; the token in the host's agent folder
\* is that of a launch with a broker, or of one that was killed.
Broker(r) ==
    /\ broker[r] = "running" => Sandboxed(r) /\ Running(r)
    /\ hostAgent.token = r => broker[r] = "running" \/ (At(r, "ended") /\ exit[r] = "killed")

\* While a launch runs alone no other sandboxed one runs.
Separate ==
    \A r, s \in Launches :
        r # s /\ Sandboxed(r) /\ Running(r) /\ Sandboxed(s) /\ Running(s) => ~alone[r]

\* Part of a node is there only when a launch failed or was killed.
Failed(s) == exit[s] \in {"error", "killed"}

HalfDone == vm.node = "partial" => \E s \in Launches : Failed(s)

OwnAgent(r) == [owner |-> r, token |-> IF broker[r] = "running" THEN r ELSE NoOne]

\* Where a launch has its agent folder in the machine.
Equipped == {"check", "tarball", "extract", "npm", "session"}

\* What a launch that runs alone has brought into the machine so far.
Provisioned(r) ==
    Sandboxed(r) /\ alone[r] =>
        /\ pc[r] \in {"upload", "agent"} => hostAgent = OwnAgent(r)
        /\ pc[r] \in {"agent"} \cup Equipped => vm.pi = "whole"
        /\ pc[r] \in Equipped => vm.agent = OwnAgent(r)
        /\ pc[r] \in {"npm", "session"} => vm.node # "absent"

\* A run folder is that of a launch on the host that has made it and not come to
\* its removal, or that leaves it.
Scratch(r) ==
    r \in names =>
        /\ Local(r)
        /\ \/ pc[r] \in {"chmod", "ignore", "session", "rmtree"}
           \/ At(r, "ended") /\ (exit[r] = "killed" \/ keep[r])

\* A launch that has not yet listed .pi-run for removal, is to unlink the
\* .gitignore, or will never remove anything.
Caretaker(r) ==
    /\ Local(r)
    /\ \/ pc[r] \in PreparePcs \cup {"session", "rmtree", "list", "scan"}
       \/ At(r, "unlink") /\ Ignore \in seen[r]
       \/ At(r, "ended") /\ (exit[r] # "ok" \/ keep[r])

\* A launch that is not over, or did not end as it should, or keeps its files.
Pending(r) == Local(r) /\ (keep[r] \/ pc[r] # "ended" \/ exit[r] # "ok")

Parent ==
    /\ ~piRun => names = {}
    /\ Ignore \in names => \E r \in Launches : Caretaker(r)
    /\ piRun => \E r \in Launches : Pending(r)

IInv ==
    /\ TypeOK
    /\ \A r \in Launches : Role(r)
    /\ \A r \in Launches : Broker(r)
    /\ Separate
    /\ HalfDone
    /\ \A r \in Launches : Provisioned(r)
    /\ \A r \in Launches : Scratch(r)
    /\ Parent

(***************************************************************************)
(* Steps of a launch on the host, and of one in the machine.               *)
(***************************************************************************)
LocalWork(r) ==
    (\E b \in BOOLEAN : BeginLocal(r, b)) \/ EndLocalSession(r) \/ Prepare(r) \/ Cleanup(r)

SandboxWork(r) ==
    \/ \E b \in BOOLEAN : BeginSandboxed(r, b)
    \/ EndSandboxSession(r) \/ Provision(r) \/ Finish(r)

\* Whoever does not step keeps what is its own.
Keeps(s) ==
    /\ kind'[s] = kind[s] /\ keep'[s] = keep[s] /\ pc'[s] = pc[s] /\ exit'[s] = exit[s]
    /\ seen'[s] = seen[s] /\ needPi'[s] = needPi[s] /\ broker'[s] = broker[s]

\* The steps there are, sorted by where the launch runs.
LEMMA NextCases ==
    Next <=> Wedge \/ \E r \in Launches : LocalWork(r) \/ SandboxWork(r) \/ Kill(r)
BY DEF Next, LocalWork, SandboxWork, Work

Places == {"idle", "ended"} \cup PreparePcs \cup CleanupPcs \cup ProvisionPcs \cup SessionPcs
Ends == {"none", "ok", "error", "killed"}

\* A launch that goes somewhere leaves the types as they are ...
LEMMA GotoType ==
    ASSUME TypeOK, NEW r \in Launches, NEW step \in Places, Goto(r, step)
    PROVE  /\ pc' \in [Launches -> Places] /\ pc'[r] = step
           /\ \A s \in Launches : s # r => pc'[s] = pc[s]
BY DEF TypeOK, Goto, Places

\* ... and so does one that ends.
LEMMA EndType ==
    ASSUME TypeOK, NEW r \in Launches, NEW how \in Ends, End(r, how)
    PROVE  /\ pc' \in [Launches -> Places] /\ pc'[r] = "ended"
           /\ exit' \in [Launches -> Ends] /\ exit'[r] = how
           /\ \A s \in Launches : s # r => pc'[s] = pc[s] /\ exit'[s] = exit[s]
BY DEF TypeOK, Goto, End, Places, Ends

\* Before any launch the types are right.
LEMMA InitTypes == Init => TypeOK
<1> SUFFICES ASSUME Init PROVE TypeOK
  OBVIOUS
<1>1. /\ keep \in [Launches -> BOOLEAN] /\ retry \in [Launches -> BOOLEAN]
      /\ needPi \in [Launches -> BOOLEAN]
  BY DEF Init
<1>2. alone \in [Launches -> BOOLEAN]
  BY DEF Init
<1>3. vm \in Machines /\ hostAgent \in AgentDirs
  BY DEF Init, Machines, AgentDirs, NoMachine, NoAgentDir, Markers
<1>4. tarball \in Markers
  BY DEF Init, Markers
<1>5. piRun \in BOOLEAN
  BY DEF Init
<1>6. /\ kind \in [Launches -> {"none", "local", "sandbox"}]
      /\ pc \in [Launches -> Places] /\ exit \in [Launches -> Ends]
      /\ broker \in [Launches -> {"none", "running", "stopped"}]
      /\ seen \in [Launches -> SUBSET (Launches \cup {Ignore})]
      /\ names \subseteq Launches \cup {Ignore} /\ fetched \subseteq Launches
      /\ faults \in 0 .. MaxFaults
  BY BoundAssumption DEF Init, Places, Ends
<1>7. QED
  BY <1>1, <1>2, <1>3, <1>4, <1>5, <1>6 DEF TypeOK, Places, Ends

\* The local steps.
LEMMA LocalTypes ==
    ASSUME TypeOK, NEW r \in Launches, LocalWork(r)
    PROVE  TypeOK'
<1> DEFINE Parts ==
             /\ kind' \in [Launches -> {"none", "local", "sandbox"}]
             /\ keep' \in [Launches -> BOOLEAN]
             /\ pc' \in [Launches -> Places]
             /\ exit' \in [Launches -> Ends]
             /\ names' \subseteq Launches \cup {Ignore}
             /\ seen' \in [Launches -> SUBSET (Launches \cup {Ignore})]
             /\ UNCHANGED <<retry, needPi, broker, hostAgent, tarball, vm, fetched, alone, faults>>
<1>0. piRun' \in BOOLEAN
  BY DEF LocalWork, BeginLocal, EndLocalSession, Prepare, Cleanup, MakeParent, MakeRunDir,
     SetModes, WriteIgnore, RemoveRunDir, ListLeftovers, ScanParent, UnlinkEntry,
     RemoveParent, localVars, TypeOK
<1>1. SUFFICES Parts
  BY <1>0 DEF TypeOK, Places, Ends
<1> USE DEF startVars, localVars, sandboxVars
<1>2. ASSUME NEW b \in BOOLEAN, BeginLocal(r, b) PROVE Parts
  <2>1. pc' \in [Launches -> Places]
    BY <1>2, GotoType DEF BeginLocal, Places, PreparePcs
  <2>2. keep' \in [Launches -> BOOLEAN]
    BY <1>2 DEF BeginLocal, TypeOK
  <2>3. QED
    BY <1>2, <2>1, <2>2 DEF BeginLocal, TypeOK, Ends
<1>3. CASE EndLocalSession(r)
  <2>1. CASE keep[r]
    <3>1. pc' \in [Launches -> Places] /\ exit' \in [Launches -> Ends]
      BY <1>3, <2>1, EndType DEF EndLocalSession, Ends
    <3>2. QED
      BY <1>3, <3>1 DEF EndLocalSession, TypeOK
  <2>2. CASE ~keep[r]
    <3>1. pc' \in [Launches -> Places]
      BY <1>3, <2>2, GotoType DEF EndLocalSession, Places, CleanupPcs
    <3>2. QED
      BY <1>3, <2>2, <3>1 DEF EndLocalSession, TypeOK, Ends
  <2>3. QED
    BY <2>1, <2>2
<1>4. CASE MakeParent(r)
  <2>1. pc' \in [Launches -> Places]
    BY <1>4, GotoType DEF MakeParent, Places, PreparePcs
  <2>2. QED
    BY <1>4, <2>1 DEF MakeParent, TypeOK, Ends
<1>5. CASE MakeRunDir(r)
  <2>1. CASE piRun
    <3>1. pc' \in [Launches -> Places]
      BY <1>5, <2>1, GotoType DEF MakeRunDir, Places, PreparePcs
    <3>2. QED
      BY <1>5, <2>1, <3>1 DEF MakeRunDir, TypeOK, Ends
  <2>2. CASE ~piRun
    <3>1. pc' \in [Launches -> Places] /\ exit' \in [Launches -> Ends]
      BY <1>5, <2>2, EndType DEF MakeRunDir, Ends
    <3>2. QED
      BY <1>5, <2>2, <3>1 DEF MakeRunDir, TypeOK
  <2>3. QED
    BY <2>1, <2>2
<1>6. CASE SetModes(r)
  <2>1. CASE r \in names
    <3>1. pc' \in [Launches -> Places]
      BY <1>6, <2>1, GotoType DEF SetModes, Places, PreparePcs
    <3>2. QED
      BY <1>6, <2>1, <3>1 DEF SetModes, TypeOK, Ends
  <2>2. CASE r \notin names
    <3>1. pc' \in [Launches -> Places] /\ exit' \in [Launches -> Ends]
      BY <1>6, <2>2, EndType DEF SetModes, Ends
    <3>2. QED
      BY <1>6, <2>2, <3>1 DEF SetModes, TypeOK
  <2>3. QED
    BY <2>1, <2>2
<1>7. CASE WriteIgnore(r)
  <2>1. CASE piRun
    <3>1. pc' \in [Launches -> Places]
      BY <1>7, <2>1, GotoType DEF WriteIgnore, Places, SessionPcs
    <3>2. QED
      BY <1>7, <2>1, <3>1 DEF WriteIgnore, TypeOK, Ends
  <2>2. CASE ~piRun
    <3>1. pc' \in [Launches -> Places] /\ exit' \in [Launches -> Ends]
      BY <1>7, <2>2, EndType DEF WriteIgnore, Ends
    <3>2. QED
      BY <1>7, <2>2, <3>1 DEF WriteIgnore, TypeOK
  <2>3. QED
    BY <2>1, <2>2
<1>8. CASE RemoveRunDir(r)
  <2>1. pc' \in [Launches -> Places]
    BY <1>8, GotoType DEF RemoveRunDir, Places, CleanupPcs
  <2>2. QED
    BY <1>8, <2>1 DEF RemoveRunDir, TypeOK, Ends
<1>9. CASE ListLeftovers(r)
  <2>1. CASE piRun /\ Leftovers(names) = {}
    <3>1. pc' \in [Launches -> Places]
      BY <1>9, <2>1, GotoType DEF ListLeftovers, Places, CleanupPcs
    <3>2. QED
      BY <1>9, <2>1, <3>1 DEF ListLeftovers, TypeOK, Ends
  <2>2. CASE ~(piRun /\ Leftovers(names) = {})
    <3>1. pc' \in [Launches -> Places] /\ exit' \in [Launches -> Ends]
      BY <1>9, <2>2, EndType DEF ListLeftovers, Ends
    <3>2. QED
      BY <1>9, <3>1 DEF ListLeftovers, TypeOK
  <2>3. QED
    BY <2>1, <2>2
<1>10. CASE ScanParent(r)
  <2>1. pc' \in [Launches -> Places]
    BY <1>10, GotoType DEF ScanParent, Places, CleanupPcs
  <2>2. seen' \in [Launches -> SUBSET (Launches \cup {Ignore})]
    BY <1>10 DEF ScanParent, TypeOK
  <2>3. QED
    BY <1>10, <2>1, <2>2 DEF ScanParent, TypeOK, Ends
<1>11. CASE UnlinkEntry(r)
  <2>1. CASE seen[r] = {} /\ Goto(r, "rmdir") /\ UNCHANGED <<names, seen>>
    <3>1. pc' \in [Launches -> Places]
      BY <2>1, GotoType DEF Places, CleanupPcs
    <3>2. QED
      BY <1>11, <2>1, <3>1 DEF UnlinkEntry, TypeOK, Ends
  <2>2. CASE ~(seen[r] = {} /\ Goto(r, "rmdir") /\ UNCHANGED <<names, seen>>)
    <3>1. PICK n \in seen[r] :
            /\ seen' = [seen EXCEPT ![r] = seen[r] \ {n}]
            /\ names' = names \ {n} \/ UNCHANGED names
            /\ UNCHANGED pc
      BY <1>11, <2>2 DEF UnlinkEntry
    <3>2. seen' \in [Launches -> SUBSET (Launches \cup {Ignore})]
      BY <3>1 DEF TypeOK
    <3>3. names' \subseteq Launches \cup {Ignore}
      BY <3>1 DEF TypeOK
    <3>4. QED
      BY <1>11, <3>1, <3>2, <3>3 DEF UnlinkEntry, TypeOK, Ends, Places
  <2>3. QED
    BY <2>1, <2>2
<1>12. CASE RemoveParent(r)
  <2>1. pc' \in [Launches -> Places] /\ exit' \in [Launches -> Ends]
    BY <1>12, EndType DEF RemoveParent, Ends
  <2>2. QED
    BY <1>12, <2>1 DEF RemoveParent, TypeOK
<1>13. QED
  BY <1>2, <1>3, <1>4, <1>5, <1>6, <1>7, <1>8, <1>9, <1>10, <1>11, <1>12
     DEF LocalWork, Prepare, Cleanup

\* The ways the machine changes.
LEMMA MachineTypes ==
    ASSUME vm \in Machines, hostAgent \in AgentDirs, NEW r \in Launches
    PROVE  /\ NoMachine \in Machines /\ FreshMachine(r) \in Machines
           /\ [vm EXCEPT !.policy = r] \in Machines
           /\ [vm EXCEPT !.agent = hostAgent] \in Machines
           /\ [vm EXCEPT !.agent = NoAgentDir] \in Machines
           /\ [vm EXCEPT !.node = "whole"] \in Machines
           /\ [vm EXCEPT !.node = "partial"] \in Machines
           /\ [vm EXCEPT !.pi = "whole"] \in Machines
           /\ [vm EXCEPT !.pi = "partial"] \in Machines
           /\ [vm EXCEPT !.records = vm.records \cup {r}] \in Machines
           /\ [vm EXCEPT !.records = vm.records \ {r}] \in Machines
<1>1. NoMachine \in Machines /\ FreshMachine(r) \in Machines
  BY DEF Machines, AgentDirs, NoMachine, NoAgentDir, FreshMachine, Markers
<1>2. vm = [phase |-> vm.phase, policy |-> vm.policy, agent |-> vm.agent, pi |-> vm.pi,
            node |-> vm.node, records |-> vm.records]
  BY DEF Machines
<1>3. /\ vm.phase \in {"none", "ready", "error"} /\ vm.policy \in Launches \cup {NoOne}
      /\ vm.agent \in AgentDirs /\ vm.node \in Markers
      /\ vm.pi \in Markers /\ vm.records \subseteq Launches
  BY DEF Machines
<1>4. /\ [vm EXCEPT !.policy = r] \in Machines
      /\ [vm EXCEPT !.agent = hostAgent] \in Machines
      /\ [vm EXCEPT !.agent = NoAgentDir] \in Machines
  BY <1>2, <1>3 DEF Machines, AgentDirs, NoAgentDir
<1>5. /\ [vm EXCEPT !.node = "whole"] \in Machines
      /\ [vm EXCEPT !.node = "partial"] \in Machines
      /\ [vm EXCEPT !.pi = "whole"] \in Machines
      /\ [vm EXCEPT !.pi = "partial"] \in Machines
  BY <1>2, <1>3 DEF Machines, Markers
<1>6. /\ [vm EXCEPT !.records = vm.records \cup {r}] \in Machines
      /\ [vm EXCEPT !.records = vm.records \ {r}] \in Machines
  BY <1>2, <1>3 DEF Machines
<1>7. QED
  BY <1>1, <1>4, <1>5, <1>6

\* A call that is cut short leaves something of its type.
LEMMA CutShortTypes ==
    ASSUME TypeOK, NEW r \in Launches, CutShort(r)
    PROVE  vm' \in Machines /\ hostAgent' \in AgentDirs /\ tarball' \in Markers
<1>1. vm \in Machines /\ hostAgent \in AgentDirs /\ tarball \in Markers
  BY DEF TypeOK
<1>2. vm' \in Machines
  BY <1>1, MachineTypes DEF CutShort
<1>3. hostAgent' \in AgentDirs /\ tarball' \in Markers
  BY <1>1 DEF CutShort, AgentDirs, NoAgentDir, Markers
<1>4. QED
  BY <1>2, <1>3

\* The sandbox steps leave a machine, whatever they do to it ...
LEMMA MachineKept ==
    ASSUME TypeOK, NEW r \in Launches, SandboxWork(r)
    PROVE  vm' \in Machines
<1>1. vm \in Machines /\ hostAgent \in AgentDirs
  BY DEF TypeOK
<1>2. CASE CreateMachine(r) \/ RefreshPolicy(r) \/ RecreateMachine(r)
  BY <1>1, <1>2, MachineTypes DEF CreateMachine, RefreshPolicy, RecreateMachine
<1>3. CASE UploadPi(r) \/ UploadAgent(r) \/ ExtractNode(r) \/ InstallPi(r)
  BY <1>1, <1>3, MachineTypes DEF UploadPi, UploadAgent, ExtractNode, InstallPi
<1>4. CASE EndSandboxSession(r) \/ ForgetRecords(r)
  BY <1>1, <1>4, MachineTypes DEF EndSandboxSession, ForgetRecords
<1>5. CASE \/ \E b \in BOOLEAN : BeginSandboxed(r, b)
           \/ ProbeMachine(r) \/ WaitReady(r) \/ RenderAgentDir(r)
           \/ CheckMarkers(r) \/ FetchTarball(r) \/ DownloadRecords(r) \/ FinishSandboxed(r)
  BY <1>1, <1>5 DEF BeginSandboxed, ProbeMachine, WaitReady, RenderAgentDir, CheckMarkers,
     FetchTarball, DownloadRecords, FinishSandboxed, sandboxVars
<1>6. CASE AbortProvisioning(r)
  BY <1>6, CutShortTypes DEF AbortProvisioning
<1>7. QED
  BY <1>2, <1>3, <1>4, <1>5, <1>6 DEF SandboxWork, Provision, Finish

\* ... and an agent folder with an owner and a token.
LEMMA AgentDirKept ==
    ASSUME TypeOK, NEW r \in Launches, SandboxWork(r)
    PROVE  hostAgent' \in AgentDirs
<1>1. hostAgent \in AgentDirs
  BY DEF TypeOK
<1>2. CASE RenderAgentDir(r)
  BY <1>2 DEF RenderAgentDir, AgentDirs
<1>3. CASE FinishSandboxed(r)
  <2>1. [hostAgent EXCEPT !.token = NoOne] \in AgentDirs
    BY <1>1 DEF AgentDirs
  <2>2. QED
    BY <1>1, <1>3, <2>1 DEF FinishSandboxed
<1>4. CASE AbortProvisioning(r)
  BY <1>4, CutShortTypes DEF AbortProvisioning
<1>5. CASE ~RenderAgentDir(r) /\ ~FinishSandboxed(r) /\ ~AbortProvisioning(r)
  BY <1>1, <1>5 DEF SandboxWork, Provision, Finish, BeginSandboxed, ProbeMachine,
     CreateMachine, RefreshPolicy, WaitReady, RecreateMachine, UploadPi, UploadAgent,
     CheckMarkers, FetchTarball, ExtractNode, InstallPi, EndSandboxSession, DownloadRecords,
     ForgetRecords, sandboxVars
<1>6. QED
  BY <1>2, <1>3, <1>4, <1>5

\* The sandbox steps keep the types.
LEMMA SandboxTypes ==
    ASSUME TypeOK, NEW r \in Launches, SandboxWork(r)
    PROVE  TypeOK'
<1>1. vm' \in Machines /\ hostAgent' \in AgentDirs
  BY MachineKept, AgentDirKept
<1>2. UNCHANGED <<keep, piRun, names, seen>>
  BY DEF SandboxWork, Provision, Finish, BeginSandboxed, AbortProvisioning, ProbeMachine,
     CreateMachine, RefreshPolicy, WaitReady, RecreateMachine, RenderAgentDir, UploadPi,
     UploadAgent, CheckMarkers, FetchTarball, ExtractNode, InstallPi, EndSandboxSession,
     DownloadRecords, ForgetRecords, FinishSandboxed, localVars, startVars
<1>3. /\ kind' \in [Launches -> {"none", "local", "sandbox"}]
      /\ broker' \in [Launches -> {"none", "running", "stopped"}]
  <2>1. CASE \E b \in BOOLEAN : BeginSandboxed(r, b)
    BY <2>1 DEF BeginSandboxed, TypeOK
  <2>2. CASE FinishSandboxed(r)
    BY <2>2 DEF FinishSandboxed, TypeOK, startVars
  <2>3. CASE ~(\E b \in BOOLEAN : BeginSandboxed(r, b)) /\ ~FinishSandboxed(r)
    <3>1. UNCHANGED <<kind, broker>>
      BY <2>3 DEF SandboxWork, Provision, Finish, AbortProvisioning, ProbeMachine,
     CreateMachine, RefreshPolicy, WaitReady, RecreateMachine, RenderAgentDir, UploadPi,
     UploadAgent, CheckMarkers, FetchTarball, ExtractNode, InstallPi, EndSandboxSession,
     DownloadRecords, ForgetRecords, startVars, sandboxVars
    <3>2. QED
      BY <3>1 DEF TypeOK
  <2>4. QED
    BY <2>1, <2>2, <2>3
<1>4. alone' \in [Launches -> BOOLEAN]
  <2>1. CASE \E b \in BOOLEAN : BeginSandboxed(r, b)
    BY <2>1 DEF BeginSandboxed
  <2>2. CASE ~ \E b \in BOOLEAN : BeginSandboxed(r, b)
    <3>1. UNCHANGED alone
      BY <2>2 DEF SandboxWork, Provision, Finish, AbortProvisioning, ProbeMachine,
     CreateMachine, RefreshPolicy, WaitReady, RecreateMachine, RenderAgentDir, UploadPi,
     UploadAgent, CheckMarkers, FetchTarball, ExtractNode, InstallPi, EndSandboxSession,
     DownloadRecords, ForgetRecords, FinishSandboxed, sandboxVars
    <3>2. QED
      BY <3>1 DEF TypeOK
  <2>3. QED
    BY <2>1, <2>2
<1>5. retry' \in [Launches -> BOOLEAN]
  <2>1. UNCHANGED retry \/ retry' = [retry EXCEPT ![r] = FALSE]
    BY DEF SandboxWork, Provision, Finish, BeginSandboxed, AbortProvisioning, ProbeMachine,
       CreateMachine, RefreshPolicy, WaitReady, RecreateMachine, RenderAgentDir, UploadPi,
       UploadAgent, CheckMarkers, FetchTarball, ExtractNode, InstallPi, EndSandboxSession,
       DownloadRecords, ForgetRecords, FinishSandboxed, sandboxVars
  <2>2. QED
    BY <2>1 DEF TypeOK
<1>6. needPi' \in [Launches -> BOOLEAN]
  <2>1. CASE CheckMarkers(r)
    BY <2>1 DEF CheckMarkers, TypeOK
  <2>2. CASE ~CheckMarkers(r)
    <3>1. UNCHANGED needPi
      BY <2>2 DEF SandboxWork, Provision, Finish, BeginSandboxed, AbortProvisioning,
         ProbeMachine,
     CreateMachine, RefreshPolicy, WaitReady, RecreateMachine, RenderAgentDir, UploadPi,
     UploadAgent, FetchTarball, ExtractNode, InstallPi, EndSandboxSession,
     DownloadRecords, ForgetRecords, FinishSandboxed, sandboxVars
    <3>2. QED
      BY <3>1 DEF TypeOK
  <2>3. QED
    BY <2>1, <2>2
<1>7. tarball' \in Markers
  <2>1. CASE AbortProvisioning(r)
    BY <2>1, CutShortTypes DEF AbortProvisioning
  <2>2. CASE ~AbortProvisioning(r)
    <3>1. UNCHANGED tarball \/ tarball' = "whole"
      BY <2>2 DEF SandboxWork, Provision, Finish, BeginSandboxed, ProbeMachine,
         CreateMachine, RefreshPolicy, WaitReady, RecreateMachine, RenderAgentDir, UploadPi,
         UploadAgent, CheckMarkers, FetchTarball, ExtractNode, InstallPi, EndSandboxSession,
         DownloadRecords, ForgetRecords, FinishSandboxed, sandboxVars
    <3>2. QED
      BY <3>1 DEF TypeOK, Markers
  <2>3. QED
    BY <2>1, <2>2
<1>8. fetched' \subseteq Launches /\ faults' \in 0 .. MaxFaults
  <2>1. /\ UNCHANGED fetched \/ fetched' = fetched \cup (vm.records \cap {r})
        /\ UNCHANGED faults \/ (faults < MaxFaults /\ faults' = faults + 1)
    BY DEF SandboxWork, Provision, Finish, BeginSandboxed, AbortProvisioning, ProbeMachine,
       CreateMachine, RefreshPolicy, WaitReady, RecreateMachine, RenderAgentDir, UploadPi,
       UploadAgent, CheckMarkers, FetchTarball, ExtractNode, InstallPi, EndSandboxSession,
       DownloadRecords, ForgetRecords, FinishSandboxed, sandboxVars
  <2>2. QED
    BY <2>1, BoundAssumption DEF TypeOK
<1>9. pc' \in [Launches -> Places]
  <2>1. \E step \in Places : Goto(r, step)
    BY DEF SandboxWork, Provision, Finish, BeginSandboxed, AbortProvisioning, ProbeMachine,
       CreateMachine, RefreshPolicy, WaitReady, RecreateMachine, RenderAgentDir, UploadPi,
       UploadAgent, CheckMarkers, FetchTarball, ExtractNode, InstallPi, EndSandboxSession,
       DownloadRecords, ForgetRecords, FinishSandboxed, End, Places, ProvisionPcs,
       SessionPcs
  <2>2. QED
    BY <2>1, GotoType
<1>10. exit' \in [Launches -> Ends]
  <2>1. \/ UNCHANGED exit \/ exit' = [exit EXCEPT ![r] = "error"]
        \/ exit' = [exit EXCEPT ![r] = IF exit[r] = "none" THEN "ok" ELSE exit[r]]
    BY DEF SandboxWork, Provision, Finish, BeginSandboxed, AbortProvisioning, ProbeMachine,
       CreateMachine, RefreshPolicy, WaitReady, RecreateMachine, RenderAgentDir, UploadPi,
       UploadAgent, CheckMarkers, FetchTarball, ExtractNode, InstallPi, EndSandboxSession,
       DownloadRecords, ForgetRecords, FinishSandboxed, End
  <2>2. QED
    BY <2>1 DEF TypeOK, Ends
<1>11. piRun' \in BOOLEAN
  BY <1>2 DEF TypeOK
<1>12. QED
  BY <1>1, <1>2, <1>3, <1>4, <1>5, <1>6, <1>7, <1>8, <1>9, <1>10, <1>11
     DEF TypeOK, Places, Ends

\* Every step keeps the types.
LEMMA TypeStep ==
    ASSUME TypeOK, [Next]_vars
    PROVE  TypeOK'
<1>1. ASSUME NEW r \in Launches, Kill(r) PROVE TypeOK'
  <2>1. pc' \in [Launches -> Places] /\ exit' \in [Launches -> Ends]
    BY <1>1, EndType DEF Kill, Ends
  <2>2. broker' \in [Launches -> {"none", "running", "stopped"}]
    BY <1>1 DEF Kill, TypeOK
  <2>3. faults' \in 0 .. MaxFaults
    BY <1>1, BoundAssumption DEF Kill, TypeOK
  <2>4. UNCHANGED piRun
    BY <1>1 DEF Kill, localVars
  <2>5. vm' \in Machines /\ hostAgent' \in AgentDirs /\ tarball' \in Markers
    BY <1>1, CutShortTypes DEF Kill
  <2>6. QED
    BY <1>1, <2>1, <2>2, <2>3, <2>4, <2>5
       DEF Kill, TypeOK, Places, Ends, startVars, localVars
<1>2. CASE Wedge
  <2>1. vm' \in Machines
    <3>1. vm \in Machines
      BY DEF TypeOK
    <3>2. [vm EXCEPT !.phase = "error"] \in Machines
      BY <3>1 DEF Machines
    <3>3. QED
      BY <1>2, <3>2 DEF Wedge
  <2>2. faults' \in 0 .. MaxFaults
    BY <1>2, BoundAssumption DEF Wedge, TypeOK
  <2>3. UNCHANGED piRun
    BY <1>2 DEF Wedge, localVars
  <2>4. QED
    BY <1>2, <2>1, <2>2, <2>3 DEF Wedge, TypeOK, startVars, localVars
<1>3. CASE UNCHANGED vars
  BY <1>3 DEF vars, startVars, localVars, sandboxVars, TypeOK
<1>4. QED
  BY <1>1, <1>2, <1>3, LocalTypes, SandboxTypes, NextCases

(***************************************************************************)
(* Who does what.                                                          *)
(***************************************************************************)

\* What a launch on the host keeps of its own, and of everybody's machine.
LEMMA LocalKeeps ==
    ASSUME TypeOK, NEW r \in Launches, Role(r), LocalWork(r)
    PROVE  /\ Local(r)' /\ ~Sandboxed(r)
           /\ UNCHANGED <<retry, needPi, broker, hostAgent, tarball, vm, fetched, alone, faults>>
           /\ \A s \in Launches : s # r => Keeps(s)
<1>1. UNCHANGED <<retry, needPi, broker, hostAgent, tarball, vm, fetched, alone, faults>>
  BY DEF LocalWork, Prepare, Cleanup, BeginLocal, MakeParent, MakeRunDir, SetModes,
     WriteIgnore, EndLocalSession, RemoveRunDir, ListLeftovers, ScanParent, UnlinkEntry,
     RemoveParent, sandboxVars
<1>2. Local(r)' /\ ~Sandboxed(r)
  <2>1. CASE \E b \in BOOLEAN : BeginLocal(r, b)
    BY <2>1 DEF BeginLocal, TypeOK, Local, Sandboxed, Role, At
  <2>2. CASE ~ \E b \in BOOLEAN : BeginLocal(r, b)
    <3>1. UNCHANGED kind
      BY <2>2 DEF LocalWork, Prepare, Cleanup, MakeParent, MakeRunDir, SetModes,
         WriteIgnore, EndLocalSession, RemoveRunDir, ListLeftovers, ScanParent, UnlinkEntry,
         RemoveParent, startVars
    <3>2. pc[r] \in PreparePcs \cup CleanupPcs \/ kind[r] = "local"
      BY <2>2 DEF LocalWork, Prepare, Cleanup, MakeParent, MakeRunDir, SetModes,
         WriteIgnore, EndLocalSession, RemoveRunDir, ListLeftovers, ScanParent, UnlinkEntry,
         RemoveParent, At, PreparePcs, CleanupPcs
    <3>3. QED
      BY <3>1, <3>2 DEF Role, Local, Sandboxed
  <2>3. QED
    BY <2>1, <2>2
<1>3. ASSUME NEW s \in Launches, s # r PROVE Keeps(s)
  <2>1. kind'[s] = kind[s] /\ keep'[s] = keep[s]
    BY <1>3 DEF LocalWork, Prepare, Cleanup, BeginLocal, MakeParent, MakeRunDir, SetModes,
     WriteIgnore, EndLocalSession, RemoveRunDir, ListLeftovers, ScanParent, UnlinkEntry,
     RemoveParent, startVars, TypeOK
  <2>2. pc'[s] = pc[s] /\ exit'[s] = exit[s]
    BY <1>3 DEF LocalWork, Prepare, Cleanup, BeginLocal, MakeParent, MakeRunDir, SetModes,
     WriteIgnore, EndLocalSession, RemoveRunDir, ListLeftovers, ScanParent, UnlinkEntry,
     RemoveParent, Goto, End, TypeOK
  <2>3. seen'[s] = seen[s]
    BY <1>3 DEF LocalWork, Prepare, Cleanup, BeginLocal, MakeParent, MakeRunDir, SetModes,
     WriteIgnore, EndLocalSession, RemoveRunDir, ListLeftovers, ScanParent, UnlinkEntry,
     RemoveParent, localVars, TypeOK
  <2>4. QED
    BY <1>1, <2>1, <2>2, <2>3 DEF Keeps
<1>4. QED
  BY <1>1, <1>2, <1>3

\* What a sandboxed launch keeps of the scratch folders and of the others.
LEMMA SandboxKeeps ==
    ASSUME TypeOK, NEW r \in Launches, Role(r), SandboxWork(r)
    PROVE  /\ Sandboxed(r)' /\ ~Local(r)
           /\ UNCHANGED <<keep, piRun, names, seen>>
           /\ \A s \in Launches : s # r => Keeps(s)
<1>1. UNCHANGED <<keep, piRun, names, seen>>
  BY DEF SandboxWork, Provision, Finish, BeginSandboxed, AbortProvisioning, ProbeMachine,
     CreateMachine, RefreshPolicy, WaitReady, RecreateMachine, RenderAgentDir, UploadPi,
     UploadAgent, CheckMarkers, FetchTarball, ExtractNode, InstallPi, EndSandboxSession,
     DownloadRecords, ForgetRecords, FinishSandboxed, localVars, startVars
<1>2. Sandboxed(r)' /\ ~Local(r)
  <2>1. CASE \E b \in BOOLEAN : BeginSandboxed(r, b)
    BY <2>1 DEF BeginSandboxed, TypeOK, Local, Sandboxed, Role, At
  <2>2. CASE ~ \E b \in BOOLEAN : BeginSandboxed(r, b)
    <3>1. UNCHANGED kind
      BY <2>2 DEF SandboxWork, Provision, Finish, AbortProvisioning, ProbeMachine,
     CreateMachine, RefreshPolicy, WaitReady, RecreateMachine, RenderAgentDir, UploadPi,
     UploadAgent, CheckMarkers, FetchTarball, ExtractNode, InstallPi, EndSandboxSession,
     DownloadRecords, ForgetRecords, FinishSandboxed, startVars
    <3>2. pc[r] \in ProvisionPcs \cup {"fetch", "forget", "finally"} \/ kind[r] = "sandbox"
      BY <2>2 DEF SandboxWork, Provision, Finish, AbortProvisioning, ProbeMachine,
     CreateMachine, RefreshPolicy, WaitReady, RecreateMachine, RenderAgentDir, UploadPi,
     UploadAgent, CheckMarkers, FetchTarball, ExtractNode, InstallPi, EndSandboxSession,
     DownloadRecords, ForgetRecords, FinishSandboxed, At, ProvisionPcs, Sandboxed
    <3>3. QED
      BY <3>1, <3>2 DEF Role, Local, Sandboxed
  <2>3. QED
    BY <2>1, <2>2
<1>3. ASSUME NEW s \in Launches, s # r PROVE Keeps(s)
  <2>1. kind'[s] = kind[s] /\ broker'[s] = broker[s]
    BY <1>3 DEF SandboxWork, Provision, Finish, BeginSandboxed, AbortProvisioning,
       ProbeMachine, CreateMachine, RefreshPolicy, WaitReady, RecreateMachine,
       RenderAgentDir, UploadPi, UploadAgent, CheckMarkers, FetchTarball, ExtractNode,
       InstallPi, EndSandboxSession, DownloadRecords, ForgetRecords, FinishSandboxed,
       startVars, sandboxVars, TypeOK
  <2>2. pc'[s] = pc[s] /\ exit'[s] = exit[s]
    BY <1>3 DEF SandboxWork, Provision, Finish, BeginSandboxed, AbortProvisioning,
       ProbeMachine, CreateMachine, RefreshPolicy, WaitReady, RecreateMachine,
       RenderAgentDir, UploadPi, UploadAgent, CheckMarkers, FetchTarball, ExtractNode,
       InstallPi, EndSandboxSession, DownloadRecords, ForgetRecords, FinishSandboxed, Goto,
       End, TypeOK
  <2>3. needPi'[s] = needPi[s]
    BY <1>3 DEF SandboxWork, Provision, Finish, BeginSandboxed, AbortProvisioning,
       ProbeMachine, CreateMachine, RefreshPolicy, WaitReady, RecreateMachine,
       RenderAgentDir, UploadPi, UploadAgent, CheckMarkers, FetchTarball, ExtractNode,
       InstallPi, EndSandboxSession, DownloadRecords, ForgetRecords, FinishSandboxed,
       sandboxVars, TypeOK
  <2>4. QED
    BY <1>1, <2>1, <2>2, <2>3 DEF Keeps
<1>4. QED
  BY <1>1, <1>2, <1>3

(***************************************************************************)
(* The scratch folders.                                                    *)
(***************************************************************************)

\* A folder that is there is cared for.
LEMMA FolderCared ==
    ASSUME NEW n \in Launches, n \in names, Scratch(n)
    PROVE  Caretaker(n)
BY DEF Scratch, Caretaker, At, PreparePcs

\* Whoever may still remove a folder is pending.
LEMMA CareIsPending ==
    ASSUME NEW n \in Launches, Caretaker(n) PROVE Pending(n)
BY DEF Caretaker, Pending, At, PreparePcs

\* What a launch leaves alone does not change what the others answer for.
LEMMA OthersCare ==
    ASSUME NEW s \in Launches, Keeps(s)
    PROVE  (Caretaker(s) => Caretaker(s)') /\ (Pending(s) => Pending(s)')
BY DEF Keeps, Caretaker, Pending, Local, At

\* What a step of r has to show for Parent.
LEMMA ParentKept ==
    ASSUME Parent, NEW r \in Launches, \A s \in Launches : s # r => Keeps(s),
           ~piRun' => names' = {},
           Ignore \in names' =>
               \/ Caretaker(r)'
               \/ Ignore \in names /\ ~Caretaker(r)
               \/ \E s \in Launches : s # r /\ Caretaker(s),
           piRun' =>
               \/ Pending(r)'
               \/ piRun /\ ~Pending(r)
               \/ \E s \in Launches : s # r /\ Pending(s)
    PROVE  Parent'
<1>1. ASSUME Ignore \in names' PROVE \E s \in Launches : Caretaker(s)'
  <2>1. CASE \E s \in Launches : s # r /\ Caretaker(s)
    BY <2>1, OthersCare
  <2>2. CASE Ignore \in names /\ ~Caretaker(r)
    <3>1. \E s \in Launches : s # r /\ Caretaker(s)
      BY <2>2 DEF Parent
    <3>2. QED
      BY <3>1, OthersCare
  <2>3. QED
    BY <1>1, <2>1, <2>2
<1>2. ASSUME piRun' PROVE \E s \in Launches : Pending(s)'
  <2>1. CASE \E s \in Launches : s # r /\ Pending(s)
    BY <2>1, OthersCare
  <2>2. CASE piRun /\ ~Pending(r)
    <3>1. \E s \in Launches : s # r /\ Pending(s)
      BY <2>2 DEF Parent
    <3>2. QED
      BY <3>1, OthersCare
  <2>3. QED
    BY <1>2, <2>1, <2>2
<1>3. QED
  BY <1>1, <1>2 DEF Parent

\* The scratch folder of another launch.
LEMMA OthersScratch ==
    ASSUME NEW s \in Launches, Scratch(s), Keeps(s), s \in names' => s \in names
    PROVE  Scratch(s)'
BY DEF Scratch, Keeps, Local, At

\* What a launch on the host has to show: where it goes, its own folder, and the
\* parent folder.
HostPart(r) == Role(r)' /\ Scratch(r)' /\ Parent'

\* A launch that goes on, or ends otherwise than well, still cares for .pi-run.
LEMMA StillCares ==
    ASSUME TypeOK, NEW r \in Launches, Parent, \A s \in Launches : s # r => Keeps(s),
           ~piRun' => names' = {},
           Local(r)',
           \/ pc'[r] \in PreparePcs \cup {"session", "rmtree", "list", "scan"}
           \/ pc'[r] = "ended" /\ (exit'[r] # "ok" \/ keep'[r])
    PROVE  Parent'
<1>1. Caretaker(r)' /\ Pending(r)'
  BY DEF Caretaker, Pending, At, PreparePcs
<1>2. QED
  BY <1>1, ParentKept

\* Making the folders: the one who makes them cares for them from then on.
LEMMA PrepareKept ==
    ASSUME TypeOK, NEW r \in Launches, Role(r), Scratch(r), Parent,
           (\E b \in BOOLEAN : BeginLocal(r, b)) \/ Prepare(r)
    PROVE  HostPart(r)
<1> USE DEF TypeOK, localVars, startVars
<1>1. LocalWork(r)
  BY DEF LocalWork
<1>2. Local(r)' /\ \A s \in Launches : s # r => Keeps(s)
  BY <1>1, LocalKeeps
<1>3. CASE \E b \in BOOLEAN : BeginLocal(r, b)
  <2>1. /\ pc[r] = "idle" /\ pc'[r] = "parent" /\ kind'[r] = "local"
        /\ UNCHANGED <<exit, names, piRun>>
    BY <1>3 DEF BeginLocal, Goto, At
  <2>2. Role(r)'
    BY <1>2, <2>1 DEF Role, PreparePcs, CleanupPcs, ProvisionPcs, Local, Sandboxed
  <2>3. Scratch(r)'
    BY <2>1 DEF Scratch, Role, Local
  <2>4. Parent'
    BY <1>2, <2>1, StillCares DEF Parent, PreparePcs
  <2>5. QED
    BY <2>2, <2>3, <2>4 DEF HostPart
<1>4. CASE MakeParent(r)
  <2>1. /\ pc[r] = "parent" /\ pc'[r] = "rundir" /\ piRun'
        /\ UNCHANGED <<kind, keep, exit, names>>
    BY <1>4 DEF MakeParent, Goto, At
  <2>2. Role(r)'
    BY <1>2, <2>1 DEF Role, PreparePcs, CleanupPcs, ProvisionPcs, Local, Sandboxed
  <2>3. Scratch(r)'
    BY <2>1 DEF Scratch, At
  <2>4. Parent'
    BY <1>2, <2>1, StillCares DEF PreparePcs
  <2>5. QED
    BY <2>2, <2>3, <2>4 DEF HostPart
<1>5. CASE MakeRunDir(r)
  <2>1. CASE piRun
    <3>1. /\ pc[r] = "rundir" /\ pc'[r] = "chmod" /\ piRun'
          /\ UNCHANGED <<kind, keep, exit>>
      BY <1>5, <2>1 DEF MakeRunDir, Goto, At
    <3>2. Role(r)'
      BY <1>2, <3>1 DEF Role, PreparePcs, CleanupPcs, ProvisionPcs, Local, Sandboxed
    <3>3. Scratch(r)'
      BY <1>2, <3>1 DEF Scratch
    <3>4. Parent'
      BY <1>2, <3>1, StillCares DEF PreparePcs
    <3>5. QED
      BY <3>2, <3>3, <3>4 DEF HostPart
  <2>2. CASE ~piRun
    <3>1. /\ pc[r] = "rundir" /\ pc'[r] = "ended" /\ exit'[r] = "error"
          /\ UNCHANGED <<kind, keep, names, piRun>>
      BY <1>5, <2>2 DEF MakeRunDir, End, Goto, At
    <3>2. Role(r)'
      BY <1>2, <3>1 DEF Role, PreparePcs, CleanupPcs, ProvisionPcs, Local
    <3>3. Scratch(r)'
      BY <3>1 DEF Scratch, At
    <3>4. Parent'
      BY <1>2, <3>1, StillCares DEF Parent
    <3>5. QED
      BY <3>2, <3>3, <3>4 DEF HostPart
  <2>3. QED
    BY <2>1, <2>2
<1>6. CASE SetModes(r)
  <2>1. /\ pc[r] = "chmod" /\ UNCHANGED <<kind, keep, names, piRun>>
    BY <1>6 DEF SetModes, At
  <2>2. \/ pc'[r] = "ignore" /\ exit' = exit
        \/ pc'[r] = "ended" /\ exit'[r] = "error" /\ r \notin names
    BY <1>6 DEF SetModes, End, Goto, At
  <2>3. Role(r)'
    BY <1>2, <2>1, <2>2 DEF Role, PreparePcs, CleanupPcs, ProvisionPcs, Local, Sandboxed
  <2>4. Scratch(r)'
    BY <1>2, <2>1, <2>2 DEF Scratch, At
  <2>5. Parent'
    BY <1>2, <2>1, <2>2, StillCares DEF Parent, PreparePcs
  <2>6. QED
    BY <2>3, <2>4, <2>5 DEF HostPart
<1>7. CASE WriteIgnore(r)
  <2>1. CASE piRun
    <3>1. /\ pc[r] = "ignore" /\ pc'[r] = "session" /\ piRun' /\ names' = names \cup {Ignore}
          /\ UNCHANGED <<kind, keep, exit>>
      BY <1>7, <2>1 DEF WriteIgnore, Goto, At
    <3>2. Role(r)'
      BY <1>2, <3>1 DEF Role, PreparePcs, CleanupPcs, ProvisionPcs, Local, Sandboxed
    <3>3. Scratch(r)'
      BY <1>2, <3>1 DEF Scratch
    <3>4. Parent'
      BY <1>2, <3>1, StillCares
    <3>5. QED
      BY <3>2, <3>3, <3>4 DEF HostPart
  <2>2. CASE ~piRun
    <3>1. /\ pc[r] = "ignore" /\ pc'[r] = "ended" /\ exit'[r] = "error"
          /\ UNCHANGED <<kind, keep, names, piRun>>
      BY <1>7, <2>2 DEF WriteIgnore, End, Goto, At
    <3>2. Role(r)'
      BY <1>2, <3>1 DEF Role, PreparePcs, CleanupPcs, ProvisionPcs, Local
    <3>3. Scratch(r)'
      BY <2>2, <3>1 DEF Scratch, Parent
    <3>4. Parent'
      BY <1>2, <3>1, StillCares DEF Parent
    <3>5. QED
      BY <3>2, <3>3, <3>4 DEF HostPart
  <2>3. QED
    BY <2>1, <2>2
<1>8. QED
  BY <1>3, <1>4, <1>5, <1>6, <1>7 DEF Prepare

\* Removing them: who leaves something behind leaves it to somebody who cares.
LEMMA CleanupKept ==
    ASSUME TypeOK, NEW r \in Launches, Role(r), \A s \in Launches : Scratch(s), Parent,
           EndLocalSession(r) \/ Cleanup(r)
    PROVE  HostPart(r)
<1> USE DEF TypeOK, localVars, startVars
<1>1. LocalWork(r)
  BY DEF LocalWork
<1>2. Local(r)' /\ \A s \in Launches : s # r => Keeps(s)
  BY <1>1, LocalKeeps
<1>3. CASE EndLocalSession(r)
  <2>1. /\ pc[r] = "session" /\ UNCHANGED <<kind, keep, names, piRun>>
    BY <1>3 DEF EndLocalSession, At
  <2>2. \/ pc'[r] = "rmtree" /\ exit' = exit
        \/ pc'[r] = "ended" /\ exit'[r] = "ok" /\ keep[r]
    BY <1>3 DEF EndLocalSession, End, Goto
  <2>3. Role(r)'
    BY <1>2, <2>1, <2>2
       DEF Role, PreparePcs, CleanupPcs, ProvisionPcs, Local, Sandboxed
  <2>4. Scratch(r)'
    BY <1>2, <2>1, <2>2 DEF Scratch, At
  <2>5. Parent'
    BY <1>2, <2>1, <2>2, StillCares DEF Parent
  <2>6. QED
    BY <2>3, <2>4, <2>5 DEF HostPart
<1>4. CASE RemoveRunDir(r)
  <2>1. /\ pc[r] = "rmtree" /\ pc'[r] = "list" /\ names' = names \ {r}
        /\ UNCHANGED <<kind, keep, exit, piRun>>
    BY <1>4 DEF RemoveRunDir, Goto, At
  <2>2. Role(r)'
    BY <1>2, <2>1 DEF Role, PreparePcs, CleanupPcs, ProvisionPcs, Local, Sandboxed
  <2>3. Scratch(r)'
    BY <2>1 DEF Scratch
  <2>4. Parent'
    BY <1>2, <2>1, StillCares DEF Parent
  <2>5. QED
    BY <2>2, <2>3, <2>4 DEF HostPart
<1>5. CASE ListLeftovers(r)
  <2>1. pc[r] = "list" /\ UNCHANGED <<kind, keep, names, piRun>>
    BY <1>5 DEF ListLeftovers, At
  <2>2. r \notin names
    BY <2>1 DEF Scratch, At
  <2>3. CASE piRun /\ Leftovers(names) = {}
    <3>1. pc'[r] = "scan" /\ exit' = exit
      BY <1>5, <2>3 DEF ListLeftovers, Goto
    <3>2. Role(r)'
      BY <1>2, <2>1, <3>1 DEF Role, PreparePcs, CleanupPcs, ProvisionPcs, Local, Sandboxed
    <3>3. Scratch(r)'
      BY <2>1, <2>2 DEF Scratch
    <3>4. Parent'
      BY <1>2, <2>1, <3>1, StillCares DEF Parent
    <3>5. QED
      BY <3>2, <3>3, <3>4 DEF HostPart
  <2>4. CASE ~(piRun /\ Leftovers(names) = {})
    <3>1. pc'[r] = "ended" /\ exit'[r] = "ok"
      BY <1>5, <2>4 DEF ListLeftovers, End, Goto
    <3>2. Role(r)'
      BY <1>2, <2>1, <3>1 DEF Role, PreparePcs, CleanupPcs, ProvisionPcs, Local, Sandboxed
    <3>3. Scratch(r)'
      BY <2>1, <2>2 DEF Scratch
    <3>4. CASE ~piRun
      <4>1. ~piRun' /\ names' = {}
        BY <2>1, <3>4 DEF Parent
      <4>2. Parent'
        BY <1>2, <4>1, ParentKept
      <4>3. QED
        BY <3>2, <3>3, <4>2 DEF HostPart
    <3>5. CASE Leftovers(names) # {}
      \* Somebody else's folder is there, and that launch cares for the rest.
      <4>1. PICK n \in names : n # Ignore
        BY <3>5 DEF Leftovers
      <4>2. n \in Launches /\ n # r
        BY <2>2, <4>1
      <4>3. Caretaker(n) /\ Pending(n)
        BY <4>1, <4>2, FolderCared, CareIsPending
      <4>4. ~piRun' => names' = {}
        BY <2>1 DEF Parent
      <4>5. Parent'
        BY <1>2, <4>2, <4>3, <4>4, ParentKept
      <4>6. QED
        BY <3>2, <3>3, <4>5 DEF HostPart
    <3>6. QED
      BY <2>4, <3>2, <3>3, <3>4, <3>5 DEF HostPart
  <2>5. QED
    BY <2>3, <2>4
<1>6. CASE ScanParent(r)
  <2>1. /\ pc[r] = "scan" /\ pc'[r] = "unlink" /\ seen'[r] = names
        /\ UNCHANGED <<kind, keep, exit, names, piRun>>
    BY <1>6 DEF ScanParent, Goto, At
  <2>2. Role(r)'
    BY <1>2, <2>1 DEF Role, PreparePcs, CleanupPcs, ProvisionPcs, Local, Sandboxed
  <2>3. Scratch(r)'
    BY <2>1 DEF Scratch, At
  <2>4. /\ Ignore \in names' => Caretaker(r)'
        /\ Pending(r)'
    BY <1>2, <2>1 DEF Caretaker, Pending, At
  <2>5. ~piRun' => names' = {}
    BY <2>1 DEF Parent
  <2>6. Parent'
    BY <1>2, <2>4, <2>5, ParentKept
  <2>7. QED
    BY <2>2, <2>3, <2>6 DEF HostPart
<1>7. CASE UnlinkEntry(r)
  <2>1. pc[r] = "unlink" /\ UNCHANGED <<kind, keep, exit, piRun>>
    BY <1>7 DEF UnlinkEntry, At
  <2>2. r \notin names
    BY <2>1 DEF Scratch, At
  <2>3. CASE seen[r] = {} /\ Goto(r, "rmdir") /\ UNCHANGED <<names, seen>>
    <3>1. pc'[r] = "rmdir" /\ UNCHANGED names /\ Ignore \notin seen[r]
      BY <2>3 DEF Goto
    <3>2. Role(r)'
      BY <1>2, <2>1, <3>1 DEF Role, PreparePcs, CleanupPcs, ProvisionPcs, Local, Sandboxed
    <3>3. Scratch(r)'
      BY <2>2, <3>1 DEF Scratch
    <3>4. ~Caretaker(r) /\ Pending(r)' /\ (~piRun' => names' = {})
      BY <1>2, <2>1, <3>1 DEF Caretaker, Pending, Parent, At, PreparePcs
    <3>5. Parent'
      BY <1>2, <3>1, <3>4, ParentKept
    <3>6. QED
      BY <3>2, <3>3, <3>5 DEF HostPart
  <2>4. CASE ~(seen[r] = {} /\ Goto(r, "rmdir") /\ UNCHANGED <<names, seen>>)
    <3>1. PICK n \in seen[r] :
            /\ seen' = [seen EXCEPT ![r] = seen[r] \ {n}]
            /\ names' = names \ {n} \/ (n \in Launches /\ names' = names)
            /\ UNCHANGED pc
      BY <1>7, <2>4 DEF UnlinkEntry
    <3>2. seen'[r] = seen[r] \ {n} /\ names' \subseteq names
      BY <3>1
    <3>3. Role(r)'
      BY <2>1, <3>1 DEF Role, PreparePcs, CleanupPcs, ProvisionPcs, Local, Sandboxed
    <3>4. Scratch(r)'
      BY <2>2, <3>2 DEF Scratch
    <3>5. CASE n = Ignore
      <4>1. Ignore \notin names'
        BY <3>1, <3>5, IgnoreAssumption
      <4>2. Pending(r)' /\ (~piRun' => names' = {})
        BY <1>2, <2>1, <3>1, <3>2 DEF Pending, Parent
      <4>3. Parent'
        BY <1>2, <4>1, <4>2, ParentKept
      <4>4. QED
        BY <3>3, <3>4, <4>3 DEF HostPart
    <3>6. CASE n # Ignore
      <4>1. Ignore \in names' => Ignore \in names
        BY <3>2
      <4>2. Caretaker(r) => Caretaker(r)'
        BY <1>2, <2>1, <3>1, <3>2, <3>6 DEF Caretaker, At, PreparePcs
      <4>3. Pending(r)' /\ (~piRun' => names' = {})
        BY <1>2, <2>1, <3>1, <3>2 DEF Pending, Parent
      <4>4. Parent'
        BY <1>2, <4>1, <4>2, <4>3, ParentKept
      <4>5. QED
        BY <3>3, <3>4, <4>4 DEF HostPart
    <3>7. QED
      BY <3>5, <3>6
  <2>5. QED
    BY <2>3, <2>4
<1>8. CASE RemoveParent(r)
  <2>1. /\ pc[r] = "rmdir" /\ pc'[r] = "ended" /\ exit'[r] = "ok"
        /\ UNCHANGED <<kind, keep, names>> /\ (piRun' <=> piRun /\ names # {})
    BY <1>8 DEF RemoveParent, End, Goto, At
  <2>2. r \notin names
    BY <2>1 DEF Scratch, At
  <2>3. Role(r)'
    BY <1>2, <2>1 DEF Role, PreparePcs, CleanupPcs, ProvisionPcs, Local, Sandboxed
  <2>4. Scratch(r)'
    BY <2>1, <2>2 DEF Scratch
  <2>5. ~Caretaker(r) /\ (~piRun' => names' = {})
    BY <2>1 DEF Caretaker, Parent, At, PreparePcs
  <2>6. ASSUME piRun' PROVE \E s \in Launches : s # r /\ Pending(s)
    <3>1. PICK n \in names : TRUE
      BY <2>1, <2>6
    <3>2. CASE n \in Launches
      BY <2>2, <3>1, <3>2, FolderCared, CareIsPending
    <3>3. CASE n = Ignore
      <4>1. PICK s \in Launches : Caretaker(s)
        BY <3>1, <3>3 DEF Parent
      <4>2. QED
        BY <2>5, <4>1, CareIsPending
    <3>4. QED
      BY <3>1, <3>2, <3>3
  <2>7. Ignore \in names' => Ignore \in names
    BY <2>1
  <2>8. Parent'
    BY <1>2, <2>5, <2>6, <2>7, ParentKept
  <2>9. QED
    BY <2>3, <2>4, <2>8 DEF HostPart
<1>9. QED
  BY <1>3, <1>4, <1>5, <1>6, <1>7, <1>8 DEF Cleanup

\* A launch leaves the folders of the others, but may remove them.
LEMMA OthersFolders ==
    ASSUME TypeOK, NEW r \in Launches, LocalWork(r), NEW s \in Launches, s # r, s \in names'
    PROVE  s \in names
<1>1. names' \subseteq names \cup {r, Ignore}
  BY DEF LocalWork, Prepare, Cleanup, BeginLocal, MakeParent, MakeRunDir, SetModes,
     WriteIgnore, EndLocalSession, RemoveRunDir, ListLeftovers, ScanParent, UnlinkEntry,
     RemoveParent, localVars
<1>2. QED
  BY <1>1, IgnoreAssumption

\* The role of a launch that does not step.
LEMMA OthersRole ==
    ASSUME NEW s \in Launches, Role(s), Keeps(s) PROVE Role(s)'
BY DEF Role, Keeps, Local, Sandboxed

\* A step of a launch on the host keeps every part.
LEMMA LocalStep ==
    ASSUME IInv, TypeOK', NEW r \in Launches, LocalWork(r)
    PROVE  IInv'
<1>1. /\ Local(r)' /\ ~Sandboxed(r)
      /\ UNCHANGED <<retry, needPi, broker, hostAgent, tarball, vm, fetched, alone, faults>>
      /\ \A s \in Launches : s # r => Keeps(s)
  BY LocalKeeps DEF IInv
<1>2. Role(r)' /\ Scratch(r)' /\ Parent'
  <2>1. HostPart(r)
    BY PrepareKept, CleanupKept DEF IInv, LocalWork
  <2>2. QED
    BY <2>1 DEF HostPart
<1>3. ASSUME NEW s \in Launches PROVE Role(s)' /\ Scratch(s)'
  BY <1>1, <1>2, OthersRole, OthersScratch, OthersFolders DEF IInv
<1>4. ~Sandboxed(r)'
  BY <1>1 DEF Local, Sandboxed
<1>5. ASSUME NEW s \in Launches PROVE Broker(s)'
  <2>1. CASE s = r
    <3>1. broker[r] # "running" /\ pc[r] # "ended"
      <4>1. pc[r] # "ended"
        BY DEF LocalWork, BeginLocal, EndLocalSession, Prepare, Cleanup, MakeParent,
           MakeRunDir, SetModes, WriteIgnore, RemoveRunDir, ListLeftovers, ScanParent,
           UnlinkEntry, RemoveParent, At
      <4>2. QED
        BY <1>1, <4>1 DEF IInv, Broker
    <3>2. QED
      BY <1>1, <2>1, <3>1 DEF IInv, Broker, At
  <2>2. CASE s # r
    BY <1>1, <2>2 DEF IInv, Broker, Keeps, Sandboxed, Running, At
  <2>3. QED
    BY <2>1, <2>2
<1>6. Separate'
  BY <1>1, <1>4 DEF IInv, Separate, Keeps, Sandboxed, Running
<1>7. HalfDone'
  <2>1. ~Failed(r)
    BY DEF IInv, Role, Failed, LocalWork, BeginLocal, EndLocalSession, Prepare, Cleanup,
       MakeParent, MakeRunDir, SetModes, WriteIgnore, RemoveRunDir, ListLeftovers,
       ScanParent, UnlinkEntry, RemoveParent, At
  <2>2. QED
    BY <1>1, <2>1 DEF IInv, HalfDone, Failed, Keeps
<1>8. ASSUME NEW s \in Launches PROVE Provisioned(s)'
  <2>1. CASE s = r
    BY <1>4, <2>1 DEF Provisioned
  <2>2. CASE s # r
    BY <1>1, <2>2 DEF IInv, Provisioned, Keeps, Sandboxed, At, OwnAgent
  <2>3. QED
    BY <2>1, <2>2
<1>9. QED
  BY <1>2, <1>3, <1>5, <1>6, <1>7, <1>8 DEF IInv

(***************************************************************************)
(* The machine.                                                            *)
(***************************************************************************)

\* Where a sandboxed launch goes.
LEMMA SandboxMoves ==
    ASSUME TypeOK, NEW r \in Launches, SandboxWork(r)
    PROVE  \/ /\ pc[r] = "idle" /\ pc'[r] = "probe" /\ exit' = exit
              /\ \E b \in BOOLEAN : BeginSandboxed(r, b)
           \/ /\ pc[r] \in ProvisionPcs \cup {"session", "fetch", "forget"}
              /\ kind' = kind
              /\ \/ /\ exit' = exit
                    /\ pc'[r] \in ProvisionPcs \cup {"session", "fetch", "forget", "finally"}
                 \/ exit'[r] = "error" /\ pc'[r] = "finally"
           \/ /\ pc[r] = "finally" /\ pc'[r] = "ended" /\ kind' = kind
              /\ exit'[r] = IF exit[r] = "none" THEN "ok" ELSE exit[r]
              /\ FinishSandboxed(r)
<1> USE DEF TypeOK, startVars, At, Goto
<1>1. CASE \E b \in BOOLEAN : BeginSandboxed(r, b)
  BY <1>1 DEF BeginSandboxed
<1>2. CASE FinishSandboxed(r)
  BY <1>2 DEF FinishSandboxed, End
<1>3. CASE AbortProvisioning(r)
  BY <1>3 DEF AbortProvisioning
<1>4. CASE ProbeMachine(r) \/ CreateMachine(r) \/ RefreshPolicy(r) \/ RecreateMachine(r)
           \/ RenderAgentDir(r) \/ UploadPi(r) \/ UploadAgent(r)
  BY <1>4 DEF ProbeMachine, CreateMachine, RefreshPolicy, RecreateMachine, RenderAgentDir,
     UploadPi, UploadAgent, ProvisionPcs
<1>5. CASE CheckMarkers(r) \/ InstallPi(r) \/ EndSandboxSession(r)
  BY <1>5 DEF CheckMarkers, InstallPi, EndSandboxSession, ProvisionPcs
<1>6. CASE WaitReady(r)
  BY <1>6 DEF WaitReady, ProvisionPcs
<1>7. CASE FetchTarball(r) \/ ExtractNode(r)
  BY <1>7 DEF FetchTarball, ExtractNode, ProvisionPcs
<1>8. CASE DownloadRecords(r) \/ ForgetRecords(r)
  BY <1>8 DEF DownloadRecords, ForgetRecords, ProvisionPcs
<1>9. QED
  BY <1>1, <1>2, <1>3, <1>4, <1>5, <1>6, <1>7, <1>8 DEF SandboxWork, Provision, Finish

\* A sandboxed launch stays one, and goes where one may be.
LEMMA SandboxRole ==
    ASSUME TypeOK, NEW r \in Launches, Role(r), SandboxWork(r)
    PROVE  Role(r)'
<1>1. Sandboxed(r)' /\ ~Local(r)
  BY SandboxKeeps
<1>2. Sandboxed(r)' /\ ~Local(r)'
  BY <1>1 DEF Sandboxed, Local
<1> USE <1>2 DEF Role, PreparePcs, CleanupPcs, ProvisionPcs, Sandboxed
<1>3. CASE pc[r] = "idle" /\ pc'[r] = "probe" /\ exit' = exit
  BY <1>3
<1>4. CASE /\ pc[r] \in ProvisionPcs \cup {"session", "fetch", "forget"}
           /\ exit' = exit
           /\ pc'[r] \in ProvisionPcs \cup {"session", "fetch", "forget", "finally"}
  BY <1>4
<1>5. CASE exit'[r] = "error" /\ pc'[r] = "finally"
  BY <1>5
<1>6. CASE pc'[r] = "ended"
  BY <1>6
<1>7. QED
  BY <1>3, <1>4, <1>5, <1>6, SandboxMoves

\* What becomes of a broker and of the token in the host's agent folder.
LEMMA BrokerKept ==
    ASSUME TypeOK, NEW r \in Launches, Role(r), \A s \in Launches : Broker(s), SandboxWork(r),
           NEW s \in Launches
    PROVE  Broker(s)'
<1>1. Sandboxed(r)' /\ \A t \in Launches : t # r => Keeps(t)
  BY SandboxKeeps
<1>2. CASE \E b \in BOOLEAN : BeginSandboxed(r, b)
  <2>1. pc[r] = "idle" /\ pc'[r] = "probe" /\ hostAgent' = hostAgent
    BY <1>2 DEF BeginSandboxed, TypeOK, Goto, At
  <2>2. hostAgent.token # r
    BY <2>1 DEF Broker, Running, At
  <2>3. QED
    BY <1>1, <2>1, <2>2 DEF Broker, Keeps, Running, Sandboxed, At
<1>3. CASE FinishSandboxed(r)
  <2>1. pc[r] = "finally" /\ pc'[r] = "ended"
    BY <1>3 DEF FinishSandboxed, End, Goto, TypeOK, At
  <2>2. CASE broker[r] = "running"
    <3>1. broker'[r] = "stopped" /\ hostAgent'.token = NoOne
      BY <1>3, <2>2 DEF FinishSandboxed, TypeOK, AgentDirs
    <3>2. QED
      BY <1>1, <3>1, NoOneAssumption DEF Broker, Keeps, Sandboxed, Running
  <2>3. CASE broker[r] # "running"
    <3>1. UNCHANGED <<broker, hostAgent>>
      BY <1>3, <2>3 DEF FinishSandboxed
    <3>2. hostAgent.token # r
      BY <2>1, <2>3 DEF Broker, At
    <3>3. QED
      BY <1>1, <2>3, <3>1, <3>2 DEF Broker, Keeps, Sandboxed, Running, At
  <2>4. QED
    BY <2>2, <2>3
<1>4. CASE ~(\E b \in BOOLEAN : BeginSandboxed(r, b)) /\ ~FinishSandboxed(r)
  <2>1. broker' = broker
    BY <1>4 DEF SandboxWork, Provision, Finish, BeginSandboxed, AbortProvisioning,
       ProbeMachine, CreateMachine, RefreshPolicy, WaitReady, RecreateMachine,
       RenderAgentDir, UploadPi, UploadAgent, CheckMarkers, FetchTarball, ExtractNode,
       InstallPi, EndSandboxSession, DownloadRecords, ForgetRecords, FinishSandboxed,
       sandboxVars
  <2>2. hostAgent' \in {hostAgent, NoAgentDir} \/ RenderAgentDir(r)
    BY <1>4 DEF SandboxWork, Provision, Finish, AbortProvisioning, CutShort, ProbeMachine,
       CreateMachine, RefreshPolicy, WaitReady, RecreateMachine, UploadPi, UploadAgent,
       CheckMarkers, FetchTarball, ExtractNode, InstallPi, EndSandboxSession,
       DownloadRecords, ForgetRecords, sandboxVars
  <2>3. /\ pc[r] \notin {"idle", "ended"} /\ pc'[r] \notin {"idle", "ended"}
    BY <1>4, SandboxMoves DEF ProvisionPcs
  <2>4. \/ hostAgent' = hostAgent
        \/ hostAgent'.token = NoOne
        \/ hostAgent'.token = r /\ broker[r] = "running"
    <3>1. ASSUME RenderAgentDir(r)
          PROVE  hostAgent'.token = IF broker[r] = "running" THEN r ELSE NoOne
      BY <3>1 DEF RenderAgentDir
    <3>2. QED
      BY <2>2, <3>1 DEF NoAgentDir
  <2>5. hostAgent'.token = s => broker'[s] = "running" \/ (At(s, "ended") /\ exit[s] = "killed")
    BY <2>1, <2>4, NoOneAssumption DEF Broker
  <2>6. broker'[s] = "running" => Sandboxed(s)' /\ Running(s)'
    BY <1>1, <2>1, <2>3 DEF Broker, Keeps, Sandboxed, Running
  <2>7. At(s, "ended") /\ exit[s] = "killed" => (At(s, "ended") /\ exit[s] = "killed")'
    BY <1>1, <2>3 DEF Keeps, At
  <2>8. QED
    BY <2>5, <2>6, <2>7 DEF Broker
<1>5. QED
  BY <1>2, <1>3, <1>4

\* Two launches that run side by side are not alone.
LEMMA SeparateKept ==
    ASSUME TypeOK, NEW r \in Launches, Role(r), Separate, SandboxWork(r)
    PROVE  Separate'
<1>1. Sandboxed(r)' /\ \A t \in Launches : t # r => Keeps(t)
  BY SandboxKeeps
<1>2. CASE \E b \in BOOLEAN : BeginSandboxed(r, b)
  <2> DEFINE others == {s \in Launches \ {r} : Sandboxed(s) /\ Running(s)}
  <2>1. \A s \in Launches : alone'[s] = (alone[s] /\ (s \in others \/ s = r => others = {}))
    BY <1>2 DEF BeginSandboxed
  <2>2. ASSUME NEW s \in Launches, NEW t \in Launches, s # t, Sandboxed(s)', Running(s)',
               Sandboxed(t)', Running(t)', alone'[s]
        PROVE  FALSE
    <3>1. CASE s # r /\ t # r
      <4>1. alone[s]
        BY <2>1, <2>2
      <4>2. QED
        BY <1>1, <2>2, <3>1, <4>1 DEF Separate, Keeps, Sandboxed, Running
    <3>2. CASE s = r
      <4>1. t \in others
        BY <1>1, <2>2, <3>2 DEF Keeps, Sandboxed, Running
      <4>2. QED
        BY <2>1, <2>2, <3>2, <4>1
    <3>3. CASE t = r
      <4>1. s \in others
        BY <1>1, <2>2, <3>3 DEF Keeps, Sandboxed, Running
      <4>2. QED
        BY <2>1, <2>2, <4>1
    <3>4. QED
      BY <3>1, <3>2, <3>3
  <2>3. QED
    BY <2>2 DEF Separate
<1>3. CASE ~ \E b \in BOOLEAN : BeginSandboxed(r, b)
  <2>1. alone' = alone
    BY <1>3 DEF SandboxWork, Provision, Finish, AbortProvisioning, ProbeMachine,
       CreateMachine, RefreshPolicy, WaitReady, RecreateMachine, RenderAgentDir, UploadPi,
       UploadAgent, CheckMarkers, FetchTarball, ExtractNode, InstallPi, EndSandboxSession,
       DownloadRecords, ForgetRecords, FinishSandboxed, sandboxVars
  <2>2. Sandboxed(r) /\ Running(r)
    BY <1>1, <1>3, SandboxMoves DEF Sandboxed, Running, ProvisionPcs
  <2>3. QED
    BY <1>1, <2>1, <2>2 DEF Separate, Keeps, Sandboxed, Running
<1>4. QED
  BY <1>2, <1>3

\* A step that leaves part of a node ends its launch with an error.
LEMMA NodeKept ==
    ASSUME TypeOK, NEW r \in Launches, SandboxWork(r)
    PROVE  vm'.node \in {vm.node, "absent", "whole"} \/ exit'[r] = "error"
<1>1. vm \in Machines /\ NoMachine.node = "absent" /\ FreshMachine(r).node = "absent"
  BY DEF TypeOK, NoMachine, FreshMachine
<1>2. CASE CreateMachine(r) \/ RecreateMachine(r)
  BY <1>1, <1>2 DEF CreateMachine, RecreateMachine
<1>3. CASE \/ RefreshPolicy(r) \/ UploadPi(r) \/ UploadAgent(r) \/ ExtractNode(r)
           \/ InstallPi(r) \/ EndSandboxSession(r) \/ ForgetRecords(r)
  BY <1>1, <1>3 DEF RefreshPolicy, UploadPi, UploadAgent, ExtractNode, InstallPi,
     EndSandboxSession, ForgetRecords, Machines
<1>4. CASE AbortProvisioning(r)
  BY <1>4 DEF AbortProvisioning, TypeOK
<1>5. CASE \/ \E b \in BOOLEAN : BeginSandboxed(r, b)
           \/ ProbeMachine(r) \/ WaitReady(r) \/ RenderAgentDir(r) \/ FetchTarball(r)
           \/ CheckMarkers(r) \/ DownloadRecords(r) \/ FinishSandboxed(r)
  BY <1>5 DEF BeginSandboxed, ProbeMachine, WaitReady, RenderAgentDir, FetchTarball,
     CheckMarkers, DownloadRecords, FinishSandboxed, sandboxVars
<1>6. QED
  BY <1>2, <1>3, <1>4, <1>5 DEF SandboxWork, Provision, Finish

\* A launch that failed has failed for good.
LEMMA HalfDoneKept ==
    ASSUME TypeOK, NEW r \in Launches, Role(r), HalfDone, SandboxWork(r)
    PROVE  HalfDone'
<1>1. ASSUME NEW s \in Launches, Failed(s) PROVE Failed(s)'
  <2>1. CASE s = r
    BY <1>1, <2>1, SandboxMoves DEF Failed, Role, ProvisionPcs
  <2>2. CASE s # r
    BY <1>1, <2>2, SandboxKeeps DEF Failed, Keeps
  <2>3. QED
    BY <2>1, <2>2
<1>2. QED
  BY <1>1, NodeKept DEF HalfDone, Failed

\* Nobody's work in the machine is disturbed while it runs alone ...
LEMMA OthersProvisioned ==
    ASSUME TypeOK, NEW r \in Launches, Role(r), Separate, SandboxWork(r),
           NEW s \in Launches, s # r, Provisioned(s)
    PROVE  Provisioned(s)'
<1>1. Sandboxed(r)' /\ Keeps(s)
  BY SandboxKeeps
<1>2. ASSUME Sandboxed(s), Running(s), alone'[s] PROVE FALSE
  <2>1. CASE \E b \in BOOLEAN : BeginSandboxed(r, b)
    BY <1>2, <2>1 DEF BeginSandboxed
  <2>2. CASE ~ \E b \in BOOLEAN : BeginSandboxed(r, b)
    <3>1. alone' = alone
      BY <2>2 DEF SandboxWork, Provision, Finish, AbortProvisioning, ProbeMachine,
     CreateMachine, RefreshPolicy, WaitReady, RecreateMachine, RenderAgentDir, UploadPi,
     UploadAgent, CheckMarkers, FetchTarball, ExtractNode, InstallPi, EndSandboxSession,
     DownloadRecords, ForgetRecords, FinishSandboxed, sandboxVars
    <3>2. Sandboxed(r) /\ Running(r)
      BY <1>1, <2>2, SandboxMoves DEF Sandboxed, Running, ProvisionPcs
    <3>3. QED
      BY <1>2, <3>1, <3>2 DEF Separate
  <2>3. QED
    BY <2>1, <2>2
<1>3. pc[s] \in {"upload", "agent"} \cup Equipped => Running(s)
  BY DEF Running, Equipped
<1>4. QED
  BY <1>1, <1>2, <1>3 DEF Provisioned, Keeps, Sandboxed, Equipped

\* ... and its own is done step by step.
LEMMA OwnProvisioned ==
    ASSUME TypeOK, NEW r \in Launches, Role(r), Provisioned(r), SandboxWork(r)
    PROVE  Provisioned(r)'
<1>1. vm \in Machines /\ hostAgent \in AgentDirs
  BY DEF TypeOK
<1> USE DEF At, Goto, Equipped
<1>2. CASE pc'[r] \notin {"upload", "agent"} \cup Equipped
  BY <1>2 DEF Provisioned
<1>3. CASE RenderAgentDir(r)
  <2>1. pc'[r] = "upload" /\ hostAgent' = OwnAgent(r) /\ broker' = broker
    BY <1>3 DEF RenderAgentDir, OwnAgent, TypeOK
  <2>2. QED
    BY <2>1 DEF Provisioned, OwnAgent
<1>4. CASE UploadPi(r)
  <2>1. /\ pc[r] = "upload" /\ pc'[r] = "agent" /\ vm'.pi = "whole"
        /\ UNCHANGED <<kind, alone, broker, hostAgent>>
    BY <1>1, <1>4 DEF UploadPi, TypeOK, Machines, startVars
  <2>2. QED
    BY <2>1 DEF Provisioned, OwnAgent, Sandboxed
<1>5. CASE UploadAgent(r)
  <2>1. /\ pc[r] = "agent" /\ pc'[r] = "check" /\ vm'.agent = hostAgent
        /\ vm'.pi = vm.pi /\ UNCHANGED <<kind, alone, broker>>
    BY <1>1, <1>5 DEF UploadAgent, TypeOK, Machines, startVars
  <2>2. QED
    BY <2>1 DEF Provisioned, OwnAgent, Sandboxed
<1>6. CASE CheckMarkers(r)
  <2>1. /\ pc[r] = "check" /\ UNCHANGED <<kind, alone, broker, vm>>
        /\ \/ pc'[r] = "tarball"
           \/ pc'[r] \in {"npm", "session"} /\ vm.node # "absent"
    BY <1>6 DEF CheckMarkers, startVars, TypeOK
  <2>2. QED
    BY <2>1 DEF Provisioned, OwnAgent, Sandboxed
<1>7. CASE FetchTarball(r)
  <2>1. /\ pc[r] = "tarball" /\ pc'[r] = "extract" /\ UNCHANGED <<kind, alone, broker, vm>>
    BY <1>7 DEF FetchTarball, startVars, TypeOK
  <2>2. QED
    BY <2>1 DEF Provisioned, OwnAgent, Sandboxed
<1>8. CASE ExtractNode(r)
  <2>1. /\ pc[r] = "extract" /\ pc'[r] \in {"npm", "session"}
        /\ UNCHANGED <<kind, alone, broker>>
        /\ vm'.agent = vm.agent /\ vm'.pi = vm.pi /\ vm'.node = "whole"
    BY <1>1, <1>8 DEF ExtractNode, startVars, Machines, TypeOK
  <2>2. QED
    BY <2>1 DEF Provisioned, OwnAgent, Sandboxed
<1>9. CASE InstallPi(r)
  <2>1. /\ pc[r] = "npm" /\ pc'[r] = "session" /\ UNCHANGED <<kind, alone, broker>>
        /\ vm'.agent = vm.agent /\ vm'.node = vm.node /\ vm'.pi = "whole"
    BY <1>1, <1>9 DEF InstallPi, startVars, Machines, TypeOK
  <2>2. QED
    BY <2>1 DEF Provisioned, OwnAgent, Sandboxed
<1>10. CASE \/ \E b \in BOOLEAN : BeginSandboxed(r, b)
            \/ AbortProvisioning(r) \/ ProbeMachine(r) \/ CreateMachine(r)
            \/ RefreshPolicy(r) \/ WaitReady(r) \/ RecreateMachine(r)
            \/ EndSandboxSession(r)
  <2>1. pc'[r] \notin {"upload", "agent"} \cup Equipped
    BY <1>10 DEF BeginSandboxed, AbortProvisioning, ProbeMachine, CreateMachine,
       RefreshPolicy, WaitReady, RecreateMachine, EndSandboxSession, TypeOK
  <2>2. QED
    BY <1>2, <2>1
<1>11. CASE Finish(r)
  <2>1. pc'[r] \notin {"upload", "agent"} \cup Equipped
    BY <1>11 DEF Finish, DownloadRecords, ForgetRecords, FinishSandboxed, End, TypeOK
  <2>2. QED
    BY <1>2, <2>1
<1>12. QED
  BY <1>3, <1>4, <1>5, <1>6, <1>7, <1>8, <1>9, <1>10, <1>11 DEF SandboxWork, Provision

\* A step of a sandboxed launch keeps every part.
LEMMA SandboxStep ==
    ASSUME IInv, TypeOK', NEW r \in Launches, SandboxWork(r)
    PROVE  IInv'
<1>1. /\ Sandboxed(r)' /\ ~Local(r) /\ UNCHANGED <<keep, piRun, names, seen>>
      /\ \A s \in Launches : s # r => Keeps(s)
  BY SandboxKeeps DEF IInv
<1>2. ASSUME NEW s \in Launches PROVE Role(s)' /\ Broker(s)' /\ Provisioned(s)'
  <2>1. Role(s)'
    BY <1>1, OthersRole, SandboxRole DEF IInv
  <2>2. Broker(s)'
    BY BrokerKept DEF IInv
  <2>3. Provisioned(s)'
    BY OthersProvisioned, OwnProvisioned DEF IInv
  <2>4. QED
    BY <2>1, <2>2, <2>3
<1>3. Separate' /\ HalfDone'
  BY SeparateKept, HalfDoneKept DEF IInv
<1>4. ASSUME NEW s \in Launches PROVE Scratch(s)'
  <2>1. CASE s = r
    BY <1>1, <2>1 DEF IInv, Scratch
  <2>2. CASE s # r
    BY <1>1, <2>2, OthersScratch DEF IInv
  <2>3. QED
    BY <2>1, <2>2
<1>5. Parent'
  <2>1. ~Caretaker(r) /\ ~Pending(r)
    BY <1>1 DEF Caretaker, Pending
  <2>2. ~piRun' => names' = {}
    BY <1>1 DEF IInv, Parent
  <2>3. QED
    BY <1>1, <2>1, <2>2, ParentKept DEF IInv
<1>6. QED
  BY <1>2, <1>3, <1>4, <1>5 DEF IInv

(***************************************************************************)
(* Faults, and the theorems.                                               *)
(***************************************************************************)

\* A launch that is killed still answers for what it leaves.
LEMMA KillStep ==
    ASSUME IInv, TypeOK', NEW r \in Launches, Kill(r)
    PROVE  IInv'
<1>1. /\ Running(r) /\ pc'[r] = "ended" /\ exit'[r] = "killed" /\ broker'[r] # "running"
      /\ UNCHANGED <<kind, keep, piRun, names, seen, needPi, alone>>
      /\ \A s \in Launches : s # r => Keeps(s)
  BY DEF IInv, TypeOK, Kill, End, Goto, startVars, localVars, Keeps
<1>0. /\ hostAgent' \in {hostAgent, NoAgentDir}
      /\ Sandboxed(r) \/ (vm' = vm /\ hostAgent' = hostAgent)
  BY DEF IInv, Kill, CutShort, Role, At, ProvisionPcs
<1>2. ASSUME NEW s \in Launches PROVE Role(s)' /\ Broker(s)' /\ Scratch(s)' /\ Provisioned(s)'
  <2>1. CASE s = r
    <3>1. Role(r)'
      BY <1>1 DEF IInv, Role, PreparePcs, CleanupPcs, ProvisionPcs, Running
    <3>2. Broker(r)' /\ Provisioned(r)'
      BY <1>1 DEF Broker, Provisioned, At, Equipped
    <3>3. Scratch(r)'
      BY <1>1 DEF IInv, Scratch, Local, At
    <3>4. QED
      BY <2>1, <3>1, <3>2, <3>3
  <2>2. CASE s # r
    <3>1. Role(s)' /\ Scratch(s)'
      BY <1>1, <2>2, OthersRole, OthersScratch DEF IInv
    <3>2. Broker(s)'
      BY <1>0, <1>1, <2>2, NoOneAssumption
         DEF IInv, Broker, Keeps, Sandboxed, Running, At, NoAgentDir
    <3>3. Provisioned(s)'
      <4>1. CASE Sandboxed(r)
        \* Who ran beside r does not run alone.
        <5>1. ~(Sandboxed(s) /\ Running(s) /\ alone[s])
          BY <1>1, <2>2, <4>1 DEF IInv, Separate
        <5>2. QED
          BY <1>1, <2>2, <5>1 DEF Provisioned, Equipped, Keeps, Sandboxed, Running
      <4>2. CASE ~Sandboxed(r)
        BY <1>0, <1>1, <2>2, <4>2 DEF IInv, Provisioned, Keeps, Sandboxed, OwnAgent
      <4>3. QED
        BY <4>1, <4>2
    <3>4. QED
      BY <3>1, <3>2, <3>3
  <2>3. QED
    BY <2>1, <2>2
<1>3. Separate'
  BY <1>1 DEF IInv, Separate, Keeps, Sandboxed, Running
<1>4. HalfDone'
  BY <1>1 DEF HalfDone, Failed
<1>5. Parent'
  <2>1. ~piRun' => names' = {}
    BY <1>1 DEF IInv, Parent
  <2>2. CASE Local(r)
    BY <1>1, <2>1, <2>2, StillCares DEF IInv, Local
  <2>3. CASE ~Local(r)
    <3>1. ~Caretaker(r) /\ ~Pending(r)
      BY <2>3 DEF Caretaker, Pending
    <3>2. QED
      BY <1>1, <2>1, <3>1, ParentKept DEF IInv
  <2>4. QED
    BY <2>2, <2>3
<1>6. QED
  BY <1>2, <1>3, <1>4, <1>5 DEF IInv

\* The invariant holds before any launch ...
LEMMA InitIInv == Init => IInv
<1> SUFFICES ASSUME Init PROVE IInv
  OBVIOUS
<1>1. TypeOK
  BY InitTypes
<1>2. \A r \in Launches : Role(r)
  BY DEF Init, Role, PreparePcs, CleanupPcs, ProvisionPcs
<1>3. \A r \in Launches : Broker(r)
  BY NoOneAssumption DEF Init, Broker, NoAgentDir
<1>4. Separate
  BY DEF Init, Separate, Sandboxed
<1>5. HalfDone
  BY DEF Init, HalfDone, NoMachine
<1>6. \A r \in Launches : Provisioned(r) /\ Scratch(r)
  BY DEF Init, Provisioned, Scratch, Sandboxed
<1>7. Parent
  BY DEF Init, Parent
<1>8. QED
  BY <1>1, <1>2, <1>3, <1>4, <1>5, <1>6, <1>7 DEF IInv

\* ... and every step keeps it.
LEMMA NextIInv == IInv /\ [Next]_vars => IInv'
<1> SUFFICES ASSUME IInv, [Next]_vars PROVE IInv'
  OBVIOUS
<1>1. TypeOK'
  BY TypeStep DEF IInv
<1>2. ASSUME NEW r \in Launches, LocalWork(r) \/ SandboxWork(r) \/ Kill(r) PROVE IInv'
  BY <1>1, <1>2, LocalStep, SandboxStep, KillStep
<1>3. CASE Wedge
  <2>1. /\ UNCHANGED <<kind, keep, pc, exit, piRun, names, seen, needPi, broker, hostAgent,
                       tarball, alone>>
        /\ vm'.agent = vm.agent /\ vm'.node = vm.node /\ vm'.pi = vm.pi
    BY <1>3 DEF IInv, TypeOK, Machines, Wedge, startVars, localVars
  <2>2. QED
    BY <1>1, <2>1 DEF IInv, Role, Broker, Separate, HalfDone, Failed, Provisioned, Scratch,
       Parent, Caretaker, Pending, Local, Sandboxed, Running, At, OwnAgent
<1>4. CASE UNCHANGED vars
  BY <1>1, <1>4 DEF vars, startVars, localVars, sandboxVars, IInv, Role, Broker, Separate,
     HalfDone, Failed, Provisioned, Scratch, Parent, Caretaker, Pending, Local, Sandboxed,
     Running, At, OwnAgent
<1>5. QED
  BY <1>2, <1>3, <1>4, NextCases

\* The invariant, for any launches and any number of faults.
THEOREM Inductive == Spec => []IInv
BY InitIInv, NextIInv, PTL DEF Spec

\* Every variable has its type.
THEOREM TypeCorrect == Spec => []TypeOK
<1>1. IInv => TypeOK
  BY DEF IInv
<1>2. QED
  BY <1>1, Inductive, PTL

\* A launch leaves no scratch folder of its own, and the last one no .pi-run.
THEOREM NoScratchLeft == Spec => []ScratchRemoved
<1>1. IInv => ScratchRemoved
  <2> SUFFICES ASSUME IInv PROVE ScratchRemoved
    OBVIOUS
  <2>1. \A r \in Launches : Local(r) /\ Over(r) /\ ~keep[r] => r \notin names
    BY DEF IInv, Scratch, Over, At
  <2>2. ASSUME \A r \in Launches : Local(r) => ~keep[r] /\ At(r, "ended") /\ exit[r] = "ok"
        PROVE  ~piRun
    BY <2>2 DEF IInv, Parent, Pending, At
  <2>3. QED
    BY <2>1, <2>2 DEF ScratchRemoved
<1>2. QED
  BY <1>1, Inductive, PTL

\* Pi starts in the machine only with the whole of Pi, its launch's own agent
\* folder and token, and a node that is whole or was left half done by a launch
\* that failed or was killed.
THEOREM SessionsWhole == Spec => []SessionProvisioned
<1>1. IInv => SessionProvisioned
  <2> SUFFICES ASSUME IInv, NEW r \in Launches, Sandboxed(r), At(r, "session"), alone[r]
               PROVE  /\ vm.pi = "whole" /\ vm.agent = OwnAgent(r)
                      /\ \/ vm.node = "whole"
                         \/ /\ vm.node = "partial"
                            /\ \E s \in Launches : exit[s] \in {"error", "killed"}
    BY DEF SessionProvisioned, OwnAgent
  <2>1. /\ vm.pi = "whole" /\ vm.agent = OwnAgent(r) /\ vm.node # "absent"
    BY DEF IInv, Provisioned, Equipped, At
  <2>2. vm.node \in Markers
    BY DEF IInv, TypeOK, Machines
  <2>3. QED
    BY <2>1, <2>2 DEF IInv, HalfDone, Failed, Markers
<1>2. QED
  BY <1>1, Inductive, PTL

\* A broker and its token end with their launch.
THEOREM BrokersEnd == Spec => []BrokerEnds
<1>1. IInv => BrokerEnds
  BY DEF IInv, Broker, BrokerEnds, Over, Running, At
<1>2. QED
  BY <1>1, Inductive, PTL
=============================================================================
