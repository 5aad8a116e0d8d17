--------------------------- MODULE ServeManagerProofs ---------------------------
(***************************************************************************)
(* Proofs about ServeManager, for every number of invocations and every    *)
(* number of faults.                                                       *)
(*                                                                         *)
(* The inductive invariant has two halves.  Ledger holds whatever happens  *)
(* to an invocation: it says what each place in its run implies about its  *)
(* own record.  Faultless is about behaviours without a fault, in which    *)
(* invocations follow one another: it says how far the running one has     *)
(* taken its components over, and that the files tell of it.               *)
(***************************************************************************)
EXTENDS ServeManager, TLAPS

Stage(i) == pc[i][1]

(***************************************************************************)
(* Ledger: one invocation's record, faults or not.                         *)
(***************************************************************************)

\* An apply starts daemons, a stop never does.
Applies(i) == kind[i] \in {"apply-managed", "apply-direct"}

KindFits(i) ==
    /\ kind[i] = "none" <=> Stage(i) = "idle"
    /\ kind[i] = "stop" => Stage(i) \in {"signal", "wait", "stopped", "done"}
    /\ Stage(i) = "wait" => target[i] # None

\* Where an error may, must, or cannot have been met.
ErrorsFit(i) ==
    /\ Stage(i) \in {"idle", "plan", "start", "pid", "health", "declare", "record"} =>
         ~failed[i]
    /\ Stage(i) = "fail" => failed[i]
    /\ Stage(i) # "done" => exit[i] = "none" /\ activation[i] = "none"
    /\ exit[i] = "ok" => ~failed[i]

\* The record and the exit status agree.
RecordsFit(i) ==
    /\ activation[i] = "activated" => exit[i] = "ok"
    /\ exit[i] = "ok" /\ kind[i] # "stop" => activation[i] = "activated"
    /\ Stage(i) = "record" \/ activation[i] = "activated" => active # None
    /\ faults = 0 /\ exit[i] = "error" /\ failed[i] /\ kind[i] # "stop" =>
         activation[i] = "failed"

Fits(i) == KindFits(i) /\ ErrorsFit(i) /\ RecordsFit(i)

\* A daemon, and a pid in a file, is some apply's.
DaemonsFit ==
    \A c \in Components :
        /\ \A i \in Invocations : proc[c][i] # "gone" => Applies(i)
        /\ pidFile[c] # None => Applies(pidFile[c])

Ledger == (\A i \in Invocations : Fits(i)) /\ DaemonsFit

(***************************************************************************)
(* Faultless: behaviours without a fault.                                  *)
(***************************************************************************)

\* One at a time: whatever began before the one that runs is over.
Sequential ==
    \A i, j \in Invocations :
        i < j /\ pc[j] # <<"idle", "-">> => pc[i] = <<"done", "-">>

Newest(i) == \A j \in Invocations : i < j => pc[j] = <<"idle", "-">>

\* The components whose old processes an invocation has stopped.
Cleared(i) ==
    {c \in Components :
        \/ c = "llama-swap" /\ pc[i] \in {"signal", "wait"} \X {"haproxy"}
        \/ Stage(i) \in {"stopped", "start", "pid", "health", "declare", "record"}
        \/ exit[i] = "ok"}

\* From then on what lives there is its own, and so is the pid file, unless the
\* stop has met an error and left the file.
TakenOver ==
    \A i \in Invocations : \A c \in Components :
        Newest(i) /\ c \in Cleared(i) =>
            /\ Alive(c) \subseteq {i}
            /\ ~failed[i] => pidFile[c] \in {None, i}

\* The process that is waited for is the one in the pid file.
TargetNamed ==
    \A i \in Invocations : \A c \in Components :
        pc[i] = <<"wait", c>> => target[i] = pidFile[c]

Managed ==
    \A c \in Components : \A i \in Alive(c) :
        pidFile[c] = i \/ pc[i] = <<"pid", c>>

\* Only its own daemons answer an invocation, and HAProxy has, once it declares.
OwnAnswers ==
    \A i \in Invocations :
        /\ answeredBy[i] \subseteq {i}
        /\ Stage(i) \in {"declare", "record"} \/ active = i \/ activation[i] = "activated"
             => i \in answeredBy[i]

\* The generations that are declared active, or have been.
Declared == {i \in Invocations : activation[i] = "activated" \/ pc[i] = <<"record", "-">>}

ActiveIsLast ==
    /\ active \in {None} \cup Declared
    /\ \A i \in Declared : i <= active

Faultless ==
    Sequential /\ TakenOver /\ TargetNamed /\ Managed /\ OwnAnswers /\ ActiveIsLast

IInv == TypeOK /\ Ledger /\ (faults = 0 => Faultless)

(***************************************************************************)
(* Types and places.                                                       *)
(***************************************************************************)

\* A step is a name and the component it is about, or "-".
LEMMA StepForm ==
    ASSUME NEW p \in Steps
    PROVE  /\ p = <<p[1], p[2]>>
           /\ p[1] \in {"idle", "plan", "stopped", "declare", "record", "fail", "done",
                        "signal", "wait", "start", "pid", "health"}
           /\ p[1] \in {"idle", "plan", "stopped", "declare", "record", "fail", "done"} =>
                p[2] = "-"
           /\ p[1] \in {"signal", "wait", "start", "pid", "health"} => p[2] \in Components
BY DEF Steps, Components

\* ... and every such pair is a step.
LEMMA StepMade ==
    /\ \A s \in {"idle", "plan", "stopped", "declare", "record", "fail", "done"} :
         <<s, "-">> \in Steps
    /\ \A s \in {"signal", "wait", "start", "pid", "health"}, c \in Components :
         <<s, c>> \in Steps
    /\ \A c \in Components : AfterStop(c) \in Steps
BY DEF Steps, Components, AfterStop

\* Before any invocation the types are right.
LEMMA InitTypes == Init => TypeOK
<1> SUFFICES ASSUME Init PROVE TypeOK
  OBVIOUS
<1>1. failed \in [Invocations -> BOOLEAN]
  BY DEF Init
<1>2. QED
  BY <1>1, BoundAssumption, StepMade DEF Init, TypeOK, None

\* What happens to the daemon of one component and one generation.
LEMMA BecomesType ==
    ASSUME TypeOK, NEW c \in Components, NEW i \in Invocations,
           NEW state \in {"gone", "starting", "serving", "killed"}, Becomes(c, i, state)
    PROVE  /\ proc' \in [Components -> [Invocations ->
                                     {"gone", "starting", "serving", "killed"}]]
           /\ proc'[c][i] = state
           /\ \A d \in Components, j \in Invocations :
                d # c \/ j # i => proc'[d][j] = proc[d][j]
BY DEF TypeOK, Becomes

\* Where an invocation goes, the others do not follow.
LEMMA GoToType ==
    ASSUME TypeOK, NEW i \in Invocations, NEW step \in Steps, GoTo(i, step)
    PROVE  /\ pc' \in [Invocations -> Steps]
           /\ pc'[i] = step
           /\ \A j \in Invocations : j # i => pc'[j] = pc[j]
BY DEF TypeOK, GoTo

\* Every step, of an invocation or of a daemon, keeps the types.
LEMMA TypeStep ==
    ASSUME TypeOK, \A i \in Invocations : KindFits(i), [Next]_vars
    PROVE  TypeOK'
<1> USE StepMade, BoundAssumption DEF TypeOK, GoTo, runVars, fileVars, Kinds
<1>1. ASSUME NEW i \in Invocations, Begin(i) PROVE TypeOK'
  BY <1>1 DEF Begin, Components
<1>2. ASSUME NEW i \in Invocations, Plan(i) PROVE TypeOK'
  <2>1. failed' \in [Invocations -> BOOLEAN]
    BY <1>2 DEF Plan
  <2>2. exit' \in [Invocations -> {"none", "ok", "error", "killed"}]
    BY <1>2 DEF Plan
  <2>3. pc' \in [Invocations -> Steps]
    BY <1>2 DEF Plan, Components
  <2>4. QED
    BY <1>2, <2>1, <2>2, <2>3 DEF Plan
<1>3. ASSUME NEW i \in Invocations, ChildrenStopped(i) PROVE TypeOK'
  <2>1. exit' \in [Invocations -> {"none", "ok", "error", "killed"}]
    BY <1>3 DEF ChildrenStopped
  <2>2. pc' \in [Invocations -> Steps]
    BY <1>3 DEF ChildrenStopped, Components
  <2>3. QED
    BY <1>3, <2>1, <2>2 DEF ChildrenStopped
<1>4. ASSUME NEW i \in Invocations, Declare(i) \/ Record(i) PROVE TypeOK'
  <2>1. CASE Declare(i)
    BY <2>1 DEF Declare
  <2>2. CASE Record(i)
    <3>1. exit' \in [Invocations -> {"none", "ok", "error", "killed"}]
      BY <2>2 DEF Record
    <3>2. activation' \in [Invocations -> {"none", "failed", "activated"}]
      BY <2>2 DEF Record
    <3>3. QED
      BY <2>2, <3>1, <3>2 DEF Record
  <2>3. QED
    BY <1>4, <2>1, <2>2
<1>5. ASSUME NEW i \in Invocations, NEW c \in Components, SignalChild(i, c) PROVE TypeOK'
  <2>1. failed' \in [Invocations -> BOOLEAN]
    BY <1>5 DEF SignalChild
  <2>2. target' \in [Invocations -> Invocations \cup {None}]
    BY <1>5 DEF SignalChild
  <2>3. pc' \in [Invocations -> Steps]
    <3>1. AfterStop(c) \in Steps /\ <<"wait", c>> \in Steps
      BY DEF AfterStop
    <3>2. QED
      BY <1>5, <3>1, GoToType DEF SignalChild
  <2>4. QED
    BY <1>5, <2>1, <2>2, <2>3 DEF SignalChild
<1>6. ASSUME NEW i \in Invocations, NEW c \in Components, ChildGone(i, c) PROVE TypeOK'
  BY <1>6 DEF ChildGone, RemovePidFile
<1>7. ASSUME NEW i \in Invocations, NEW c \in Components, KillChild(i, c) PROVE TypeOK'
  <2>1. target[i] \in Invocations
    BY <1>7 DEF KillChild, KindFits, Stage
  <2>2. proc' \in [Components -> [Invocations -> {"gone", "starting", "serving", "killed"}]]
    <3>1. PICK state \in {"gone", "starting", "serving", "killed"} : Becomes(c, target[i], state)
      BY <1>7, <2>1 DEF KillChild
    <3>2. QED
      BY <2>1, <3>1, BecomesType
  <2>3. QED
    BY <1>7, <2>2 DEF KillChild, RemovePidFile
<1>8. ASSUME NEW i \in Invocations, NEW c \in Components, StartChild(i, c) PROVE TypeOK'
  <2>1. proc' \in [Components -> [Invocations -> {"gone", "starting", "serving", "killed"}]]
    BY <1>8, BecomesType DEF StartChild
  <2>2. failed' \in [Invocations -> BOOLEAN]
    BY <1>8 DEF StartChild, Fail
  <2>3. pc' \in [Invocations -> Steps]
    BY <1>8 DEF StartChild, Fail
  <2>4. QED
    BY <1>8, <2>1, <2>2, <2>3 DEF StartChild
<1>9. ASSUME NEW i \in Invocations, NEW c \in Components, WritePidFile(i, c) PROVE TypeOK'
  BY <1>9 DEF WritePidFile
<1>10. ASSUME NEW i \in Invocations, NEW c \in Components, HealthOK(i, c) PROVE TypeOK'
  BY <1>10 DEF HealthOK, Components
<1>11. ASSUME NEW i \in Invocations, NEW c \in Components, HealthTimeout(i, c) PROVE TypeOK'
  BY <1>11 DEF HealthTimeout, Fail
<1>12. ASSUME NEW i \in Invocations, KillInvocation(i) PROVE TypeOK'
  BY <1>12 DEF KillInvocation
<1>13. ASSUME NEW i \in Invocations, WriteFails(i) PROVE TypeOK'
  <2>1. failed' \in [Invocations -> BOOLEAN]
    BY <1>13 DEF WriteFails, Fail
  <2>2. exit' \in [Invocations -> {"none", "ok", "error", "killed"}]
    BY <1>13 DEF WriteFails
  <2>3. pc' \in [Invocations -> Steps]
    <3>1. \/ pc' = [pc EXCEPT ![i] = <<"fail", "-">>]
          \/ pc' = [pc EXCEPT ![i] = <<"done", "-">>]
      BY <1>13 DEF WriteFails, Fail
    <3>2. QED
      BY <3>1
  <2>4. faults' \in 0 .. MaxFaults
    BY <1>13 DEF WriteFails
  <2>5. QED
    BY <1>13, <2>1, <2>2, <2>3, <2>4 DEF WriteFails
<1>14. ASSUME NEW i \in Invocations, NEW c \in Components, Bind(c, i) \/ Die(c, i)
       PROVE TypeOK'
  <2>1. proc' \in [Components -> [Invocations -> {"gone", "starting", "serving", "killed"}]]
    BY <1>14, BecomesType DEF Bind, Die
  <2>2. QED
    BY <1>14, <2>1 DEF Bind, Die
<1>15. CASE UNCHANGED vars
  BY <1>15 DEF vars
<1>16. QED
  BY <1>1, <1>2, <1>3, <1>4, <1>5, <1>6, <1>7, <1>8, <1>9, <1>10, <1>11, <1>12, <1>13,
     <1>14, <1>15 DEF Next, Step

(***************************************************************************)
(* What an invocation does to its record.                                  *)
(***************************************************************************)

\* The same record, part by part.
Keeps(j) ==
    /\ kind'[j] = kind[j] /\ pc'[j] = pc[j] /\ target'[j] = target[j]
    /\ failed'[j] = failed[j] /\ exit'[j] = exit[j]
    /\ answeredBy'[j] = answeredBy[j] /\ activation'[j] = activation[j]

\* An invocation writes its own record only.
LEMMA OthersKeep ==
    ASSUME TypeOK, NEW i \in Invocations,
           Begin(i) \/ Step(i) \/ KillInvocation(i) \/ WriteFails(i)
    PROVE  \A j \in Invocations : j # i => Keeps(j)
<1> SUFFICES ASSUME NEW j \in Invocations, j # i PROVE Keeps(j)
  OBVIOUS
<1> USE DEF TypeOK, GoTo, Fail, Keeps, runVars, fileVars
<1>1. CASE Begin(i)
  BY <1>1 DEF Begin
<1>2. CASE Plan(i)
  BY <1>2 DEF Plan
<1>3. CASE ChildrenStopped(i)
  BY <1>3 DEF ChildrenStopped
<1>4. CASE Declare(i) \/ Record(i)
  BY <1>4 DEF Declare, Record
<1>5. ASSUME NEW c \in Components, SignalChild(i, c) PROVE Keeps(j)
  BY <1>5 DEF SignalChild
<1>6. ASSUME NEW c \in Components, ChildGone(i, c) \/ KillChild(i, c) PROVE Keeps(j)
  BY <1>6 DEF ChildGone, KillChild
<1>7. ASSUME NEW c \in Components, StartChild(i, c) \/ WritePidFile(i, c) PROVE Keeps(j)
  BY <1>7 DEF StartChild, WritePidFile
<1>8. ASSUME NEW c \in Components, HealthOK(i, c) \/ HealthTimeout(i, c) PROVE Keeps(j)
  BY <1>8 DEF HealthOK, HealthTimeout
<1>9. CASE KillInvocation(i)
  BY <1>9 DEF KillInvocation
<1>10. CASE WriteFails(i)
  BY <1>10 DEF WriteFails
<1>11. QED
  BY <1>1, <1>2, <1>3, <1>4, <1>5, <1>6, <1>7, <1>8, <1>9, <1>10 DEF Step

\* The ways out of the steps that have several.
LEMMA PlanShape ==
    ASSUME TypeOK, NEW i \in Invocations, Plan(i)
    PROVE  /\ pc[i] = <<"plan", "-">>
           /\ \/ /\ pc'[i] = <<"signal", "llama-swap">>
                 /\ (failed'[i] <=> failed[i]) /\ exit'[i] = exit[i]
              \/ pc'[i] = <<"fail", "-">> /\ failed'[i] /\ exit'[i] = exit[i]
              \/ pc'[i] = <<"done", "-">> /\ exit'[i] = "error" /\ (failed'[i] <=> failed[i])
           /\ UNCHANGED <<kind, target, answeredBy, proc, pidFile, active, activation, faults>>
BY DEF TypeOK, Plan, GoTo, fileVars

\* Both components stopped: a stop is done, an apply fails or starts something.
LEMMA StoppedShape ==
    ASSUME TypeOK, NEW i \in Invocations, ChildrenStopped(i)
    PROVE  /\ pc[i] = <<"stopped", "-">>
           /\ \/ /\ kind[i] = "stop" /\ pc'[i] = <<"done", "-">>
                 /\ exit'[i] = IF failed[i] THEN "error" ELSE "ok"
              \/ kind[i] # "stop" /\ failed[i] /\ pc'[i] = <<"fail", "-">> /\ exit'[i] = exit[i]
              \/ /\ kind[i] # "stop" /\ ~failed[i] /\ exit'[i] = exit[i]
                 /\ \E c \in Components : pc'[i] = <<"start", c>>
           /\ UNCHANGED <<kind, target, failed, answeredBy, proc, pidFile, active, activation,
                          faults>>
BY DEF TypeOK, ChildrenStopped, GoTo, fileVars, Components

\* No pid file; the process it names is signalled; or the signal is refused.
LEMMA SignalShape ==
    ASSUME TypeOK, NEW i \in Invocations, NEW c \in Components, SignalChild(i, c)
    PROVE  /\ pc[i] = <<"signal", c>>
           /\ \/ /\ pidFile[c] = None /\ pc'[i] = AfterStop(c)
                 /\ target'[i] = target[i] /\ (failed'[i] <=> failed[i])
              \/ /\ pidFile[c] # None /\ pc'[i] = <<"wait", c>>
                 /\ target'[i] = pidFile[c] /\ (failed'[i] <=> failed[i])
              \/ /\ pidFile[c] # None /\ proc[c][pidFile[c]] = "gone" /\ pc'[i] = AfterStop(c)
                 /\ target'[i] = target[i] /\ failed'[i]
           /\ UNCHANGED <<kind, exit, answeredBy, proc, pidFile, active, activation, faults>>
BY DEF TypeOK, SignalChild, GoTo, fileVars

\* A child starts, or the start is an error.
LEMMA StartShape ==
    ASSUME TypeOK, NEW i \in Invocations, NEW c \in Components, StartChild(i, c)
    PROVE  /\ pc[i] = <<"start", c>>
           /\ \/ /\ pc'[i] = <<"pid", c>> /\ (failed'[i] <=> failed[i])
                 /\ proc'[c][i] = "starting"
                 /\ \A d \in Components, j \in Invocations :
                      d # c \/ j # i => proc'[d][j] = proc[d][j]
              \/ pc'[i] = <<"fail", "-">> /\ failed'[i] /\ proc' = proc
           /\ UNCHANGED <<kind, target, exit, answeredBy, pidFile, active, activation, faults>>
<1>1. CASE Becomes(c, i, "starting") /\ GoTo(i, <<"pid", c>>) /\ UNCHANGED failed
  <2>1. /\ proc'[c][i] = "starting"
        /\ \A d \in Components, j \in Invocations : d # c \/ j # i => proc'[d][j] = proc[d][j]
    BY <1>1, BecomesType
  <2>2. QED
    BY <1>1, <2>1 DEF TypeOK, StartChild, GoTo, fileVars
<1>2. CASE Fail(i) /\ UNCHANGED proc
  BY <1>2 DEF TypeOK, StartChild, GoTo, Fail, fileVars
<1>3. QED
  BY <1>1, <1>2 DEF StartChild

\* A failed pid file ends in "fail", any other failed write at once.
LEMMA WriteFailsShape ==
    ASSUME TypeOK, NEW i \in Invocations, WriteFails(i)
    PROVE  /\ \/ /\ Stage(i) = "pid" /\ pc'[i] = <<"fail", "-">>
                 /\ failed'[i] /\ exit'[i] = exit[i]
              \/ /\ Stage(i) \in {"declare", "record", "fail"} /\ pc'[i] = <<"done", "-">>
                 /\ (failed'[i] <=> failed[i]) /\ exit'[i] = "error"
           /\ faults' = faults + 1
           /\ UNCHANGED <<kind, target, answeredBy, proc, pidFile, active, activation>>
BY DEF TypeOK, WriteFails, Fail, GoTo, fileVars, Stage

\* The steps that go one way.
LEMMA BeginShape ==
    ASSUME TypeOK, NEW i \in Invocations, Begin(i)
    PROVE  /\ pc[i] = <<"idle", "-">>
           /\ \A j \in 1 .. i - 1 : pc[j] # <<"idle", "-">>
           /\ \/ kind'[i] = "stop" /\ pc'[i] = <<"signal", "llama-swap">>
              \/ kind'[i] \in {"apply-managed", "apply-direct"} /\ pc'[i] = <<"plan", "-">>
           /\ Running # {} => faults' = faults + 1
           /\ UNCHANGED <<target, failed, exit, answeredBy, proc, pidFile, active, activation>>
<1>1. PICK k \in Kinds :
        /\ kind' = [kind EXCEPT ![i] = k]
        /\ GoTo(i, IF k = "stop" THEN <<"signal", "llama-swap">> ELSE <<"plan", "-">>)
  BY DEF Begin
<1>2. /\ kind'[i] = k
      /\ pc'[i] = IF k = "stop" THEN <<"signal", "llama-swap">> ELSE <<"plan", "-">>
  BY <1>1 DEF TypeOK, GoTo
<1>3. QED
  BY <1>2 DEF Begin, Kinds, fileVars

\* The steps that clear a pid file ...
LEMMA ChildGoneShape ==
    ASSUME TypeOK, NEW i \in Invocations, NEW c \in Components, ChildGone(i, c)
    PROVE  /\ pc[i] = <<"wait", c>> /\ pc'[i] = AfterStop(c)
           /\ proc[c][target[i]] = "gone" /\ proc' = proc
           /\ pidFile'[c] = None /\ \A d \in Components \ {c} : pidFile'[d] = pidFile[d]
           /\ UNCHANGED <<kind, failed, exit, answeredBy, active, activation, faults>>
BY DEF TypeOK, ChildGone, GoTo, RemovePidFile

\* ... the second of them also kills the process that was waited for.
LEMMA KillChildShape ==
    ASSUME TypeOK, NEW i \in Invocations, NEW c \in Components, KillChild(i, c),
           target[i] \in Invocations
    PROVE  /\ pc[i] = <<"wait", c>> /\ pc'[i] = AfterStop(c)
           /\ proc'[c][target[i]] = IF proc[c][target[i]] \in {"starting", "serving"}
                                    THEN "killed" ELSE proc[c][target[i]]
           /\ \A d \in Components, j \in Invocations :
                d # c \/ j # target[i] => proc'[d][j] = proc[d][j]
           /\ pidFile'[c] = None /\ \A d \in Components \ {c} : pidFile'[d] = pidFile[d]
           /\ UNCHANGED <<kind, failed, exit, answeredBy, active, activation, faults>>
<1>1. proc[c][target[i]] \in {"gone", "starting", "serving", "killed"}
  BY DEF TypeOK
<1>2. /\ proc'[c][target[i]] = IF proc[c][target[i]] \in {"starting", "serving"}
                                THEN "killed" ELSE proc[c][target[i]]
      /\ \A d \in Components, j \in Invocations :
           d # c \/ j # target[i] => proc'[d][j] = proc[d][j]
  BY <1>1, BecomesType DEF KillChild
<1>3. QED
  BY <1>2 DEF TypeOK, KillChild, GoTo, RemovePidFile

\* A pid file written, a healthy answer, a deadline: one way each.
LEMMA PidShape ==
    ASSUME TypeOK, NEW i \in Invocations, NEW c \in Components, WritePidFile(i, c)
    PROVE  /\ pc[i] = <<"pid", c>> /\ pc'[i] = <<"health", c>>
           /\ pidFile'[c] = i /\ \A d \in Components \ {c} : pidFile'[d] = pidFile[d]
           /\ UNCHANGED <<kind, target, failed, exit, answeredBy, proc, active, activation,
                          faults>>
BY DEF TypeOK, WritePidFile, GoTo

LEMMA HealthShape ==
    ASSUME TypeOK, NEW i \in Invocations, NEW c \in Components, HealthOK(i, c)
    PROVE  /\ pc[i] = <<"health", c>>
           /\ pc'[i] = IF c = "llama-swap" THEN <<"start", "haproxy">> ELSE <<"declare", "-">>
           /\ \E answerers \in SUBSET Invocations :
                Healthy(c, answerers) /\ answeredBy'[i] = answeredBy[i] \cup answerers
           /\ UNCHANGED <<kind, target, failed, exit, proc, pidFile, active, activation, faults>>
BY DEF TypeOK, HealthOK, GoTo, fileVars

LEMMA TimeoutShape ==
    ASSUME TypeOK, NEW i \in Invocations, NEW c \in Components, HealthTimeout(i, c)
    PROVE  /\ pc[i] = <<"health", c>> /\ pc'[i] = <<"fail", "-">> /\ failed'[i]
           /\ UNCHANGED <<kind, target, exit, answeredBy, proc, pidFile, active, activation,
                          faults>>
BY DEF TypeOK, HealthTimeout, Fail, GoTo, fileVars

\* The two writes that end an apply.
LEMMA DeclareShape ==
    ASSUME TypeOK, NEW i \in Invocations, Declare(i)
    PROVE  /\ pc[i] = <<"declare", "-">> /\ pc'[i] = <<"record", "-">> /\ active' = i
           /\ UNCHANGED <<kind, target, failed, exit, answeredBy, proc, pidFile, activation,
                          faults>>
BY DEF TypeOK, Declare, GoTo

LEMMA RecordShape ==
    ASSUME TypeOK, NEW i \in Invocations, Record(i)
    PROVE  /\ Stage(i) \in {"record", "fail"} /\ pc'[i] = <<"done", "-">>
           /\ activation'[i] = IF failed[i] THEN "failed" ELSE "activated"
           /\ exit'[i] = IF failed[i] THEN "error" ELSE "ok"
           /\ UNCHANGED <<kind, target, failed, answeredBy, proc, pidFile, active, faults>>
BY DEF TypeOK, Record, GoTo, Stage

\* A daemon that is gone is not started by anybody else, and none comes to life.
Fades ==
    \A d \in Components, j \in Invocations :
        /\ proc[d][j] = "gone" => proc'[d][j] = "gone"
        /\ proc'[d][j] \in {"starting", "serving"} => proc[d][j] \in {"starting", "serving"}

\* What a daemon does on its own starts none.
LEMMA DaemonFades ==
    ASSUME TypeOK, NEW i \in Invocations, NEW c \in Components, Bind(c, i) \/ Die(c, i)
    PROVE  Fades
BY BecomesType DEF Bind, Die, Fades

(***************************************************************************)
(* Ledger is kept.                                                         *)
(***************************************************************************)

\* Once a generation is active one always is; faults are never taken back.
LEMMA Monotone ==
    ASSUME TypeOK, Next
    PROVE  /\ active # None => active' # None
           /\ faults' = 0 => faults = 0
<1> USE BoundAssumption DEF TypeOK, None, fileVars
<1>1. ASSUME NEW i \in Invocations,
             Begin(i) \/ Plan(i) \/ ChildrenStopped(i) \/ Declare(i) \/ Record(i)
               \/ KillInvocation(i) \/ WriteFails(i)
      PROVE  /\ active' = active \/ active' = i
             /\ faults' = faults \/ faults' = faults + 1
  BY <1>1 DEF Begin, Plan, ChildrenStopped, Declare, Record, KillInvocation, WriteFails
<1>2. ASSUME NEW i \in Invocations, NEW c \in Components,
             \/ SignalChild(i, c) \/ ChildGone(i, c) \/ KillChild(i, c) \/ StartChild(i, c)
             \/ WritePidFile(i, c) \/ HealthOK(i, c) \/ HealthTimeout(i, c)
             \/ Bind(c, i) \/ Die(c, i)
      PROVE  active' = active /\ faults' = faults
  BY <1>2 DEF SignalChild, ChildGone, KillChild, StartChild, WritePidFile, HealthOK,
              HealthTimeout, Bind, Die
<1>3. QED
  BY <1>1, <1>2 DEF Next, Step, Invocations

\* An invocation's record stays in order when others step ...
LEMMA OthersFit ==
    ASSUME NEW j \in Invocations, Fits(j), Keeps(j),
           active # None => active' # None, faults' = 0 => faults = 0
    PROVE  Fits(j)'
BY DEF Fits, KindFits, ErrorsFit, RecordsFit, Keeps, Stage

\* ... and when it steps itself.
LEMMA OwnFits ==
    ASSUME TypeOK, NEW i \in Invocations, Fits(i), faults' = 0 => faults = 0,
           Begin(i) \/ Step(i) \/ KillInvocation(i) \/ WriteFails(i)
    PROVE  Fits(i)'
<1> USE DEF Fits, KindFits, ErrorsFit, RecordsFit, Stage
<1>1. CASE Begin(i)
  BY <1>1, BeginShape
<1>2. CASE Plan(i)
  <2>1. CASE failed'[i] <=> failed[i]
    BY <1>2, <2>1, PlanShape
  <2>2. CASE failed'[i] /\ pc'[i] = <<"fail", "-">>
    BY <1>2, <2>2, PlanShape
  <2>3. QED
    BY <1>2, <2>1, <2>2, PlanShape
<1>3. CASE ChildrenStopped(i)
  <2>1. CASE kind[i] = "stop"
    BY <1>3, <2>1, StoppedShape
  <2>2. CASE kind[i] # "stop"
    BY <1>3, <2>2, StoppedShape
  <2>3. QED
    BY <2>1, <2>2
<1>4. CASE Declare(i)
  BY <1>4, DeclareShape, BoundAssumption DEF Invocations, None
<1>5. CASE Record(i)
  BY <1>5, RecordShape
<1>6. ASSUME NEW c \in Components, SignalChild(i, c) PROVE Fits(i)'
  <2>1. CASE failed'[i] <=> failed[i]
    BY <1>6, <2>1, SignalShape DEF AfterStop
  <2>2. CASE failed'[i] /\ pc'[i] = AfterStop(c)
    BY <1>6, <2>2, SignalShape DEF AfterStop
  <2>3. QED
    BY <1>6, <2>1, <2>2, SignalShape
<1>7. ASSUME NEW c \in Components, ChildGone(i, c) \/ KillChild(i, c) PROVE Fits(i)'
  <2>1. target[i] \in Invocations
    BY <1>7 DEF ChildGone, KillChild, TypeOK
  <2>2. QED
    BY <1>7, <2>1, ChildGoneShape, KillChildShape DEF AfterStop
<1>8. ASSUME NEW c \in Components, StartChild(i, c) PROVE Fits(i)'
  <2>1. CASE (failed'[i] <=> failed[i]) /\ pc'[i] = <<"pid", c>>
    BY <1>8, <2>1, StartShape
  <2>2. CASE failed'[i] /\ pc'[i] = <<"fail", "-">>
    BY <1>8, <2>2, StartShape
  <2>3. QED
    BY <1>8, <2>1, <2>2, StartShape
<1>9. ASSUME NEW c \in Components, WritePidFile(i, c) PROVE Fits(i)'
  BY <1>9, PidShape
<1>10. ASSUME NEW c \in Components, HealthOK(i, c) PROVE Fits(i)'
  BY <1>10, HealthShape
<1>11. ASSUME NEW c \in Components, HealthTimeout(i, c) PROVE Fits(i)'
  BY <1>11, TimeoutShape
<1>12. CASE KillInvocation(i)
  <2>1. /\ Stage(i) \notin {"idle", "done"} /\ pc'[i] = <<"done", "-">>
        /\ exit'[i] = "killed"
        /\ UNCHANGED <<kind, target, failed, activation, active>>
    BY <1>12 DEF KillInvocation, TypeOK, GoTo, fileVars
  <2>2. QED
    BY <2>1
<1>13. CASE WriteFails(i)
  <2>1. faults' # 0
    BY <1>13, WriteFailsShape, BoundAssumption DEF TypeOK
  <2>2. CASE (failed'[i] <=> failed[i]) /\ pc'[i] = <<"done", "-">>
    BY <1>13, <2>1, <2>2, WriteFailsShape
  <2>3. CASE failed'[i] /\ pc'[i] = <<"fail", "-">>
    BY <1>13, <2>1, <2>3, WriteFailsShape
  <2>4. QED
    BY <1>13, <2>2, <2>3, WriteFailsShape
<1>14. QED
  BY <1>1, <1>2, <1>3, <1>4, <1>5, <1>6, <1>7, <1>8, <1>9, <1>10, <1>11, <1>12, <1>13 DEF Step

\* Only an apply starts a daemon and writes a pid.
LEMMA DaemonsFitStep ==
    ASSUME TypeOK, \A j \in Invocations : KindFits(j), DaemonsFit, Next
    PROVE  DaemonsFit'
<1> USE DEF TypeOK, DaemonsFit, KindFits, Applies, Stage, Keeps, None
<1>1. ASSUME NEW i \in Invocations, Begin(i) PROVE DaemonsFit'
  <2>1. ASSUME NEW j \in Invocations, Applies(j) PROVE Applies(j)'
    BY <1>1, <2>1, BeginShape, OthersKeep
  <2>2. UNCHANGED <<proc, pidFile>>
    BY <1>1, BeginShape
  <2>3. QED
    BY <2>1, <2>2
<1>2. ASSUME NEW i \in Invocations,
             Plan(i) \/ ChildrenStopped(i) \/ Declare(i) \/ Record(i) \/ KillInvocation(i)
               \/ WriteFails(i)
      PROVE  UNCHANGED <<kind, proc, pidFile>>
  BY <1>2 DEF Plan, ChildrenStopped, Declare, Record, KillInvocation, WriteFails, fileVars
<1>3. ASSUME NEW i \in Invocations, NEW c \in Components,
             SignalChild(i, c) \/ HealthOK(i, c) \/ HealthTimeout(i, c)
      PROVE  UNCHANGED <<kind, proc, pidFile>>
  BY <1>3 DEF SignalChild, HealthOK, HealthTimeout, fileVars
<1>4. ASSUME NEW i \in Invocations, NEW c \in Components, ChildGone(i, c) PROVE DaemonsFit'
  BY <1>4, ChildGoneShape
<1>5. ASSUME NEW i \in Invocations, NEW c \in Components, KillChild(i, c) PROVE DaemonsFit'
  <2>1. target[i] \in Invocations
    BY <1>5 DEF KillChild
  <2>2. kind' = kind /\ \A d \in Components : pidFile'[d] \in {pidFile[d], None}
    BY <1>5, <2>1, KillChildShape
  <2>3. ASSUME NEW d \in Components, NEW j \in Invocations, proc'[d][j] # "gone"
        PROVE  proc[d][j] # "gone"
    <3>1. CASE d = c /\ j = target[i]
      <4>1. proc'[c][target[i]] = IF proc[c][target[i]] \in {"starting", "serving"}
                                  THEN "killed" ELSE proc[c][target[i]]
        BY <1>5, <2>1, KillChildShape
      <4>2. QED
        BY <2>3, <3>1, <4>1
    <3>2. CASE ~(d = c /\ j = target[i])
      <4>1. proc'[d][j] = proc[d][j]
        BY <1>5, <2>1, <3>2, KillChildShape
      <4>2. QED
        BY <2>3, <4>1
    <3>3. QED
      BY <3>1, <3>2
  <2>4. QED
    BY <2>2, <2>3
<1>6. ASSUME NEW i \in Invocations, NEW c \in Components, StartChild(i, c) PROVE DaemonsFit'
  BY <1>6, StartShape DEF Kinds
<1>7. ASSUME NEW i \in Invocations, NEW c \in Components, WritePidFile(i, c) PROVE DaemonsFit'
  BY <1>7, PidShape DEF Kinds
<1>8. ASSUME NEW i \in Invocations, NEW c \in Components, Bind(c, i) \/ Die(c, i)
      PROVE  DaemonsFit'
  <2>1. UNCHANGED <<kind, pidFile>>
    BY <1>8 DEF Bind, Die, runVars, fileVars
  <2>2. QED
    BY <1>8, <2>1, DaemonFades DEF Fades
<1>9. QED
  BY <1>1, <1>2, <1>3, <1>4, <1>5, <1>6, <1>7, <1>8 DEF Next, Step

\* Every step keeps the ledger of every invocation.
LEMMA LedgerStep ==
    ASSUME TypeOK, Ledger, [Next]_vars
    PROVE  Ledger'
<1>1. CASE Next
  <2>1. DaemonsFit'
    BY <1>1, DaemonsFitStep DEF Ledger, Fits
  <2>2. ASSUME NEW j \in Invocations PROVE Fits(j)'
    <3>1. ASSUME NEW i \in Invocations,
                 Begin(i) \/ Step(i) \/ KillInvocation(i) \/ WriteFails(i)
          PROVE  Fits(j)'
      <4>1. CASE j = i
        BY <1>1, <3>1, <4>1, OwnFits, Monotone DEF Ledger
      <4>2. CASE j # i
        BY <1>1, <3>1, <4>2, OthersFit, OthersKeep, Monotone DEF Ledger
      <4>3. QED
        BY <4>1, <4>2
    <3>2. ASSUME NEW i \in Invocations, NEW c \in Components, Bind(c, i) \/ Die(c, i)
          PROVE  Fits(j)'
      <4>1. Keeps(j)
        BY <3>2 DEF Bind, Die, Keeps, runVars, fileVars
      <4>2. QED
        BY <1>1, <4>1, OthersFit, Monotone DEF Ledger
    <3>3. QED
      BY <1>1, <3>1, <3>2 DEF Next
  <2>3. QED
    BY <2>1, <2>2 DEF Ledger
<1>2. CASE UNCHANGED vars
  BY <1>2 DEF vars, runVars, fileVars, Ledger, Fits, KindFits, ErrorsFit, RecordsFit,
              DaemonsFit, Applies, Stage
<1>3. QED
  BY <1>1, <1>2

(***************************************************************************)
(* Faultless is kept.                                                      *)
(***************************************************************************)

\* A step is that of an invocation that has begun and is not over.
LEMMA StepRuns ==
    ASSUME TypeOK, NEW i \in Invocations, KindFits(i), Step(i)
    PROVE  Stage(i) \notin {"idle", "done"} /\ pc'[i] # <<"idle", "-">> /\ faults' = faults
<1> USE DEF Stage, AfterStop
<1>1. CASE Plan(i)
  BY <1>1, PlanShape
<1>2. CASE ChildrenStopped(i)
  BY <1>2, StoppedShape
<1>3. CASE Declare(i) \/ Record(i)
  BY <1>3, DeclareShape, RecordShape
<1>4. ASSUME NEW c \in Components, SignalChild(i, c)
      PROVE  /\ Stage(i) \notin {"idle", "done"} /\ pc'[i] # <<"idle", "-">>
             /\ faults' = faults
  BY <1>4, SignalShape
<1>5. ASSUME NEW c \in Components, ChildGone(i, c) \/ KillChild(i, c)
      PROVE  /\ Stage(i) \notin {"idle", "done"} /\ pc'[i] # <<"idle", "-">>
             /\ faults' = faults
  <2>1. target[i] \in Invocations
    BY <1>5 DEF ChildGone, KillChild, TypeOK, KindFits
  <2>2. QED
    BY <1>5, <2>1, ChildGoneShape, KillChildShape
<1>6. ASSUME NEW c \in Components, StartChild(i, c) \/ WritePidFile(i, c)
      PROVE  /\ Stage(i) \notin {"idle", "done"} /\ pc'[i] # <<"idle", "-">>
             /\ faults' = faults
  BY <1>6, StartShape, PidShape
<1>7. ASSUME NEW c \in Components, HealthOK(i, c) \/ HealthTimeout(i, c)
      PROVE  /\ Stage(i) \notin {"idle", "done"} /\ pc'[i] # <<"idle", "-">>
             /\ faults' = faults
  BY <1>7, HealthShape, TimeoutShape
<1>8. QED
  BY <1>1, <1>2, <1>3, <1>4, <1>5, <1>6, <1>7 DEF Step

\* Without faults, the one that runs is the newest, and the only one that runs.
LEMMA Alone ==
    ASSUME TypeOK, Sequential, NEW i \in Invocations, Stage(i) \notin {"idle", "done"}
    PROVE  /\ Newest(i)
           /\ \A j \in Invocations : j # i => Stage(j) \in {"idle", "done"}
<1>1. ASSUME NEW j \in Invocations, j # i PROVE pc[j] \in {<<"idle", "-">>, <<"done", "-">>}
  BY <1>1 DEF Sequential, Stage, Invocations
<1>2. Newest(i)
  BY DEF Sequential, Newest, Stage, Invocations
<1>3. QED
  BY <1>1, <1>2 DEF Stage

\* The kinds of step there are without a fault.
LEMMA FaultlessCases ==
    ASSUME TypeOK, faults = 0, faults' = 0, Next
    PROVE  \E i \in Invocations :
             \/ Begin(i) /\ Running = {}
             \/ Step(i)
             \/ \E c \in Components : Bind(c, i) \/ Die(c, i)
<1>1. PICK i \in Invocations :
        \/ Begin(i) \/ Step(i) \/ KillInvocation(i) \/ WriteFails(i)
        \/ \E c \in Components : Bind(c, i) \/ Die(c, i)
  BY DEF Next
<1>2. ~KillInvocation(i) /\ ~WriteFails(i)
  BY DEF KillInvocation, WriteFails
<1>3. Begin(i) => Running = {}
  BY BeginShape
<1>4. QED
  BY <1>1, <1>2, <1>3

\* An invocation that begins without a fault finds all before it over.
LEMMA SequentialStep ==
    ASSUME TypeOK, \A i \in Invocations : KindFits(i), faults = 0, faults' = 0,
           Sequential, Next
    PROVE  Sequential'
<1>1. PICK i \in Invocations :
        \/ Begin(i) /\ Running = {}
        \/ Step(i)
        \/ \E c \in Components : Bind(c, i) \/ Die(c, i)
  BY FaultlessCases
<1>2. SUFFICES ASSUME NEW a \in Invocations, NEW b \in Invocations, a < b,
                      pc'[b] # <<"idle", "-">>
               PROVE  pc'[a] = <<"done", "-">>
  BY DEF Sequential
<1>3. CASE Begin(i) /\ Running = {}
  <2>1. \A j \in Invocations : j # i => pc'[j] = pc[j]
    BY <1>3, OthersKeep DEF Keeps
  <2>2. CASE b = i
    <3>1. pc[a] # <<"idle", "-">>
      BY <1>2, <1>3, <2>2, BeginShape DEF Invocations
    <3>2. pc[a][1] \in {"idle", "done"}
      BY <1>3 DEF Running
    <3>3. pc[a] = <<"done", "-">>
      BY <3>1, <3>2, StepForm DEF TypeOK
    <3>4. QED
      BY <1>2, <2>1, <2>2, <3>3 DEF Invocations
  <2>3. CASE b # i
    BY <1>2, <1>3, <2>1, <2>3, BeginShape DEF Sequential
  <2>4. QED
    BY <2>2, <2>3
<1>4. CASE Step(i)
  <2>1. \A j \in Invocations : j # i => pc'[j] = pc[j]
    BY <1>4, OthersKeep DEF Keeps
  <2>2. pc[i] # <<"idle", "-">> /\ pc[i] # <<"done", "-">> /\ pc'[i] # <<"idle", "-">>
    BY <1>4, StepRuns DEF Stage
  <2>3. QED
    BY <1>2, <2>1, <2>2 DEF Sequential
<1>5. CASE \E c \in Components : Bind(c, i) \/ Die(c, i)
  BY <1>2, <1>5 DEF Bind, Die, runVars, Sequential
<1>6. QED
  BY <1>1, <1>3, <1>4, <1>5

\* Between the signal and the removal nobody else writes the pid file.
LEMMA TargetStep ==
    ASSUME TypeOK, \A i \in Invocations : KindFits(i), faults = 0, faults' = 0,
           Sequential, TargetNamed, Next
    PROVE  TargetNamed'
<1>1. PICK i \in Invocations :
        \/ Begin(i) /\ Running = {}
        \/ Step(i)
        \/ \E c \in Components : Bind(c, i) \/ Die(c, i)
  BY FaultlessCases
<1>2. SUFFICES ASSUME NEW j \in Invocations, NEW d \in Components, pc'[j] = <<"wait", d>>
               PROVE  target'[j] = pidFile'[d]
  BY DEF TargetNamed
<1>3. CASE Begin(i)
  <2>1. j # i
    BY <1>2, <1>3, BeginShape
  <2>2. QED
    BY <1>2, <1>3, <2>1, BeginShape, OthersKeep DEF Keeps, TargetNamed
<1>4. CASE Step(i)
  <2>1. Stage(i) \notin {"idle", "done"}
    BY <1>4, StepRuns
  <2>2. j = i
    BY <1>2, <1>4, <2>1, Alone, OthersKeep DEF Keeps, Stage
  <2>3. ASSUME NEW c \in Components, SignalChild(i, c) PROVE target'[i] = pidFile'[d]
    BY <1>2, <2>2, <2>3, SignalShape DEF AfterStop
  <2>4. ASSUME NEW c \in Components,
               ChildGone(i, c) \/ KillChild(i, c) \/ StartChild(i, c) \/ WritePidFile(i, c)
                 \/ HealthOK(i, c) \/ HealthTimeout(i, c)
        PROVE  FALSE
    <3>1. ChildGone(i, c) \/ KillChild(i, c) => target[i] \in Invocations
      BY DEF ChildGone, KillChild, TypeOK, KindFits, Stage
    <3>2. QED
      BY <1>2, <2>2, <2>4, <3>1, ChildGoneShape, KillChildShape, StartShape, PidShape,
         HealthShape, TimeoutShape DEF AfterStop
  <2>5. ~(Plan(i) \/ ChildrenStopped(i) \/ Declare(i) \/ Record(i))
    BY <1>2, <2>2, PlanShape, StoppedShape, DeclareShape, RecordShape
  <2>6. QED
    BY <1>4, <2>2, <2>3, <2>4, <2>5 DEF Step
<1>5. CASE \E c \in Components : Bind(c, i) \/ Die(c, i)
  BY <1>2, <1>5 DEF Bind, Die, runVars, fileVars, TargetNamed
<1>6. QED
  BY <1>1, <1>3, <1>4, <1>5

\* What an invocation that stops a component's processes finds and leaves.
LEMMA StopClears ==
    ASSUME TypeOK, NEW i \in Invocations, NEW c \in Components, KindFits(i), Sequential,
           TargetNamed, Managed,
           \/ SignalChild(i, c) /\ pc'[i] = AfterStop(c)
           \/ ChildGone(i, c) \/ KillChild(i, c)
    PROVE  Alive(c)' = {} /\ (~failed'[i] => pidFile'[c] = None)
<1>1. Stage(i) \in {"signal", "wait"}
  BY DEF SignalChild, ChildGone, KillChild, Stage
<1>2. ASSUME NEW k \in Alive(c) PROVE pidFile[c] = k
  <2>1. pc[k] # <<"pid", c>>
    BY <1>1, Alone DEF Stage, Alive
  <2>2. QED
    BY <2>1 DEF Managed
<1>3. CASE SignalChild(i, c) /\ pc'[i] = AfterStop(c)
  <2>1. proc' = proc /\ pidFile' = pidFile
    BY <1>3, SignalShape
  <2>2. \/ pidFile[c] = None
        \/ pidFile[c] # None /\ proc[c][pidFile[c]] = "gone" /\ failed'[i]
    BY <1>3, SignalShape DEF AfterStop
  <2>3. Alive(c) = {}
    BY <1>2, <2>2, BoundAssumption DEF Alive, Invocations, None
  <2>4. QED
    BY <2>1, <2>2, <2>3 DEF Alive
<1>4. CASE ChildGone(i, c) \/ KillChild(i, c)
  <2>1. pc[i] = <<"wait", c>>
    BY <1>4 DEF ChildGone, KillChild
  <2>2. target[i] \in Invocations /\ target[i] = pidFile[c]
    BY <2>1 DEF TypeOK, KindFits, TargetNamed, Stage
  <2>3. /\ proc'[c][target[i]] \notin {"starting", "serving"} /\ pidFile'[c] = None
        /\ \A k \in Invocations : k # target[i] => proc'[c][k] = proc[c][k]
    <3>1. CASE ChildGone(i, c)
      BY <3>1, ChildGoneShape
    <3>2. CASE KillChild(i, c)
      BY <3>2, <2>2, KillChildShape
    <3>3. QED
      BY <1>4, <3>1, <3>2
  <2>4. ASSUME NEW k \in Invocations, proc'[c][k] \in {"starting", "serving"} PROVE FALSE
    <3>1. k # target[i]
      BY <2>3, <2>4
    <3>2. k \in Alive(c)
      BY <2>3, <2>4, <3>1 DEF Alive
    <3>3. QED
      BY <1>2, <2>2, <3>1, <3>2
  <2>5. QED
    BY <2>3, <2>4 DEF Alive
<1>5. QED
  BY <1>3, <1>4

\* A pid file is removed only once its process is on its way out, and replaced
\* only by that of a new one.
LEMMA ManagedStep ==
    ASSUME TypeOK, Ledger, faults = 0, faults' = 0, Faultless, Next
    PROVE  Managed'
<1>1. PICK i \in Invocations :
        \/ Begin(i) /\ Running = {}
        \/ Step(i)
        \/ \E c \in Components : Bind(c, i) \/ Die(c, i)
  BY FaultlessCases
<1>2. SUFFICES ASSUME NEW d \in Components, NEW k \in Invocations,
                      proc'[d][k] \in {"starting", "serving"}
               PROVE  pidFile'[d] = k \/ pc'[k] = <<"pid", d>>
  BY DEF Managed, Alive
<1>3. ASSUME proc[d][k] \in {"starting", "serving"}
      PROVE  pidFile[d] = k \/ pc[k] = <<"pid", d>>
  BY <1>3 DEF Faultless, Managed, Alive
<1>4. \A c \in Components : ChildGone(i, c) \/ KillChild(i, c) => target[i] \in Invocations
  BY DEF ChildGone, KillChild, TypeOK, Ledger, Fits, KindFits, Stage
\* It is enough that the daemon was there before, that its pid file stays, and
\* that its own invocation was not about to write it, or has not moved.
<1>5. ASSUME proc[d][k] \in {"starting", "serving"}, pidFile'[d] = pidFile[d],
             pc[k] = <<"pid", d>> => pc'[k] = pc[k]
      PROVE  pidFile'[d] = k \/ pc'[k] = <<"pid", d>>
  BY <1>3, <1>5
<1>6. CASE Begin(i)
  <2>1. UNCHANGED <<proc, pidFile>> /\ pc[i] # <<"pid", d>>
    BY <1>6, BeginShape
  <2>2. QED
    BY <1>2, <1>5, <1>6, <2>1, OthersKeep DEF Keeps
<1>7. CASE Step(i)
  <2>1. \A j \in Invocations : j # i => pc'[j] = pc[j]
    BY <1>7, OthersKeep DEF Keeps
  <2>2. CASE Plan(i) \/ ChildrenStopped(i) \/ Declare(i) \/ Record(i)
    <3>1. UNCHANGED <<proc, pidFile>> /\ pc[i] # <<"pid", d>>
      BY <2>2, PlanShape, StoppedShape, DeclareShape, RecordShape DEF Stage
    <3>2. QED
      BY <1>2, <1>5, <2>1, <3>1
  <2>3. ASSUME NEW c \in Components,
               SignalChild(i, c) \/ HealthOK(i, c) \/ HealthTimeout(i, c)
        PROVE  pidFile'[d] = k \/ pc'[k] = <<"pid", d>>
    <3>1. UNCHANGED <<proc, pidFile>> /\ pc[i] # <<"pid", d>>
      BY <2>3, SignalShape, HealthShape, TimeoutShape
    <3>2. QED
      BY <1>2, <1>5, <2>1, <3>1
  <2>4. ASSUME NEW c \in Components, ChildGone(i, c) \/ KillChild(i, c)
        PROVE  pidFile'[d] = k \/ pc'[k] = <<"pid", d>>
    <3>1. Alive(c)' = {}
      BY <1>4, <2>4, StopClears DEF Ledger, Fits, Faultless
    <3>2. d # c
      BY <1>2, <3>1 DEF Alive
    <3>3. /\ pidFile'[d] = pidFile[d] /\ pc[i] # <<"pid", d>>
          /\ proc'[d][k] = proc[d][k]
      BY <1>4, <2>4, <3>2, ChildGoneShape, KillChildShape
    <3>4. QED
      BY <1>2, <1>5, <2>1, <3>3
  <2>5. ASSUME NEW c \in Components, StartChild(i, c)
        PROVE  pidFile'[d] = k \/ pc'[k] = <<"pid", d>>
    <3>1. CASE d = c /\ k = i /\ proc' # proc
      BY <2>5, <3>1, StartShape
    <3>2. CASE ~(d = c /\ k = i) \/ proc' = proc
      <4>1. proc'[d][k] = proc[d][k] /\ pidFile' = pidFile /\ pc[i] # <<"pid", d>>
        BY <2>5, <3>2, StartShape
      <4>2. QED
        BY <1>2, <1>5, <2>1, <4>1
    <3>3. QED
      BY <3>1, <3>2
  <2>6. ASSUME NEW c \in Components, WritePidFile(i, c)
        PROVE  pidFile'[d] = k \/ pc'[k] = <<"pid", d>>
    <3>1. proc' = proc /\ pc[i] = <<"pid", c>> /\ pidFile'[c] = i
      BY <2>6, PidShape
    <3>2. CASE d = c
      <4>1. Newest(i) /\ c \in Cleared(i)
        BY <3>1, Alone DEF Cleared, Stage, Faultless
      <4>2. Alive(c) \subseteq {i}
        BY <4>1 DEF Faultless, TakenOver
      <4>3. QED
        BY <1>2, <3>1, <3>2, <4>2 DEF Alive
    <3>3. CASE d # c
      <4>1. pidFile'[d] = pidFile[d] /\ pc[i] # <<"pid", d>>
        BY <2>6, <3>1, <3>3, PidShape
      <4>2. QED
        BY <1>2, <1>5, <2>1, <3>1, <4>1
    <3>4. QED
      BY <3>2, <3>3
  <2>7. QED
    BY <1>7, <2>2, <2>3, <2>4, <2>5, <2>6 DEF Step
<1>8. CASE \E c \in Components : Bind(c, i) \/ Die(c, i)
  <2>1. UNCHANGED <<pc, pidFile>>
    BY <1>8 DEF Bind, Die, runVars, fileVars
  <2>2. proc[d][k] \in {"starting", "serving"}
    BY <1>2, <1>8, DaemonFades DEF Fades
  <2>3. QED
    BY <1>5, <2>1, <2>2
<1>9. QED
  BY <1>1, <1>6, <1>7, <1>8

\* What an invocation has cleared stays clear of the processes of others.
LEMMA TakenOverStep ==
    ASSUME TypeOK, Ledger, faults = 0, faults' = 0, Faultless, Next
    PROVE  TakenOver'
<1>1. PICK i \in Invocations :
        \/ Begin(i) /\ Running = {}
        \/ Step(i)
        \/ \E c \in Components : Bind(c, i) \/ Die(c, i)
  BY FaultlessCases
<1>2. SUFFICES ASSUME NEW j \in Invocations, NEW d \in Components,
                      Newest(j)', d \in Cleared(j)'
               PROVE  Alive(d)' \subseteq {j} /\ (~failed'[j] => pidFile'[d] \in {None, j})
  BY DEF TakenOver
<1>3. Fits(j)
  BY DEF Ledger
<1>4. ASSUME j # i, Keeps(j), pc'[i] # <<"idle", "-">>, Newest(i) PROVE FALSE
  <2>1. CASE j < i
    BY <1>2, <1>4, <2>1 DEF Newest
  <2>2. CASE i < j
    <3>1. pc[j] = <<"idle", "-">>
      BY <1>4, <2>2 DEF Newest
    <3>2. exit'[j] = "none" /\ pc'[j] = <<"idle", "-">>
      BY <1>3, <1>4, <3>1 DEF Fits, ErrorsFit, Keeps, Stage
    <3>3. QED
      BY <1>2, <3>2 DEF Cleared, Stage
  <2>3. QED
    BY <1>4, <2>1, <2>2 DEF Invocations
<1>5. CASE Begin(i)
  <2>1. Newest(i)
    BY <1>5, BeginShape DEF Faultless, Sequential, Newest
  <2>2. j = i
    BY <1>4, <1>5, <2>1, OthersKeep, BeginShape
  <2>3. exit'[i] = "none"
    BY <1>3, <1>5, <2>2, BeginShape DEF Fits, ErrorsFit, Stage
  <2>4. QED
    BY <1>2, <1>5, <2>2, <2>3, BeginShape DEF Cleared, Stage
<1>6. CASE Step(i)
  <2>1. Stage(i) \notin {"idle", "done"} /\ pc'[i] # <<"idle", "-">>
    BY <1>6, StepRuns DEF Ledger, Fits
  <2>2. Newest(i)
    BY <2>1, Alone DEF Faultless
  <2>3. j = i
    BY <1>4, <1>6, <2>1, <2>2, OthersKeep
  <2>4. exit[i] = "none"
    BY <1>3, <2>1, <2>3 DEF Fits, ErrorsFit
  \* What was cleared before stays so.
  <2>5. ASSUME d \in Cleared(i)
        PROVE  Alive(d) \subseteq {i} /\ (~failed[i] => pidFile[d] \in {None, i})
    BY <2>2, <2>5 DEF Faultless, TakenOver
  <2>6. CASE Plan(i)
    BY <1>2, <2>3, <2>4, <2>6, PlanShape DEF Cleared, Stage
  <2>7. CASE ChildrenStopped(i)
    <3>1. d \in Cleared(i) /\ UNCHANGED <<failed, proc, pidFile>>
      BY <2>7, StoppedShape DEF Cleared, Stage
    <3>2. QED
      BY <2>3, <2>5, <3>1 DEF Alive
  <2>8. CASE Declare(i)
    <3>1. d \in Cleared(i) /\ UNCHANGED <<failed, proc, pidFile>>
      BY <2>8, DeclareShape DEF Cleared, Stage
    <3>2. QED
      BY <2>3, <2>5, <3>1 DEF Alive
  <2>9. CASE Record(i)
    <3>1. UNCHANGED <<failed, proc, pidFile>> /\ Stage(i) \in {"record", "fail"}
      BY <2>9, RecordShape
    <3>2. ~failed[i]
      BY <1>2, <2>3, <2>9, RecordShape DEF Cleared, Stage
    <3>3. d \in Cleared(i)
      BY <1>3, <2>3, <3>1, <3>2 DEF Cleared, Fits, ErrorsFit
    <3>4. QED
      BY <2>3, <2>5, <3>1, <3>3 DEF Alive
  <2>10. ASSUME NEW c \in Components,
                \/ SignalChild(i, c) /\ pc'[i] = AfterStop(c)
                \/ ChildGone(i, c) \/ KillChild(i, c)
         PROVE  Alive(d)' \subseteq {i} /\ (~failed'[i] => pidFile'[d] \in {None, i})
    <3>1. Alive(c)' = {} /\ (~failed'[i] => pidFile'[c] = None)
      BY <2>10, StopClears DEF Ledger, Fits, Faultless
    <3>2. CASE d = c
      BY <3>1, <3>2
    <3>3. CASE d # c
      <4>1. ChildGone(i, c) \/ KillChild(i, c) => target[i] \in Invocations
        BY DEF ChildGone, KillChild, TypeOK, Ledger, Fits, KindFits, Stage
      <4>2. /\ pc[i] \in {<<"signal", c>>, <<"wait", c>>} /\ pc'[i] = AfterStop(c)
            /\ exit'[i] = exit[i]
            /\ \A k \in Invocations : proc'[d][k] = proc[d][k]
            /\ pidFile'[d] = pidFile[d]
        <5>1. CASE SignalChild(i, c) /\ pc'[i] = AfterStop(c)
          BY <5>1, SignalShape
        <5>2. CASE ChildGone(i, c)
          BY <3>3, <5>2, ChildGoneShape
        <5>3. CASE KillChild(i, c)
          <6>1. target[i] \in Invocations
            BY <4>1, <5>3
          <6>2. \A k \in Invocations : proc'[d][k] = proc[d][k]
            BY <3>3, <5>3, <6>1, KillChildShape
          <6>3. /\ pc[i] = <<"wait", c>> /\ pc'[i] = AfterStop(c)
                /\ exit'[i] = exit[i] /\ pidFile'[d] = pidFile[d]
            BY <3>3, <5>3 DEF KillChild, RemovePidFile, GoTo, TypeOK
          <6>4. QED
            BY <6>2, <6>3
        <5>4. QED
          BY <2>10, <5>1, <5>2, <5>3
      <4>3. failed[i] => failed'[i]
        <5>1. CASE SignalChild(i, c)
          BY <5>1, SignalShape
        <5>2. CASE ChildGone(i, c) \/ KillChild(i, c)
          BY <4>1, <5>2, ChildGoneShape, KillChildShape
        <5>3. QED
          BY <2>10, <5>1, <5>2
      <4>4. c = "haproxy" /\ d = "llama-swap"
        BY <1>2, <2>3, <2>4, <3>3, <4>2 DEF Cleared, AfterStop, Stage, Components
      <4>5. d \in Cleared(i)
        BY <4>2, <4>4 DEF Cleared
      <4>6. QED
        BY <2>5, <4>2, <4>3, <4>5 DEF Alive
    <3>4. QED
      BY <3>2, <3>3
  <2>11. ASSUME NEW c \in Components, SignalChild(i, c), pc'[i] # AfterStop(c)
         PROVE  Alive(d)' \subseteq {i} /\ (~failed'[i] => pidFile'[d] \in {None, i})
    <3>1. /\ pc[i] = <<"signal", c>> /\ pc'[i] = <<"wait", c>> /\ exit'[i] = exit[i]
          /\ UNCHANGED <<proc, pidFile>> /\ (failed'[i] <=> failed[i])
      BY <2>11, SignalShape
    <3>2. d \in Cleared(i)
      BY <1>2, <2>3, <2>4, <3>1 DEF Cleared, Stage
    <3>3. QED
      BY <2>5, <3>1, <3>2 DEF Alive
  <2>12. ASSUME NEW c \in Components, StartChild(i, c)
         PROVE  Alive(d)' \subseteq {i} /\ (~failed'[i] => pidFile'[d] \in {None, i})
    <3>1. CASE pc'[i] = <<"pid", c>>
      <4>1. /\ pc[i] = <<"start", c>> /\ pidFile' = pidFile /\ (failed'[i] <=> failed[i])
            /\ \A k \in Invocations : k # i => proc'[d][k] = proc[d][k]
        BY <2>12, <3>1, StartShape
      <4>2. d \in Cleared(i)
        BY <4>1 DEF Cleared, Stage
      <4>3. QED
        BY <2>5, <4>1, <4>2 DEF Alive
    <3>2. CASE pc'[i] # <<"pid", c>>
      BY <1>2, <2>3, <2>4, <2>12, <3>2, StartShape DEF Cleared, Stage
    <3>3. QED
      BY <3>1, <3>2
  <2>13. ASSUME NEW c \in Components, WritePidFile(i, c)
         PROVE  Alive(d)' \subseteq {i} /\ (~failed'[i] => pidFile'[d] \in {None, i})
    <3>1. d \in Cleared(i) /\ UNCHANGED <<failed, proc>> /\ pidFile'[d] \in {pidFile[d], i}
      BY <2>13, PidShape DEF Cleared, Stage
    <3>2. QED
      BY <2>5, <3>1 DEF Alive
  <2>14. ASSUME NEW c \in Components, HealthOK(i, c)
         PROVE  Alive(d)' \subseteq {i} /\ (~failed'[i] => pidFile'[d] \in {None, i})
    <3>1. d \in Cleared(i) /\ UNCHANGED <<failed, proc, pidFile>>
      BY <2>14, HealthShape DEF Cleared, Stage
    <3>2. QED
      BY <2>5, <3>1 DEF Alive
  <2>15. ASSUME NEW c \in Components, HealthTimeout(i, c) PROVE FALSE
    BY <1>2, <2>3, <2>4, <2>15, TimeoutShape DEF Cleared, Stage
  <2>16. QED
    BY <1>6, <2>3, <2>6, <2>7, <2>8, <2>9, <2>10, <2>11, <2>12, <2>13, <2>14, <2>15 DEF Step
<1>7. CASE \E c \in Components : Bind(c, i) \/ Die(c, i)
  <2>1. UNCHANGED <<pc, exit, failed, pidFile>>
    BY <1>7 DEF Bind, Die, runVars, fileVars
  <2>2. Newest(j) /\ d \in Cleared(j)
    BY <1>2, <2>1 DEF Newest, Cleared, Stage
  <2>3. Alive(d)' \subseteq Alive(d)
    BY <1>7, DaemonFades DEF Fades, Alive
  <2>4. QED
    BY <2>1, <2>2, <2>3 DEF Faultless, TakenOver
<1>8. QED
  BY <1>1, <1>5, <1>6, <1>7

\* Only the daemons of the invocation answer it, as soon as it has taken over.
LEMMA AnswersAreOwn ==
    ASSUME TypeOK, NEW i \in Invocations, NEW c \in Components, HealthOK(i, c),
           answeredBy[i] \subseteq {i}, \A d \in Components : Alive(d) \subseteq {i}
    PROVE  answeredBy'[i] \subseteq {i} /\ (c = "haproxy" => i \in answeredBy'[i])
<1>1. PICK answerers \in SUBSET Invocations :
        Healthy(c, answerers) /\ answeredBy'[i] = answeredBy[i] \cup answerers
  BY HealthShape
<1>2. \A d \in Components : Serving(d) \subseteq {i}
  BY DEF Serving, Alive
<1>3. answerers \subseteq {i} /\ (c = "haproxy" => i \in answerers)
  BY <1>1, <1>2 DEF Healthy, Components
<1>4. QED
  BY <1>1, <1>3

\* Nobody but its own daemons has answered it when it declares.
LEMMA AnswersStep ==
    ASSUME TypeOK, Ledger, faults = 0, faults' = 0, Faultless, Next
    PROVE  OwnAnswers'
<1>1. PICK i \in Invocations :
        \/ Begin(i) /\ Running = {}
        \/ Step(i)
        \/ \E c \in Components : Bind(c, i) \/ Die(c, i)
  BY FaultlessCases
<1> DEFINE Own(j) ==
             /\ answeredBy[j] \subseteq {j}
             /\ Stage(j) \in {"declare", "record"} \/ active = j \/ activation[j] = "activated"
                  => j \in answeredBy[j]
<1>2. \A j \in Invocations : Own(j)
  BY DEF Faultless, OwnAnswers
<1>3. SUFFICES ASSUME NEW j \in Invocations PROVE Own(j)'
  BY DEF OwnAnswers
<1>4. ASSUME Keeps(j), active' = active PROVE Own(j)'
  BY <1>2, <1>4 DEF Keeps, Stage
<1>5. CASE Begin(i)
  <2>1. active' = active
    BY <1>5, BeginShape
  <2>2. CASE j = i
    <3>1. UNCHANGED <<answeredBy, activation>> /\ pc'[i][1] \notin {"declare", "record"}
      BY <1>5, BeginShape
    <3>2. QED
      BY <1>2, <2>1, <2>2, <3>1 DEF Stage
  <2>3. QED
    BY <1>4, <1>5, <2>1, <2>2, OthersKeep
<1>6. CASE Step(i)
  <2>1. Stage(i) \notin {"idle", "done"}
    BY <1>6, StepRuns DEF Ledger, Fits
  <2>2. CASE j # i
    <3>1. Keeps(j)
      BY <1>6, <2>2, OthersKeep
    <3>2. active' = active \/ active' = i
      <4>1. CASE Plan(i) \/ ChildrenStopped(i) \/ Declare(i) \/ Record(i)
        BY <4>1, PlanShape, StoppedShape, DeclareShape, RecordShape
      <4>2. ASSUME NEW c \in Components,
                   \/ SignalChild(i, c) \/ ChildGone(i, c) \/ KillChild(i, c)
                   \/ StartChild(i, c) \/ WritePidFile(i, c) \/ HealthOK(i, c)
                   \/ HealthTimeout(i, c)
            PROVE  active' = active
        BY <4>2 DEF SignalChild, ChildGone, KillChild, StartChild, WritePidFile, HealthOK,
                    HealthTimeout, fileVars
      <4>3. QED
        BY <1>6, <4>1, <4>2 DEF Step
    <3>3. QED
      BY <1>2, <2>2, <3>1, <3>2 DEF Keeps, Stage
  <2>3. CASE j = i
    <3>1. CASE Plan(i)
      BY <1>2, <2>3, <3>1, PlanShape DEF Stage
    <3>2. CASE ChildrenStopped(i)
      BY <1>2, <2>3, <3>2, StoppedShape DEF Stage
    <3>3. CASE Declare(i)
      BY <1>2, <2>3, <3>3, DeclareShape DEF Stage
    <3>4. CASE Record(i)
      <4>1. Stage(i) = "fail" => failed[i]
        BY DEF Ledger, Fits, ErrorsFit
      <4>2. QED
        BY <1>2, <2>3, <3>4, <4>1, RecordShape DEF Stage
    <3>5. ASSUME NEW c \in Components, SignalChild(i, c) PROVE Own(i)'
      BY <1>2, <3>5, SignalShape DEF Stage, AfterStop
    <3>6. ASSUME NEW c \in Components, ChildGone(i, c) \/ KillChild(i, c) PROVE Own(i)'
      <4>1. target[i] \in Invocations
        BY <3>6 DEF ChildGone, KillChild, TypeOK, Ledger, Fits, KindFits, Stage
      <4>2. QED
        BY <1>2, <3>6, <4>1, ChildGoneShape, KillChildShape DEF Stage, AfterStop
    <3>7. ASSUME NEW c \in Components,
                 StartChild(i, c) \/ WritePidFile(i, c) \/ HealthTimeout(i, c)
          PROVE  Own(i)'
      BY <1>2, <3>7, StartShape, PidShape, TimeoutShape DEF Stage
    <3>8. ASSUME NEW c \in Components, HealthOK(i, c) PROVE Own(i)'
      <4>1. pc[i] = <<"health", c>>
        BY <3>8, HealthShape
      <4>2. \A d \in Components : Alive(d) \subseteq {i}
        BY <2>1, <4>1, Alone DEF Faultless, TakenOver, Cleared, Stage
      <4>3. answeredBy'[i] \subseteq {i} /\ (c = "haproxy" => i \in answeredBy'[i])
        BY <1>2, <3>8, <4>2, AnswersAreOwn
      <4>4. answeredBy[i] \subseteq answeredBy'[i]
        BY <3>8, HealthShape
      <4>5. QED
        BY <1>2, <3>8, <4>3, <4>4, HealthShape DEF Stage, Components
    <3>9. QED
      BY <1>6, <2>3, <3>1, <3>2, <3>3, <3>4, <3>5, <3>6, <3>7, <3>8 DEF Step
  <2>4. QED
    BY <2>2, <2>3
<1>7. CASE \E c \in Components : Bind(c, i) \/ Die(c, i)
  BY <1>4, <1>7 DEF Bind, Die, runVars, fileVars, Keeps
<1>8. QED
  BY <1>1, <1>5, <1>6, <1>7

\* What is declared last is what the file says.
LEMMA ActiveStep ==
    ASSUME TypeOK, Ledger, faults = 0, faults' = 0, Faultless, Next
    PROVE  ActiveIsLast'
<1>1. PICK i \in Invocations :
        \/ Begin(i) /\ Running = {}
        \/ Step(i)
        \/ \E c \in Components : Bind(c, i) \/ Die(c, i)
  BY FaultlessCases
<1> DEFINE In(j) == activation[j] = "activated" \/ pc[j] = <<"record", "-">>
<1>2. ASSUME active' = active, \A j \in Invocations : In(j)' <=> In(j) PROVE ActiveIsLast'
  <2>1. Declared' = Declared
    BY <1>2 DEF Declared
  <2>2. QED
    BY <1>2, <2>1 DEF Faultless, ActiveIsLast
<1>3. CASE Begin(i)
  <2>1. active' = active /\ (In(i)' <=> In(i))
    BY <1>3, BeginShape
  <2>2. \A j \in Invocations : j # i => (In(j)' <=> In(j))
    BY <1>3, OthersKeep DEF Keeps
  <2>3. QED
    BY <1>2, <2>1, <2>2
<1>4. CASE Step(i)
  <2>1. Stage(i) \notin {"idle", "done"}
    BY <1>4, StepRuns DEF Ledger, Fits
  <2>2. \A j \in Invocations : j # i => (In(j)' <=> In(j))
    BY <1>4, OthersKeep DEF Keeps
  <2>3. activation[i] = "none"
    BY <2>1 DEF Ledger, Fits, ErrorsFit
  <2>4. CASE Plan(i) \/ ChildrenStopped(i)
    <3>1. active' = active /\ (In(i)' <=> In(i))
      BY <2>4, PlanShape, StoppedShape
    <3>2. QED
      BY <1>2, <2>2, <3>1
  <2>5. CASE Record(i)
    <3>1. active' = active
      BY <2>5, RecordShape
    <3>2. /\ Stage(i) = "fail" => failed[i]
          /\ Stage(i) = "record" => ~failed[i] /\ pc[i] = <<"record", "-">>
      BY StepForm DEF Ledger, Fits, ErrorsFit, Stage, TypeOK
    <3>3. In(i)' <=> In(i)
      BY <2>3, <2>5, <3>2, RecordShape DEF Stage
    <3>4. QED
      BY <1>2, <2>2, <3>1, <3>3
  <2>6. ASSUME NEW c \in Components,
               \/ SignalChild(i, c) \/ ChildGone(i, c) \/ KillChild(i, c)
               \/ StartChild(i, c) \/ WritePidFile(i, c) \/ HealthOK(i, c)
               \/ HealthTimeout(i, c)
        PROVE  ActiveIsLast'
    <3>1. ChildGone(i, c) \/ KillChild(i, c) => target[i] \in Invocations
      BY DEF ChildGone, KillChild, TypeOK, Ledger, Fits, KindFits, Stage
    <3>2. /\ pc[i] # <<"record", "-">>
          /\ pc'[i] # <<"record", "-">> /\ active' = active /\ activation' = activation
      <4>1. CASE SignalChild(i, c)
        BY <4>1, SignalShape DEF AfterStop
      <4>2. CASE ChildGone(i, c) \/ KillChild(i, c)
        BY <3>1, <4>2, ChildGoneShape, KillChildShape DEF AfterStop
      <4>3. CASE StartChild(i, c)
        BY <4>3, StartShape
      <4>4. CASE WritePidFile(i, c) \/ HealthOK(i, c) \/ HealthTimeout(i, c)
        BY <4>4, PidShape, HealthShape, TimeoutShape
      <4>5. QED
        BY <2>6, <4>1, <4>2, <4>3, <4>4
    <3>3. In(i)' <=> In(i)
      BY <3>2
    <3>4. QED
      BY <1>2, <2>2, <3>2, <3>3
  <2>7. CASE Declare(i)
    <3>1. active' = i /\ In(i)'
      BY <2>7, DeclareShape
    <3>2. ASSUME NEW j \in Declared' PROVE j <= i
      <4>1. CASE j # i
        <5>1. pc[j] # <<"idle", "-">>
          BY <2>2, <3>2, <4>1 DEF Declared, Ledger, Fits, ErrorsFit, Stage
        <5>2. Newest(i)
          BY <2>1, Alone DEF Faultless
        <5>3. QED
          BY <3>2, <5>1, <5>2 DEF Newest, Declared, Invocations
      <4>2. QED
        BY <4>1 DEF Invocations
    <3>3. QED
      BY <3>1, <3>2 DEF ActiveIsLast, Declared
  <2>8. QED
    BY <1>4, <2>4, <2>5, <2>6, <2>7 DEF Step
<1>5. CASE \E c \in Components : Bind(c, i) \/ Die(c, i)
  BY <1>2, <1>5 DEF Bind, Die, runVars, fileVars
<1>6. QED
  BY <1>1, <1>3, <1>4, <1>5

(***************************************************************************)
(* The theorems.                                                           *)
(***************************************************************************)

\* The invariant holds before any invocation ...
LEMMA InitIInv == Init => IInv
<1> SUFFICES ASSUME Init PROVE IInv
  OBVIOUS
<1>1. TypeOK
  BY InitTypes
<1>2. \A i \in Invocations : Fits(i)
  BY DEF Init, Fits, KindFits, ErrorsFit, RecordsFit, Stage
<1>3. DaemonsFit
  BY DEF Init, DaemonsFit
<1>4. Sequential /\ TargetNamed /\ Managed
  BY DEF Init, Sequential, TargetNamed, Managed, Alive
<1>5. TakenOver
  BY DEF Init, TakenOver, Cleared, Stage
<1>6. OwnAnswers
  BY BoundAssumption DEF Init, OwnAnswers, Stage, None, Invocations
<1>7. ActiveIsLast
  <2>1. Declared = {}
    BY DEF Init, Declared
  <2>2. QED
    BY <2>1 DEF Init, ActiveIsLast
<1>8. QED
  BY <1>1, <1>2, <1>3, <1>4, <1>5, <1>6, <1>7 DEF IInv, Ledger, Faultless

\* ... and every step keeps it.
LEMMA NextIInv == IInv /\ [Next]_vars => IInv'
<1> SUFFICES ASSUME IInv, [Next]_vars PROVE IInv'
  OBVIOUS
<1>1. TypeOK'
  BY TypeStep DEF IInv, Ledger, Fits
<1>2. Ledger'
  BY LedgerStep DEF IInv
<1>3. ASSUME faults' = 0 PROVE Faultless'
  <2>1. CASE Next
    <3>1. faults = 0 /\ Faultless
      BY <1>3, <2>1, Monotone DEF IInv
    <3>2. Sequential' /\ TargetNamed'
      BY <1>3, <2>1, <3>1, SequentialStep, TargetStep DEF IInv, Ledger, Fits, Faultless
    <3>3. Managed' /\ TakenOver'
      BY <1>3, <2>1, <3>1, ManagedStep, TakenOverStep DEF IInv
    <3>4. OwnAnswers' /\ ActiveIsLast'
      BY <1>3, <2>1, <3>1, AnswersStep, ActiveStep DEF IInv
    <3>5. QED
      BY <3>2, <3>3, <3>4 DEF Faultless
  <2>2. CASE UNCHANGED vars
    <3>1. faults = 0 /\ Faultless
      BY <1>3, <2>2 DEF IInv, vars
    <3>2. QED
      BY <2>2, <3>1 DEF vars, runVars, fileVars, Faultless, Sequential, TakenOver, TargetNamed,
         Managed, OwnAnswers, ActiveIsLast, Declared, Newest, Cleared, Alive, Stage
  <2>3. QED
    BY <2>1, <2>2
<1>4. QED
  BY <1>1, <1>2, <1>3 DEF IInv

\* The invariant, whatever the daemons do and however many invocations there are.
THEOREM Inductive == Spec => []IInv
BY InitIInv, NextIInv, PTL DEF Spec

\* Every variable has its type.
THEOREM TypeCorrect == Spec => []TypeOK
<1>1. IInv => TypeOK
  BY DEF IInv
<1>2. QED
  BY <1>1, Inductive, PTL

\* Without faults no daemon is out of stop's reach.
THEOREM NothingStray == Spec => []NothingUnmanaged
<1>1. IInv => NothingUnmanaged
  BY DEF IInv, Faultless, Managed, NothingUnmanaged
<1>2. QED
  BY <1>1, Inductive, PTL

\* Without faults a generation is declared on the word of its own daemons.
THEOREM DeclarationsSound == Spec => []DeclaredSoundly
<1>1. IInv => DeclaredSoundly
  <2> SUFFICES ASSUME IInv, faults = 0, NEW i \in Invocations,
                      pc[i] = <<"declare", "-">> \/ active = i \/ activation[i] = "activated"
               PROVE  answeredBy[i] = {i}
    BY DEF DeclaredSoundly, DeclaredOnItsOwn
  <2>1. answeredBy[i] \subseteq {i} /\ i \in answeredBy[i]
    BY DEF IInv, Faultless, OwnAnswers, Stage
  <2>2. QED
    BY <2>1
<1>2. QED
  BY <1>1, Inductive, PTL

\* The active-generation file and the activation.json files agree.
THEOREM FilesAgree == Spec => []ActivationFilesAgree
<1>1. IInv => ActiveIsNewestActivated
  <2> SUFFICES ASSUME IInv, faults = 0
               PROVE  active = Max({None} \cup Declared)
    BY DEF ActiveIsNewestActivated, Declared
  <2>1. active \in {None} \cup Declared /\ \A x \in {None} \cup Declared : active >= x
    <3>1. active \in {None} \cup Declared /\ \A x \in Declared : x <= active
      BY DEF IInv, Faultless, ActiveIsLast
    <3>2. active \in Nat /\ \A x \in Declared : x \in Nat
      BY <3>1, BoundAssumption DEF Declared, Invocations, None
    <3>3. QED
      BY <3>1, <3>2 DEF None
  <2>2. ASSUME NEW y \in {None} \cup Declared, \A x \in {None} \cup Declared : y >= x
        PROVE  y = active
    BY <2>1, <2>2, BoundAssumption DEF Declared, Invocations, None
  <2>3. QED
    BY <2>1, <2>2 DEF Max
<1>2. IInv => ActivationAttributed
  <2> SUFFICES ASSUME IInv, NEW i \in Invocations
               PROVE  /\ activation[i] = "activated" => exit[i] = "ok" /\ active # None
                      /\ exit[i] = "ok" /\ kind[i] # "stop" => activation[i] = "activated"
                      /\ faults = 0 /\ exit[i] = "error" /\ failed[i] /\ kind[i] # "stop" =>
                           activation[i] = "failed" /\ active # i
    BY DEF ActivationAttributed
  <2>1. Fits(i)
    BY DEF IInv, Ledger
  <2>2. ASSUME faults = 0, exit[i] = "error", activation[i] = "failed" PROVE active # i
    <3>1. i \notin Declared
      BY <2>1, <2>2 DEF Declared, Fits, ErrorsFit, Stage
    <3>2. QED
      BY <2>2, <3>1, BoundAssumption DEF IInv, Faultless, ActiveIsLast, Invocations, None
  <2>3. QED
    BY <2>1, <2>2 DEF Fits, RecordsFit
<1>3. QED
  BY <1>1, <1>2, Inductive, PTL DEF ActivationFilesAgree

\* After a successful stop nothing runs and no pid file is left, until the next
\* invocation begins.
THEOREM StopLeavesNothing == Spec => []StoppedMeansDown
<1>1. IInv => StoppedMeansDown
  <2> SUFFICES ASSUME IInv, faults = 0, NEW i \in Invocations, kind[i] = "stop",
                      exit[i] = "ok", \A j \in i + 1 .. Last : pc[j] = <<"idle", "-">>,
                      NEW c \in Components
               PROVE  Alive(c) = {} /\ pidFile[c] = None
    BY DEF StoppedMeansDown
  <2>1. Newest(i) /\ c \in Cleared(i)
    BY BoundAssumption DEF Newest, Cleared, Invocations
  <2>2. Alive(c) \subseteq {i} /\ (~failed[i] => pidFile[c] \in {None, i})
    BY <2>1 DEF IInv, Faultless, TakenOver
  <2>3. ~failed[i]
    BY DEF IInv, Ledger, Fits, ErrorsFit
  <2>4. i \notin Alive(c) /\ pidFile[c] # i
    BY BoundAssumption DEF IInv, Ledger, DaemonsFit, Applies, Alive, Invocations, None
  <2>5. QED
    BY <2>2, <2>3, <2>4
<1>2. QED
  BY <1>1, Inductive, PTL
=============================================================================
