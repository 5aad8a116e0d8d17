-------------------------- MODULE TaxdeskBrokerProofs --------------------------
(***************************************************************************)
(* Proofs about TaxdeskBroker, for every finite set of calls, number of    *)
(* slots, timeouts and exit codes.                                         *)
(***************************************************************************)
EXTENDS TaxdeskBroker, FiniteSetTheorems, TLAPS

(***************************************************************************)
(* The inductive invariant.                                                *)
(***************************************************************************)
Replies ==
    [status : {0, 200, 400, 413, 500}, exit : 0 .. 6,
     error : {"", "not called", "waiting", "unreachable", "refused", "busy",
              "files", "failed"}]

LogLines == [call : Calls, exit : 0 .. 6]

Types ==
    /\ server \in {"up", "closed", "dead"}
    /\ request \in [Calls -> Requests]
    /\ shim \in [Calls -> Replies]
    /\ thread \in [Calls -> Steps]
    /\ answer \in [Calls -> Replies]
    /\ binary \in [Calls -> {NotRun, Running} \cup Outcomes]
    /\ slots \in Int
    /\ log \in Seq(LogLines)

HasLine(c) == \E i \in DOMAIN log : log[i].call = c

\* How far a call has come decides what its CLI has done and what is answered.
CallInv(c) ==
    /\ shim[c] = Idle => thread[c] = "none"
    /\ shim[c] \notin {Idle, Sent, Unavailable} => thread[c] = "end" /\ shim[c] = answer[c]
    /\ thread[c] \in {"none", "parse", "acquire"} => binary[c] = NotRun
    /\ thread[c] \in {"acquire", "execute", "log"} => request[c] = "valid"
    /\ thread[c] = "log" => /\ binary[c] \in Outcomes
                            /\ answer[c].status = 200 /\ answer[c].error = ""
                            /\ answer[c].exit = Reported(binary[c])
    /\ thread[c] \in {"reply", "end"} =>
         /\ answer[c].error \in {"", "refused", "busy", "files", "failed"}
         /\ answer[c].status = 200 => /\ binary[c] \in Outcomes
                                      /\ answer[c].exit = Reported(binary[c])
                                      /\ answer[c].error = ""
                                      /\ HasLine(c)
         /\ answer[c].error \in {"refused", "busy"} => binary[c] = NotRun

\* A line is written in the last step before the reply.
TrueLine(c, exit) ==
    /\ thread[c] \in {"reply", "end", "killed"}
    /\ \/ binary[c] \in Outcomes /\ exit = Reported(binary[c])
       \/ binary[c] = NotRun /\ request[c] # "valid" /\ exit = 2

LineInv(i) == TrueLine(log[i].call, log[i].exit)

OneLine == \A i, j \in DOMAIN log : log[i].call = log[j].call => i = j

BInv ==
    /\ Types
    /\ \A c \in Calls : CallInv(c)
    /\ \A i \in DOMAIN log : LineInv(i)
    /\ OneLine
    /\ SlotsAccounted

(***************************************************************************)
(* Facts about the values.                                                 *)
(***************************************************************************)

\* The replies the code forms.
LEMMA ReplyValues ==
    /\ NoReply \in Replies /\ Idle \in Replies /\ Sent \in Replies
    /\ Unavailable \in Replies
    /\ Reply(400, 2, "refused") \in Replies /\ Reply(413, 2, "refused") \in Replies
    /\ Reply(400, 2, "busy") \in Replies /\ Reply(400, 2, "files") \in Replies
    /\ Reply(500, 1, "failed") \in Replies
    /\ \A e \in 0 .. 6 : Reply(200, e, "") \in Replies
BY DEF Reply, Replies, NoReply, Idle, Sent, Unavailable

\* Every reply has one of the CLI's codes.
LEMMA ReplyExit == \A r \in Replies : r.exit \in 0 .. 6
BY DEF Replies

\* The states of the CLI's process.
LEMMA CliValues ==
    /\ \A o \in Outcomes : Reported(o) \in 0 .. 6 /\ o # NotRun /\ o # Running
    /\ NotRun # Running
    /\ Cli("killed", 6, FALSE) \in Outcomes
    /\ \A e \in CliExits, large \in BOOLEAN : Cli("exited", e, large) \in Outcomes
<1>1. ASSUME NEW o \in Outcomes PROVE Reported(o) \in 0 .. 6 /\ o # NotRun /\ o # Running
  <2>1. CASE o = Cli("killed", 6, FALSE)
    BY <2>1 DEF Cli, NotRun, Running, Reported
  <2>2. CASE o \in [state : {"exited"}, exit : CliExits, large : BOOLEAN]
    <3>1. o.state = "exited" /\ o.exit \in 0 .. 6
      BY <2>2, BrokerAssumption
    <3>2. Reported(o) \in 0 .. 6
      BY <3>1 DEF Reported
    <3> QED
      BY <3>1, <3>2 DEF Cli, NotRun, Running
  <2> QED
    BY <2>1, <2>2 DEF Outcomes
<1>2. NotRun # Running /\ Cli("killed", 6, FALSE) \in Outcomes
  BY DEF Cli, NotRun, Running, Outcomes
<1>3. ASSUME NEW e \in CliExits, NEW large \in BOOLEAN
      PROVE  Cli("exited", e, large) \in Outcomes
  BY DEF Cli, Outcomes
<1> QED
  BY <1>1, <1>2, <1>3

\* The log only grows, by a line at its end.
LEMMA Appended ==
    ASSUME NEW S, NEW seq \in Seq(S), NEW x \in S
    PROVE  /\ Append(seq, x) \in Seq(S)
           /\ DOMAIN Append(seq, x) = DOMAIN seq \cup {Len(seq) + 1}
           /\ Len(seq) + 1 \notin DOMAIN seq
           /\ \A i \in DOMAIN seq : Append(seq, x)[i] = seq[i]
           /\ Append(seq, x)[Len(seq) + 1] = x
OBVIOUS

LEMMA InitInv == Init => BInv
<1> SUFFICES ASSUME Init PROVE BInv
  OBVIOUS
<1> USE DEF Init
<1>1. Types
  <2>1. log \in Seq(LogLines)
    OBVIOUS
  <2>2. slots \in Int
    BY BrokerAssumption
  <2>3. /\ thread \in [Calls -> Steps]
        /\ server \in {"up", "closed", "dead"}
    BY DEF Steps
  <2>4. /\ shim \in [Calls -> Replies] /\ answer \in [Calls -> Replies]
        /\ binary \in [Calls -> {NotRun, Running} \cup Outcomes]
    BY ReplyValues
  <2> QED
    BY <2>1, <2>2, <2>3, <2>4 DEF Types
<1>2. ASSUME NEW c \in Calls PROVE CallInv(c)
  BY DEF CallInv, Idle, Sent, Unavailable, Reply
<1>3. SlotsAccounted
  <2>1. {c \in Calls : thread[c] = "execute"} = {}
    OBVIOUS
  <2>2. {c \in Calls : binary[c] = Running} = {}
    BY CliValues
  <2>3. Cardinality({c \in Calls : thread[c] = "execute"}) = 0
    BY <2>1, FS_EmptySet
  <2> QED
    BY <2>2, <2>3, BrokerAssumption DEF SlotsAccounted
<1> QED
  BY <1>1, <1>2, <1>3 DEF BInv, OneLine, LineInv

\* A handler's reply is one of the replies.
LEMMA FormTypes ==
    ASSUME Types, NEW c \in Calls, NEW r \in Replies, Form(c, r)
    PROVE  thread' \in [Calls -> Steps] /\ answer' \in [Calls -> Replies]
BY DEF Types, Steps, Form

\* The types.
LEMMA TypesStep == Types /\ [Next]_vars => Types'
<1> SUFFICES ASSUME Types, [Next]_vars PROVE Types'
  OBVIOUS
<1> USE DEF Types, Steps
<1>1. ASSUME NEW c \in Calls, Send(c) \/ ShimGivesUp(c) PROVE Types'
  BY <1>1, ReplyValues DEF Send, ShimGivesUp
<1>2. ASSUME NEW c \in Calls, Parse(c) PROVE Types'
  <2>1. [call |-> c, exit |-> 2] \in LogLines
    BY DEF LogLines
  <2>2. log' \in Seq(LogLines)
    <3> DEFINE line == [call |-> c, exit |-> 2]
    <3>1. log' = Append(log, line) \/ log' = log
      BY <1>2 DEF Parse
    <3>2. line \in LogLines
      BY <2>1
    <3> HIDE DEF line
    <3> QED
      BY <3>1, <3>2, Appended
  <2>3. thread' \in [Calls -> Steps] /\ answer' \in [Calls -> Replies]
    <3>1. CASE request[c] = "valid"
      BY <1>2, <3>1 DEF Parse
    <3>2. CASE request[c] # "valid"
      <4>1. PICK r \in Replies : Form(c, r)
        BY <1>2, <3>2, ReplyValues DEF Parse
      <4> QED
        BY <4>1, FormTypes
    <3> QED
      BY <3>1, <3>2
  <2> QED
    BY <1>2, <2>2, <2>3 DEF Parse
<1>3. ASSUME NEW c \in Calls, Acquire(c) PROVE Types'
  BY <1>3 DEF Acquire
<1>11. ASSUME NEW c \in Calls, NoSlot(c) \/ ExecuteFails(c) \/ LogFails(c) PROVE Types'
  <2>1. PICK r \in Replies : Form(c, r)
    BY <1>11, ReplyValues DEF NoSlot, ExecuteFails, LogFails
  <2>2. thread' \in [Calls -> Steps] /\ answer' \in [Calls -> Replies]
    BY <2>1, FormTypes
  <2> QED
    BY <1>11, <2>2 DEF NoSlot, ExecuteFails, LogFails, Released
<1>4. ASSUME NEW c \in Calls, Spawn(c) \/ RunTimeout(c) \/ CliExit(c) PROVE Types'
  BY <1>4, CliValues DEF Spawn, RunTimeout, CliExit
<1>5. ASSUME NEW c \in Calls, Collect(c) PROVE Types'
  <2>1. Reported(binary[c]) \in 0 .. 6
    BY <1>5, CliValues DEF Collect
  <2> QED
    <3> DEFINE r == Reply(200, Reported(binary[c]), "")
    <3>1. r \in Replies
      BY <2>1, ReplyValues
    <3>2. answer' = [answer EXCEPT ![c] = r]
      BY <1>5 DEF Collect
    <3>3. /\ thread' = [thread EXCEPT ![c] = "log"] /\ slots' = slots + 1
          /\ UNCHANGED <<server, request, shim, binary, log>>
      BY <1>5 DEF Collect, Released
    <3> HIDE DEF r
    <3> QED
      BY <3>1, <3>2, <3>3
<1>7. ASSUME NEW c \in Calls, WriteLog(c) PROVE Types'
  <2>1. answer[c].exit \in 0 .. 6
    <3>1. answer[c] \in Replies
      OBVIOUS
    <3> QED
      BY <3>1 DEF Replies
  <2>2. [call |-> c, exit |-> answer[c].exit] \in LogLines
    BY <2>1 DEF LogLines
  <2>3. log' \in Seq(LogLines)
    BY <1>7, <2>2 DEF WriteLog
  <2> QED
    BY <1>7, <2>3 DEF WriteLog
<1>8. ASSUME NEW c \in Calls, SendReply(c) PROVE Types'
  BY <1>8 DEF SendReply
<1>9. ASSUME Stop \/ ProcessEnds \/ Tick PROVE Types'
  BY <1>9, ReplyValues DEF Stop, ProcessEnds, Tick
<1>10. CASE UNCHANGED vars
  BY <1>10 DEF vars
<1> QED
  BY <1>1, <1>2, <1>3, <1>4, <1>5, <1>7, <1>8, <1>9, <1>10, <1>11 DEF Next, HandlerStep

(***************************************************************************)
(* What a step leaves alone.                                               *)
(***************************************************************************)

LogGrows == /\ DOMAIN log \subseteq DOMAIN log'
            /\ \A i \in DOMAIN log : log'[i] = log[i]

Untouched(d) == /\ shim'[d] = shim[d] /\ thread'[d] = thread[d]
                /\ answer'[d] = answer[d] /\ binary'[d] = binary[d]

\* A call that a step does not touch keeps its part of the invariant.
LEMMA OtherCall ==
    ASSUME NEW d \in Calls, CallInv(d), request' = request, Untouched(d), LogGrows
    PROVE  CallInv(d)'
<1>1. HasLine(d) => HasLine(d)'
  BY DEF HasLine, LogGrows
<1> QED
  BY <1>1, ZenonT(60) DEF CallInv, Untouched

\* A line belongs to a call.
LEMMA LineCall ==
    ASSUME log \in Seq(LogLines), NEW i \in DOMAIN log
    PROVE  log[i].call \in Calls
<1>1. log[i] \in LogLines
  OBVIOUS
<1> QED
  BY <1>1 DEF LogLines

\* While a call is being handled it has no line, so what happens to it then
\* disturbs no line.
LEMMA OtherLines ==
    ASSUME NEW c \in Calls, \A i \in DOMAIN log : LineInv(i), OneLine,
           thread[c] \notin {"reply", "end", "killed"},
           log' = log, request' = request,
           log \in Seq(LogLines),
           \A d \in Calls \ {c} : Untouched(d)
    PROVE  (\A i \in DOMAIN log : LineInv(i))' /\ OneLine'
<1>1. ASSUME NEW i \in DOMAIN log PROVE log[i].call \in Calls \ {c}
  BY <1>1, LineCall DEF LineInv, TrueLine
<1>2. ASSUME NEW d \in Calls \ {c}, NEW e, TrueLine(d, e) PROVE TrueLine(d, e)'
  BY <1>2 DEF TrueLine, Untouched
<1>3. ASSUME NEW i \in DOMAIN log PROVE LineInv(i)'
  BY <1>1, <1>2, <1>3 DEF LineInv
<1> QED
  BY <1>3 DEF OneLine

\* A line for a call that had none.
LEMMA NewLine ==
    ASSUME NEW c \in Calls, \A i \in DOMAIN log : LineInv(i), OneLine,
           thread[c] \notin {"reply", "end", "killed"},
           NEW line \in LogLines, line.call = c, log' = Append(log, line),
           request' = request,
           log \in Seq(LogLines),
           thread'[c] = "reply",
           \/ binary'[c] \in Outcomes /\ line.exit = Reported(binary'[c])
           \/ binary'[c] = NotRun /\ request[c] # "valid" /\ line.exit = 2,
           \A d \in Calls \ {c} : Untouched(d)
    PROVE  (\A i \in DOMAIN log : LineInv(i))' /\ OneLine' /\ LogGrows
<1>1. /\ DOMAIN log' = DOMAIN log \cup {Len(log) + 1}
      /\ Len(log) + 1 \notin DOMAIN log
      /\ \A i \in DOMAIN log : log'[i] = log[i]
      /\ log'[Len(log) + 1] = line
  BY Appended
<1>2. ASSUME NEW i \in DOMAIN log PROVE log[i].call \in Calls \ {c}
  BY <1>2, LineCall DEF LineInv, TrueLine
<1>6. ASSUME NEW d \in Calls \ {c}, NEW e, TrueLine(d, e) PROVE TrueLine(d, e)'
  BY <1>6 DEF TrueLine, Untouched
<1>3. ASSUME NEW i \in DOMAIN log PROVE LineInv(i)'
  BY <1>1, <1>2, <1>3, <1>6 DEF LineInv
<1>4. ASSUME NEW k, k = Len(log) + 1 PROVE LineInv(k)'
  <2>1. TrueLine(c, line.exit)'
    BY DEF TrueLine
  <2>2. log'[k].call = c /\ log'[k].exit = line.exit
    BY <1>1, <1>4
  <2> QED
    BY <2>1, <2>2 DEF LineInv
<1>5. OneLine'
  BY <1>1, <1>2 DEF OneLine
<1>7. ASSUME NEW i \in DOMAIN log' PROVE LineInv(i)'
  BY <1>1, <1>3, <1>4, <1>7
<1> QED
  BY <1>1, <1>5, <1>7 DEF LogGrows

\* A step that moves no call into or out of execution keeps the slots.
LEMMA SlotsKept ==
    ASSUME SlotsAccounted, slots' = slots, server' # "dead" => server # "dead",
           \A d \in Calls : thread'[d] = "execute" <=> thread[d] = "execute",
           \A d \in Calls : binary'[d] = Running =>
                            binary[d] = Running \/ thread[d] = "execute"
    PROVE  SlotsAccounted'
<1>1. {d \in Calls : thread'[d] = "execute"} = {d \in Calls : thread[d] = "execute"}
  OBVIOUS
<1> QED
  BY <1>1 DEF SlotsAccounted

\* A call that enters execution takes a slot.
LEMMA SlotTaken ==
    ASSUME SlotsAccounted, slots \in Int, slots' = slots - 1, server' = server,
           NEW c \in Calls, thread[c] # "execute", thread'[c] = "execute",
           \A d \in Calls \ {c} : thread'[d] = thread[d],
           binary' = binary
    PROVE  SlotsAccounted'
<1> DEFINE held == {d \in Calls : thread[d] = "execute"}
<1>1. {d \in Calls : thread'[d] = "execute"} = held \cup {c}
  OBVIOUS
<1>2. IsFiniteSet(held) /\ c \notin held
  BY FS_Subset, BrokerAssumption
<1>3. Cardinality(held \cup {c}) = Cardinality(held) + 1 /\ Cardinality(held) \in Nat
  <2> HIDE DEF held
  <2> QED
    BY <1>2, FS_AddElement, FS_CardinalityType
<1>4. server # "dead" => slots + Cardinality(held) = MaxCalls
  BY DEF SlotsAccounted
<1>5. server # "dead" => (slots - 1) + (Cardinality(held) + 1) = MaxCalls
  <2> HIDE DEF held
  <2> QED
    BY <1>3, <1>4
<1>6. server # "dead" => {d \in Calls : binary'[d] = Running} \subseteq held \cup {c}
  BY DEF SlotsAccounted
<1> QED
  BY <1>1, <1>3, <1>5, <1>6 DEF SlotsAccounted

\* A call that leaves execution gives its slot back.
LEMMA SlotGivenBack ==
    ASSUME SlotsAccounted, slots \in Int, slots' = slots + 1, server' = server,
           NEW c \in Calls, thread[c] = "execute", thread'[c] # "execute",
           \A d \in Calls \ {c} : thread'[d] = thread[d],
           binary[c] # Running, binary' = binary
    PROVE  SlotsAccounted'
<1> DEFINE held == {d \in Calls : thread[d] = "execute"}
<1>1. {d \in Calls : thread'[d] = "execute"} = held \ {c}
  OBVIOUS
<1>2. IsFiniteSet(held) /\ c \in held
  BY FS_Subset, BrokerAssumption
<1>3. Cardinality(held \ {c}) = Cardinality(held) - 1 /\ Cardinality(held) \in Nat
  <2> HIDE DEF held
  <2> QED
    BY <1>2, FS_RemoveElement, FS_CardinalityType
<1>4. server # "dead" => slots + Cardinality(held) = MaxCalls
  BY DEF SlotsAccounted
<1>5. server # "dead" => (slots + 1) + (Cardinality(held) - 1) = MaxCalls
  <2> HIDE DEF held
  <2> QED
    BY <1>3, <1>4
<1>6. server # "dead" => {d \in Calls : binary'[d] = Running} \subseteq held \ {c}
  BY DEF SlotsAccounted
<1> QED
  BY <1>1, <1>3, <1>5, <1>6 DEF SlotsAccounted

(***************************************************************************)
(* The steps.                                                              *)
(***************************************************************************)

\* What a step must show when it acts on the call c only and writes no line.
LEMMA ActsOn ==
    ASSUME BInv, Types', NEW c \in Calls, request' = request, log' = log,
           \A d \in Calls \ {c} : Untouched(d),
           CallInv(c)', SlotsAccounted',
           (\A i \in DOMAIN log : LineInv(i))' /\ OneLine'
    PROVE  BInv'
<1>1. ASSUME NEW d \in Calls \ {c} PROVE CallInv(d)'
  <2>1. LogGrows
    BY DEF LogGrows
  <2> QED
    BY <2>1, OtherCall DEF BInv
<1> QED
  BY <1>1 DEF BInv

\* The same for a step of a handler that has not replied.
LEMMA HandlerActsOn ==
    ASSUME BInv, Types', NEW c \in Calls, request' = request, log' = log,
           \A d \in Calls \ {c} : Untouched(d),
           CallInv(c)', SlotsAccounted',
           thread[c] \notin {"reply", "end", "killed"}
    PROVE  BInv'
BY OtherLines, ActsOn DEF BInv, Types

\* The replies that report an error.
Errors(kinds) == {x \in Replies : x.status # 200 /\ x.error \in kinds}

LEMMA ReplyFields ==
    /\ Reply(400, 2, "refused") \in Errors({"refused"})
    /\ Reply(413, 2, "refused") \in Errors({"refused"})
    /\ Reply(400, 2, "busy") \in Errors({"busy"})
    /\ Reply(400, 2, "files") \in Errors({"files", "failed"})
    /\ Reply(500, 1, "failed") \in Errors({"files", "failed"})
    /\ Reply(500, 1, "failed") \in Errors({"failed"})
BY DEF Reply, Replies, Errors

\* The shim's own states are not replies.
LEMMA ShimStates ==
    /\ Idle.error = "not called" /\ Sent.error = "waiting"
    /\ Unavailable.error = "unreachable" /\ Unavailable.status = 0
    /\ Idle # Sent /\ Idle # Unavailable /\ Sent # Unavailable
BY DEF Idle, Sent, Unavailable, Reply

\* A handler forms an error while its shim is waiting or has given up.
LEMMA FormInv ==
    ASSUME BInv, Types', NEW c \in Calls, request' = request, log' = log,
           \A d \in Calls \ {c} : Untouched(d),
           shim' = shim, binary' = binary, SlotsAccounted',
           thread[c] \in {"parse", "acquire", "execute", "log"},
           NEW r \in Replies, Form(c, r), r.status # 200,
           r.error \in {"refused", "busy", "files", "failed"},
           r.error \in {"refused", "busy"} => binary[c] = NotRun
    PROVE  BInv'
<1>1. thread'[c] = "reply" /\ answer'[c] = r
  BY DEF Form, BInv, Types
<1>2. CallInv(c)'
  BY <1>1 DEF CallInv, BInv
<1> QED
  BY <1>2, HandlerActsOn

LEMMA ShimSteps ==
    ASSUME BInv, Types', NEW c \in Calls, Send(c) \/ ShimGivesUp(c)
    PROVE  BInv'
<1> USE DEF BInv, Types
<1>1. CASE Send(c)
  <2>1. thread[c] = "none" /\ binary[c] = NotRun
    BY <1>1 DEF Send, CallInv
  <2>2. /\ request' = request /\ log' = log /\ slots' = slots /\ server' = server
        /\ \A d \in Calls \ {c} : Untouched(d)
        /\ answer' = answer /\ binary' = binary
        /\ \/ shim'[c] = Sent /\ thread'[c] = "parse"
           \/ shim'[c] = Unavailable /\ thread'[c] = "none"
    BY <1>1, <2>1 DEF Send, Untouched
  <2>3. CallInv(c)'
    BY <2>1, <2>2, ShimStates DEF CallInv
  <2>4. SlotsAccounted'
    BY <2>1, <2>2, SlotsKept DEF Untouched
  <2> QED
    BY <2>1, <2>2, <2>3, <2>4, HandlerActsOn
<1>2. CASE ShimGivesUp(c)
  <2>1. /\ request' = request /\ log' = log /\ slots' = slots /\ server' = server
        /\ \A d \in Calls \ {c} : Untouched(d)
        /\ answer' = answer /\ binary' = binary /\ thread' = thread
        /\ shim'[c] = Unavailable
    BY <1>2 DEF ShimGivesUp, Untouched
  <2>2. CallInv(c)'
    BY <2>1, ShimStates, ZenonT(60) DEF CallInv, HasLine
  <2>3. SlotsAccounted'
    BY <2>1, SlotsKept
  <2>4. (\A i \in DOMAIN log : LineInv(i))' /\ OneLine'
    BY <2>1 DEF LineInv, TrueLine, OneLine
  <2> QED
    BY <2>1, <2>2, <2>3, <2>4, ActsOn
<1> QED
  BY <1>1, <1>2

LEMMA ParseStep ==
    ASSUME BInv, Types', NEW c \in Calls, Parse(c)
    PROVE  BInv'
<1> USE DEF BInv, Types
<1>1. /\ request' = request /\ slots' = slots /\ server' = server /\ shim' = shim
      /\ binary' = binary /\ thread[c] = "parse" /\ binary[c] = NotRun
      /\ \A d \in Calls \ {c} : Untouched(d)
      /\ thread'[c] \in {"acquire", "reply"}
  <2>1. PICK r : \/ Form(c, r)
                 \/ thread' = [thread EXCEPT ![c] = "acquire"] /\ UNCHANGED answer
    BY DEF Parse
  <2>2. thread'[c] \in {"acquire", "reply"}
    BY <2>1 DEF Form
  <2>3. \A d \in Calls \ {c} : thread'[d] = thread[d] /\ answer'[d] = answer[d]
    BY <2>1 DEF Form
  <2> QED
    BY <2>2, <2>3 DEF Parse, Untouched, CallInv
<1>2. SlotsAccounted'
  BY <1>1, SlotsKept DEF Untouched
<1>3. CASE request[c] = "valid"
  <2>1. log' = log /\ thread'[c] = "acquire" /\ answer' = answer
    BY <1>3 DEF Parse, Logged
  <2>2. CallInv(c)'
    BY <1>1, <1>3, <2>1, ShimStates DEF CallInv
  <2> QED
    BY <1>1, <1>2, <2>1, <2>2, HandlerActsOn
<1>4. CASE request[c] # "valid"
  <2>1. PICK r \in Errors({"refused"}) : Form(c, r)
    BY <1>4, ReplyFields DEF Parse
  <2>2. thread'[c] = "reply" /\ answer'[c] = r
    BY <2>1 DEF Form
  <2>3. CallInv(c)'
    BY <1>1, <2>1, <2>2 DEF CallInv, Errors
  <2>4. CASE log' = log
    BY <1>1, <1>2, <2>3, <2>4, HandlerActsOn
  <2>5. CASE log' = Append(log, [call |-> c, exit |-> 2])
    <3> DEFINE line == [call |-> c, exit |-> 2]
    <3>1. line \in LogLines /\ line.call = c /\ line.exit = 2
      BY DEF LogLines
    <3>2. log' = Append(log, line)
      BY <2>5
    <3> HIDE DEF line
    <3>3. (\A i \in DOMAIN log : LineInv(i))' /\ OneLine' /\ LogGrows
      BY <1>1, <1>4, <2>2, <3>1, <3>2, NewLine
    <3>4. ASSUME NEW d \in Calls \ {c} PROVE CallInv(d)'
      BY <1>1, <3>3, OtherCall
    <3> QED
      BY <1>2, <2>3, <3>3, <3>4
  <2> QED
    BY <2>4, <2>5 DEF Parse
<1> QED
  BY <1>3, <1>4

LEMMA AcquireStep ==
    ASSUME BInv, Types', NEW c \in Calls, Acquire(c)
    PROVE  BInv'
<1> USE DEF BInv, Types
<1>1. /\ request' = request /\ server' = server /\ shim' = shim /\ log' = log
      /\ slots' = slots - 1 /\ answer' = answer
      /\ binary' = binary /\ thread[c] = "acquire" /\ thread'[c] = "execute"
      /\ \A d \in Calls \ {c} : Untouched(d)
  BY DEF Acquire, Untouched
<1>2. SlotsAccounted'
  BY <1>1, SlotTaken DEF Untouched
<1>3. CallInv(c)'
  BY <1>1 DEF CallInv
<1> QED
  BY <1>1, <1>2, <1>3, HandlerActsOn

\* The steps that end in an error.
LEMMA FailureSteps ==
    ASSUME BInv, Types', NEW c \in Calls, NoSlot(c) \/ ExecuteFails(c) \/ LogFails(c)
    PROVE  BInv'
<1> USE DEF BInv, Types
<1>1. CASE NoSlot(c)
  <2>1. PICK r \in Errors({"busy"}) : Form(c, r)
    BY <1>1, ReplyFields DEF NoSlot
  <2>2. /\ request' = request /\ server' = server /\ shim' = shim /\ log' = log
        /\ slots' = slots /\ binary' = binary
        /\ thread[c] = "acquire" /\ thread'[c] = "reply"
        /\ \A d \in Calls \ {c} : Untouched(d)
    BY <1>1, <2>1 DEF NoSlot, Form, Untouched
  <2>3. SlotsAccounted' /\ binary[c] = NotRun
    BY <2>2, SlotsKept DEF Untouched, CallInv
  <2> QED
    BY <2>1, <2>2, <2>3, FormInv DEF Errors
<1>2. CASE ExecuteFails(c)
  <2>1. PICK r \in Errors({"files", "failed"}) : Form(c, r)
    BY <1>2, ReplyFields DEF ExecuteFails
  <2>2. /\ request' = request /\ server' = server /\ shim' = shim /\ log' = log
        /\ slots' = slots + 1 /\ binary' = binary /\ binary[c] # Running
        /\ thread[c] = "execute" /\ thread'[c] = "reply"
        /\ \A d \in Calls \ {c} : Untouched(d)
    BY <1>2, <2>1, CliValues DEF ExecuteFails, Form, Untouched, Released
  <2>3. SlotsAccounted'
    BY <2>2, SlotGivenBack DEF Untouched
  <2> QED
    BY <2>1, <2>2, <2>3, FormInv DEF Errors
<1>3. CASE LogFails(c)
  <2>1. PICK r \in Errors({"failed"}) : Form(c, r)
    BY <1>3, ReplyFields DEF LogFails
  <2>2. /\ request' = request /\ server' = server /\ shim' = shim /\ log' = log
        /\ slots' = slots /\ binary' = binary
        /\ thread[c] = "log" /\ thread'[c] = "reply"
        /\ \A d \in Calls \ {c} : Untouched(d)
    BY <1>3, <2>1 DEF LogFails, Form, Untouched
  <2>3. SlotsAccounted'
    BY <2>2, SlotsKept DEF Untouched
  <2> QED
    BY <2>1, <2>2, <2>3, FormInv DEF Errors
<1> QED
  BY <1>1, <1>2, <1>3

\* The CLI's process starts, is killed for its time, or exits.
LEMMA CliSteps ==
    ASSUME BInv, Types', NEW c \in Calls, Spawn(c) \/ RunTimeout(c) \/ CliExit(c)
    PROVE  BInv'
<1> USE DEF BInv, Types
<1>1. /\ request' = request /\ server' = server /\ shim' = shim /\ log' = log
      /\ slots' = slots /\ answer' = answer /\ thread' = thread
      /\ \A d \in Calls \ {c} : Untouched(d)
  BY DEF Spawn, RunTimeout, CliExit, Untouched
<1>2. thread[c] = "execute" \/ (binary[c] = Running /\ binary'[c] \in Outcomes)
  BY CliValues DEF Spawn, RunTimeout, CliExit
<1>3. binary'[c] # NotRun /\ (binary'[c] \in Outcomes \/ thread[c] = "execute")
  BY <1>2, CliValues DEF Spawn, RunTimeout, CliExit
<1>4. thread[c] = "execute" \/ thread[c] = "killed" \/
        (thread[c] \in {"reply", "end"} /\ binary[c] = Running)
  BY <1>2, CliValues DEF CallInv, Steps
<1>5. SlotsAccounted'
  <2>1. \A d \in Calls : binary'[d] = Running =>
                          binary[d] = Running \/ thread[d] = "execute"
    BY <1>1, <1>3, CliValues DEF Untouched
  <2> QED
    BY <1>1, <2>1, SlotsKept
<1>6. CASE thread[c] = "execute"
  <2>1. CallInv(c)'
    BY <1>1, <1>6 DEF CallInv
  <2> QED
    BY <1>1, <1>5, <1>6, <2>1, HandlerActsOn
<1>7. CASE thread[c] # "execute"
  <2>1. binary[c] = Running
    BY <1>2, <1>7
  <2>2. CallInv(c)'
    BY <1>1, <1>4, <1>7, <2>1, CliValues DEF CallInv
  <2>3. ASSUME NEW i \in DOMAIN log PROVE log[i].call \in Calls \ {c}
    BY <2>1, <2>3, LineCall, CliValues DEF LineInv, TrueLine
  <2>4. ASSUME NEW d \in Calls \ {c}, NEW e, TrueLine(d, e) PROVE TrueLine(d, e)'
    BY <1>1, <2>4 DEF TrueLine, Untouched
  <2>5. ASSUME NEW i \in DOMAIN log PROVE LineInv(i)'
    BY <1>1, <2>3, <2>4, <2>5 DEF LineInv
  <2>6. OneLine'
    BY <1>1 DEF OneLine
  <2> QED
    BY <1>1, <1>5, <2>2, <2>5, <2>6, ActsOn
<1> QED
  BY <1>6, <1>7

LEMMA CollectStep ==
    ASSUME BInv, Types', NEW c \in Calls, Collect(c)
    PROVE  BInv'
<1> USE DEF BInv, Types
<1>1. /\ request' = request /\ server' = server /\ shim' = shim /\ log' = log
      /\ slots' = slots + 1 /\ binary' = binary /\ binary[c] # Running
      /\ binary[c] \in Outcomes
      /\ thread[c] = "execute" /\ thread'[c] = "log"
      /\ \A d \in Calls \ {c} : Untouched(d)
  BY CliValues DEF Collect, Untouched, Released
<1>2. /\ answer'[c].status = 200 /\ answer'[c].error = ""
      /\ answer'[c].exit = Reported(binary[c])
  BY DEF Collect, Reply
<1>3. SlotsAccounted'
  BY <1>1, SlotGivenBack DEF Untouched
<1>4. CallInv(c)'
  BY <1>1, <1>2 DEF CallInv
<1> QED
  BY <1>1, <1>3, <1>4, HandlerActsOn

LEMMA WriteLogStep ==
    ASSUME BInv, Types', NEW c \in Calls, WriteLog(c)
    PROVE  BInv'
<1> USE DEF BInv, Types
<1> DEFINE line == [call |-> c, exit |-> answer[c].exit]
<1>1. /\ request' = request /\ server' = server /\ shim' = shim
      /\ slots' = slots /\ binary' = binary /\ answer' = answer
      /\ thread[c] = "log" /\ thread'[c] = "reply"
      /\ log' = Append(log, line)
      /\ \A d \in Calls \ {c} : Untouched(d)
  BY DEF WriteLog, Untouched
<1>2. /\ binary[c] \in Outcomes /\ answer[c].exit = Reported(binary[c])
      /\ answer[c].status = 200 /\ answer[c].error = ""
  BY <1>1 DEF CallInv
<1>3. line \in LogLines /\ line.call = c /\ line.exit = Reported(binary[c])
  <2>1. answer[c].exit \in 0 .. 6
    <3>1. answer[c] \in Replies
      OBVIOUS
    <3> QED
      BY <3>1, ReplyExit
  <2>2. line \in LogLines
    BY <2>1 DEF LogLines
  <2> QED
    BY <1>2, <2>2
<1> HIDE DEF line
<1>4. (\A i \in DOMAIN log : LineInv(i))' /\ OneLine' /\ LogGrows
  BY <1>1, <1>2, <1>3, NewLine
<1>5. ASSUME NEW d \in Calls \ {c} PROVE CallInv(d)'
  BY <1>1, <1>4, OtherCall
<1>6. HasLine(c)'
  BY <1>1, <1>3, Appended DEF HasLine
<1>7. CallInv(c)'
  BY <1>1, <1>2, <1>6 DEF CallInv
<1>8. SlotsAccounted'
  BY <1>1, SlotsKept DEF Untouched
<1> QED
  BY <1>4, <1>5, <1>7, <1>8

LEMMA SendReplyStep ==
    ASSUME BInv, Types', NEW c \in Calls, SendReply(c)
    PROVE  BInv'
<1> USE DEF BInv, Types
<1>1. /\ request' = request /\ server' = server /\ log' = log /\ slots' = slots
      /\ binary' = binary /\ answer' = answer
      /\ thread[c] = "reply" /\ thread'[c] = "end"
      /\ shim'[c] = IF shim[c] = Sent THEN answer[c] ELSE shim[c]
      /\ \A d \in Calls \ {c} : Untouched(d)
  BY DEF SendReply, Untouched
<1>2. shim[c] \in {Sent, Unavailable}
  BY <1>1 DEF CallInv
<1>3. HasLine(c) <=> HasLine(c)'
  BY <1>1 DEF HasLine
<1>4. CallInv(c)'
  <2>1. shim'[c] # Idle
    <3>1. CallInv(c)
      OBVIOUS
    <3>2. answer[c].error # "not called"
      BY <1>1, <3>1 DEF CallInv
    <3>3. answer[c] # Idle /\ Sent # Idle /\ Unavailable # Idle
      BY <3>2, ShimStates
    <3> QED
      BY <1>1, <1>2, <3>3
  <2>2. shim'[c] \notin {Idle, Sent, Unavailable} => shim'[c] = answer'[c]
    BY <1>1, <1>2
  <2> QED
    BY <1>1, <1>3, <2>1, <2>2 DEF CallInv
<1>5. SlotsAccounted'
  BY <1>1, SlotsKept DEF Untouched
<1>6. ASSUME NEW d \in Calls, NEW e, TrueLine(d, e) PROVE TrueLine(d, e)'
  BY <1>1, <1>6 DEF TrueLine, Untouched
<1>7. ASSUME NEW i \in DOMAIN log PROVE LineInv(i)'
  BY <1>1, <1>6, <1>7, LineCall DEF LineInv
<1>8. OneLine'
  BY <1>1 DEF OneLine
<1> QED
  BY <1>1, <1>4, <1>5, <1>7, <1>8, ActsOn

\* The end of the session, time, and stuttering.
LEMMA SessionSteps ==
    ASSUME BInv, Types', Stop \/ ProcessEnds \/ Tick \/ UNCHANGED vars
    PROVE  BInv'
<1>1. /\ request' = request /\ log' = log /\ slots' = slots
      /\ binary' = binary /\ answer' = answer
      /\ server' # "dead" => server # "dead" /\ thread' = thread
  BY DEF Stop, ProcessEnds, Tick, vars
<1>2. \A d \in Calls :
        /\ \/ thread'[d] = thread[d]
           \/ thread'[d] = "killed" /\ thread[d] \notin {"none", "end"}
        /\ \/ shim'[d] = shim[d]
           \/ shim[d] = Sent /\ shim'[d] = Unavailable
  <2>1. CASE ProcessEnds
    BY <2>1 DEF ProcessEnds, Live
  <2>2. CASE Stop \/ Tick \/ UNCHANGED vars
    BY <2>2 DEF Stop, Tick, vars
  <2> QED
    BY <2>1, <2>2
<1>3. ASSUME NEW d \in Calls PROVE CallInv(d)'
  <2>4. CallInv(d)
    BY DEF BInv
  <2>1. HasLine(d) <=> HasLine(d)'
    BY <1>1 DEF HasLine
  <2>2. CASE thread'[d] = thread[d]
    BY <1>1, <1>2, <2>1, <2>2, <2>4, ShimStates, ZenonT(60) DEF CallInv
  <2>3. CASE thread'[d] = "killed" /\ thread[d] \notin {"none", "end"}
    BY <1>1, <1>2, <2>3, <2>4, ShimStates DEF CallInv
  <2> QED
    BY <1>2, <2>2, <2>3
<1>4. ASSUME NEW d \in Calls, NEW e, TrueLine(d, e) PROVE TrueLine(d, e)'
  BY <1>1, <1>2, <1>4 DEF TrueLine
<1>5. ASSUME NEW i \in DOMAIN log PROVE LineInv(i)'
  BY <1>1, <1>4, <1>5, LineCall DEF LineInv, BInv, Types
<1>6. OneLine'
  BY <1>1 DEF OneLine, BInv
<1>7. SlotsAccounted'
  BY <1>1 DEF SlotsAccounted, BInv
<1> QED
  BY <1>1, <1>3, <1>5, <1>6, <1>7 DEF BInv

LEMMA NextInv == BInv /\ [Next]_vars => BInv'
<1> SUFFICES ASSUME BInv, [Next]_vars PROVE BInv'
  OBVIOUS
<1>1. Types'
  BY TypesStep DEF BInv
<1> QED
  BY <1>1, ShimSteps, ParseStep, AcquireStep, FailureSteps, CliSteps, CollectStep,
     WriteLogStep, SendReplyStep, SessionSteps DEF Next, HandlerStep

(***************************************************************************)
(* The theorems.                                                           *)
(***************************************************************************)

LEMMA Invariance == Spec => []BInv
BY InitInv, NextInv, PTL DEF Spec

\* However calls are refused, time out or fail, no slot of the broker is lost
\* or given back twice, for any number of calls and slots (Broker.call).
THEOREM SlotsStayAccounted == Spec => []SlotsAccounted
<1>1. BInv => SlotsAccounted
  BY DEF BInv
<1> QED
  BY <1>1, Invariance, PTL

\* broker.log never misstates a call, one whose output was too large to hand out
\* included, and whoever was given an exit code finds its line there (Broker.log,
\* Broker.call).
THEOREM LogStaysTrue == Spec => []LogAgrees
<1>1. BInv => LogAgrees
  <2> SUFFICES ASSUME BInv PROVE LogAgrees
    OBVIOUS
  <2>1. ASSUME NEW c \in Calls, thread[c] = "end", answer[c].status = 200
        PROVE  \E i \in DOMAIN log : log[i].call = c
    BY <2>1 DEF BInv, CallInv, HasLine
  <2>2. ASSUME NEW i \in DOMAIN log PROVE TrueLine(log[i].call, log[i].exit)
    BY <2>2 DEF BInv, LineInv
  <2> QED
    BY <2>1, <2>2 DEF BInv, LogAgrees, OneLine, TrueLine, Reported
<1> QED
  BY <1>1, Invariance, PTL

\* What the shim tells the agent of a call is true of that call (main of
\* taxdesk-docs.ts), however late the answer and however often others fail.
THEOREM ReportsStayTrue == Spec => []ReportsTrue
<1>1. BInv => ReportsTrue
  <2> SUFFICES ASSUME BInv, NEW c \in Calls, shim[c] \notin {Idle, Sent}
               PROVE  /\ shim[c].status = 200 => /\ binary[c] \in Outcomes
                                                 /\ shim[c].exit = Reported(binary[c])
                      /\ shim[c].error \in {"refused", "busy"} => binary[c] = NotRun
    BY DEF ReportsTrue, Reported
  <2>1. CASE shim[c] = Unavailable
    BY <2>1 DEF Unavailable, Reply
  <2>2. CASE shim[c] # Unavailable
    <3>1. CallInv(c)
      BY DEF BInv
    <3>2. thread[c] = "end" /\ shim[c] = answer[c]
      BY <2>2, <3>1 DEF CallInv
    <3> QED
      BY <3>1, <3>2 DEF CallInv
  <2> QED
    BY <2>1, <2>2
<1> QED
  BY <1>1, Invariance, PTL
=============================================================================
