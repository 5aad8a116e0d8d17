----------------------------- MODULE FlashLoopProofs -----------------------------
(***************************************************************************)
(* Safety of the FlashLoop service for any set of requests, prompt         *)
(* lengths, output limits and context capacity, and the safety part of its *)
(* implementation of SingleSlot.                                           *)
(***************************************************************************)
EXTENDS FlashLoopService, TLAPS

\* The three state machines of one request move together.
Lifecycle(r) ==
    /\ handler[r] \in {"absent", "received"} => task[r] = "none"
    /\ handler[r] \in {"waiting", "polling"} => task[r] # "none"
    /\ handler[r] = "ended" <=> reply[r] # "none"
    /\ task[r] \in {"none", "created"} <=> job[r] = "none"
    /\ task[r] = "done" => job[r] = "returned"
    /\ job[r] = "returned" <=> result[r] # "none"
    /\ outcome[r] = IF task[r] = "done" THEN result[r] ELSE "none"
    /\ handler[r] = "ended" /\ task[r] \in {"created", "awaiting"} =>
         reply[r] \in {"499", "dropped"}

\* The frame of the run on the executor thread.
Frame(r) ==
    /\ job[r] \notin {"none", "queued", "returned"} => Fits(r)
    /\ job[r] \in {"tokenized", "loading", "loaded", "prefill"} =>
         position = 0 /\ emitted = 0
    /\ job[r] = "select" =>
         position = body[r].prompt + emitted /\ emitted < body[r].limit
    /\ job[r] = "decode" =>
         position + 1 = body[r].prompt + emitted /\ emitted < body[r].limit

Slot ==
    /\ \A r, s \in Pending : r = s
    /\ gate <=> Pending # {}
    /\ gate <=> active = 1

IInv ==
    /\ TypeOK
    /\ \A r \in Requests : Lifecycle(r)
    /\ Slot
    /\ \A r \in Requests : Frame(r)
    /\ OnThread = {} => position = 0 /\ emitted = 0
    /\ context <= MaxContext
    /\ IdleGaugesZero
    /\ CancellationKept
    /\ AnswersAgree

USE PromptAssumption, OutputAssumption, ContextAssumption
    DEF vars, loopVars, serverVars, workerVars, gaugeVars, HandlersRun, SlotFree,
        KeepLoop, ToStage, Return, Pending, OnThread, HandlerStates, JobStates, Outcomes

\* The initial state satisfies the inductive invariant.
LEMMA InitInv == Init => IInv
<1> SUFFICES ASSUME Init PROVE IInv
  OBVIOUS
<1>1. TypeOK
  BY DEF Init, TypeOK
<1>2. context <= MaxContext
  BY DEF Init
<1>3. QED
  BY <1>1, <1>2 DEF Init, IInv, Lifecycle, Slot, Frame, IdleGaugesZero,
                    CancellationKept, AnswersAgree

\* A request body holds positive numbers of tokens.
LEMMA BodyNumbers ==
  ASSUME IInv, NEW r \in Requests
  PROVE  /\ body[r].prompt \in Nat /\ body[r].prompt > 0
         /\ body[r].limit \in Nat /\ body[r].limit > 0
<1>1. body[r] \in [prompt : PromptLengths, limit : OutputLimits]
  BY DEF IInv, TypeOK
<1>2. body[r].prompt \in PromptLengths /\ body[r].limit \in OutputLimits
  BY <1>1
<1>3. body[r].prompt \in Nat \ {0} /\ body[r].limit \in Nat \ {0}
  BY <1>2
<1>4. \A n \in Nat \ {0} : n > 0
  OBVIOUS
<1>5. QED
  BY <1>3, <1>4

\* Every step of the service preserves the inductive invariant.
LEMMA NextInv == IInv /\ [Next]_vars => IInv'
<1> SUFFICES ASSUME IInv, [Next]_vars PROVE IInv'
  OBVIOUS
<1>1. CASE Drain
  BY <1>1 DEF IInv, TypeOK, Lifecycle, Slot, Frame, IdleGaugesZero, CancellationKept,
         AnswersAgree, Fits, Drain
<1>2. CASE GraceOver
  BY <1>2 DEF IInv, TypeOK, Lifecycle, Slot, Frame, IdleGaugesZero, CancellationKept,
         AnswersAgree, Fits, GraceOver
<1>3. CASE LifespanShutdown
  BY <1>3 DEF IInv, TypeOK, Lifecycle, Slot, Frame, IdleGaugesZero, CancellationKept,
         AnswersAgree, Fits, LifespanShutdown
<1>4. CASE LifespanEnd
  BY <1>4 DEF IInv, TypeOK, Lifecycle, Slot, Frame, IdleGaugesZero, CancellationKept,
         AnswersAgree, Fits, LifespanEnd
<1>5. ASSUME NEW r \in Requests, Receive(r) PROVE IInv'
  BY <1>5 DEF IInv, TypeOK, Lifecycle, Slot, Frame, IdleGaugesZero, CancellationKept,
         AnswersAgree, Fits, Receive
<1>6. ASSUME NEW r \in Requests, Disconnect(r) PROVE IInv'
  BY <1>6 DEF IInv, TypeOK, Lifecycle, Slot, Frame, IdleGaugesZero, CancellationKept,
         AnswersAgree, Fits, Disconnect
<1>7. ASSUME NEW r \in Requests, RejectModel(r) PROVE IInv'
  BY <1>7 DEF IInv, TypeOK, Lifecycle, Slot, Frame, IdleGaugesZero, CancellationKept,
         AnswersAgree, Fits, RejectModel
<1>8. ASSUME NEW r \in Requests, RejectBusy(r) PROVE IInv'
  BY <1>8 DEF IInv, TypeOK, Lifecycle, Slot, Frame, IdleGaugesZero, CancellationKept,
         AnswersAgree, Fits, RejectBusy
<1>9. ASSUME NEW r \in Requests, Admit(r) PROVE IInv'
  <2>1. TypeOK'
    BY <1>9 DEF IInv, TypeOK, Admit
  <2>2. \A q \in Requests : Lifecycle(q)'
    BY <1>9 DEF IInv, TypeOK, Lifecycle, Admit
  <2>3. Slot'
    BY <1>9 DEF IInv, TypeOK, Lifecycle, Slot, Admit
  <2>4. \A q \in Requests : Frame(q)'
    BY <1>9 DEF IInv, TypeOK, Lifecycle, Slot, Frame, Fits, Admit
  <2>5. (OnThread = {} => position = 0 /\ emitted = 0)'
    BY <1>9 DEF IInv, TypeOK, Lifecycle, Slot, Frame, Fits, Admit
  <2>6. context' <= MaxContext
    BY <1>9 DEF IInv, TypeOK, Frame, Fits, Admit
  <2>7. IdleGaugesZero'
    BY <1>9 DEF IInv, TypeOK, Lifecycle, Slot, IdleGaugesZero, Admit
  <2>8. CancellationKept'
    BY <1>9 DEF IInv, TypeOK, Lifecycle, Slot, CancellationKept, Admit
  <2>9. AnswersAgree'
    BY <1>9 DEF IInv, TypeOK, Lifecycle, AnswersAgree, Admit
  <2> QED
    BY <2>1, <2>2, <2>3, <2>4, <2>5, <2>6, <2>7, <2>8, <2>9 DEF IInv
<1>10. ASSUME NEW r \in Requests, WakeUp(r) PROVE IInv'
  BY <1>10 DEF IInv, TypeOK, Lifecycle, Slot, Frame, IdleGaugesZero, CancellationKept,
         AnswersAgree, Fits, WakeUp
<1>11. ASSUME NEW r \in Requests, PollDisconnected(r) PROVE IInv'
  BY <1>11 DEF IInv, TypeOK, Lifecycle, Slot, Frame, IdleGaugesZero, CancellationKept,
         AnswersAgree, Fits, PollDisconnected
<1>12. ASSUME NEW r \in Requests, PollAgain(r) PROVE IInv'
  BY <1>12 DEF IInv, TypeOK, Lifecycle, Slot, Frame, IdleGaugesZero, CancellationKept,
         AnswersAgree, Fits, PollAgain
<1>13. ASSUME NEW r \in Requests, Answer(r) PROVE IInv'
  BY <1>13 DEF IInv, TypeOK, Lifecycle, Slot, Frame, IdleGaugesZero, CancellationKept,
         AnswersAgree, Fits, Answer, StatusOf
<1>14. ASSUME NEW r \in Requests, CancelHandler(r) PROVE IInv'
  BY <1>14 DEF IInv, TypeOK, Lifecycle, Slot, Frame, IdleGaugesZero, CancellationKept,
         AnswersAgree, Fits, CancelHandler
<1>15. ASSUME NEW r \in Requests, SubmitJob(r) PROVE IInv'
  BY <1>15 DEF IInv, TypeOK, Lifecycle, Slot, Frame, IdleGaugesZero, CancellationKept,
         AnswersAgree, Fits, SubmitJob
<1>16. ASSUME NEW r \in Requests, FinishTask(r) PROVE IInv'
  <2>1. TypeOK'
    BY <1>16 DEF IInv, TypeOK, Resolves, ClearGauges, FinishTask
  <2>2. \A q \in Requests : Lifecycle(q)'
    BY <1>16 DEF IInv, TypeOK, Lifecycle, Resolves, ClearGauges, FinishTask
  <2>3. Slot'
    BY <1>16 DEF IInv, TypeOK, Lifecycle, Slot, Resolves, ClearGauges, FinishTask
  <2>4. \A q \in Requests : Frame(q)'
    BY <1>16 DEF IInv, TypeOK, Lifecycle, Slot, Frame, Fits, Resolves, ClearGauges, FinishTask
  <2>5. (OnThread = {} => position = 0 /\ emitted = 0)'
    BY <1>16 DEF IInv, TypeOK, Lifecycle, Slot, Frame, Fits, Resolves, ClearGauges, FinishTask
  <2>6. context' <= MaxContext
    BY <1>16 DEF IInv, TypeOK, Frame, Fits, Resolves, ClearGauges, FinishTask
  <2>7. IdleGaugesZero'
    BY <1>16 DEF IInv, TypeOK, Lifecycle, Slot, IdleGaugesZero, Resolves, ClearGauges, FinishTask
  <2>8. CancellationKept'
    BY <1>16 DEF IInv, TypeOK, Lifecycle, Slot, CancellationKept, Resolves, ClearGauges, FinishTask
  <2>9. AnswersAgree'
    BY <1>16 DEF IInv, TypeOK, Lifecycle, AnswersAgree, Resolves, ClearGauges, FinishTask
  <2> QED
    BY <2>1, <2>2, <2>3, <2>4, <2>5, <2>6, <2>7, <2>8, <2>9 DEF IInv
<1>17. ASSUME NEW r \in Requests, Tokenize(r) PROVE IInv'
  <2>1. TypeOK'
    BY <1>17 DEF IInv, TypeOK, Tokenize
  <2>2. \A q \in Requests : Lifecycle(q)'
    BY <1>17 DEF IInv, TypeOK, Lifecycle, Tokenize
  <2>3. Slot'
    BY <1>17 DEF IInv, TypeOK, Lifecycle, Slot, Tokenize
  <2>4. \A q \in Requests : Frame(q)'
    BY <1>17 DEF IInv, TypeOK, Lifecycle, Slot, Frame, Fits, Tokenize
  <2>5. (OnThread = {} => position = 0 /\ emitted = 0)'
    BY <1>17 DEF IInv, TypeOK, Lifecycle, Slot, Frame, Fits, Tokenize
  <2>6. context' <= MaxContext
    BY <1>17 DEF IInv, TypeOK, Frame, Fits, Tokenize
  <2>7. IdleGaugesZero'
    BY <1>17 DEF IInv, TypeOK, Lifecycle, Slot, IdleGaugesZero, Tokenize
  <2>8. CancellationKept'
    BY <1>17 DEF IInv, TypeOK, Lifecycle, Slot, CancellationKept, Tokenize
  <2>9. AnswersAgree'
    BY <1>17 DEF IInv, TypeOK, Lifecycle, AnswersAgree, Tokenize
  <2> QED
    BY <2>1, <2>2, <2>3, <2>4, <2>5, <2>6, <2>7, <2>8, <2>9 DEF IInv
<1>18. ASSUME NEW r \in Requests, StopIfCancelled(r) PROVE IInv'
  BY <1>18 DEF IInv, TypeOK, Lifecycle, Slot, Frame, IdleGaugesZero, CancellationKept,
         AnswersAgree, Fits, StopIfCancelled
<1>19. ASSUME NEW r \in Requests, PassCheck(r) PROVE IInv'
  BY <1>19 DEF IInv, TypeOK, Lifecycle, Slot, Frame, IdleGaugesZero, CancellationKept,
         AnswersAgree, Fits, PassCheck
<1>20. ASSUME NEW r \in Requests, Load(r) PROVE IInv'
  BY <1>20 DEF IInv, TypeOK, Lifecycle, Slot, Frame, IdleGaugesZero, CancellationKept,
         AnswersAgree, Fits, Load
<1>21. ASSUME NEW r \in Requests, Prefill(r) PROVE IInv'
  <2>a. /\ body[r].prompt \in Nat /\ body[r].prompt > 0
        /\ body[r].limit \in Nat /\ body[r].limit > 0
    BY BodyNumbers
  <2>0. /\ position \in Nat /\ emitted \in Nat
        /\ body[r].prompt + body[r].limit <= MaxContext
    BY <1>21 DEF IInv, TypeOK, Frame, Fits, Prefill
  <2>1. TypeOK'
    BY <1>21, <2>a, <2>0 DEF IInv, TypeOK, Prefill
  <2>2. \A q \in Requests : Lifecycle(q)'
    BY <1>21 DEF IInv, TypeOK, Lifecycle, Prefill
  <2>3. Slot'
    BY <1>21 DEF IInv, TypeOK, Lifecycle, Slot, Prefill
  <2>4. \A q \in Requests : Frame(q)'
    BY <1>21, <2>a, <2>0 DEF IInv, TypeOK, Lifecycle, Slot, Frame, Fits, Prefill
  <2>5. (OnThread = {} => position = 0 /\ emitted = 0)'
    BY <1>21 DEF IInv, TypeOK, Lifecycle, Slot, Frame, Fits, Prefill
  <2>6. context' <= MaxContext
    BY <1>21, <2>a, <2>0 DEF IInv, TypeOK, Frame, Fits, Prefill
  <2>7. IdleGaugesZero'
    BY <1>21 DEF IInv, TypeOK, Lifecycle, Slot, IdleGaugesZero, Prefill
  <2>8. CancellationKept'
    BY <1>21 DEF IInv, TypeOK, Lifecycle, Slot, CancellationKept, Prefill
  <2>9. AnswersAgree'
    BY <1>21 DEF IInv, TypeOK, Lifecycle, AnswersAgree, Prefill
  <2> QED
    BY <2>1, <2>2, <2>3, <2>4, <2>5, <2>6, <2>7, <2>8, <2>9 DEF IInv
<1>22. ASSUME NEW r \in Requests, SelectToken(r) PROVE IInv'
  <2>a. /\ body[r].prompt \in Nat /\ body[r].prompt > 0
        /\ body[r].limit \in Nat /\ body[r].limit > 0
    BY BodyNumbers
  <2>0. /\ position \in Nat /\ emitted \in Nat
        /\ body[r].prompt + body[r].limit <= MaxContext
    BY <1>22 DEF IInv, TypeOK, Frame, Fits, SelectToken
  <2>1. TypeOK'
    BY <1>22, <2>a, <2>0 DEF IInv, TypeOK, SelectToken
  <2>2. \A q \in Requests : Lifecycle(q)'
    BY <1>22 DEF IInv, TypeOK, Lifecycle, SelectToken
  <2>3. Slot'
    BY <1>22 DEF IInv, TypeOK, Lifecycle, Slot, SelectToken
  <2>4. \A q \in Requests : Frame(q)'
    <3> SUFFICES ASSUME NEW q \in Requests PROVE Frame(q)'
      OBVIOUS
    <3>1. CASE q # r
      <4>1. job[q] \in {"none", "returned"} /\ job'[q] = job[q]
        BY <1>22, <3>1 DEF IInv, TypeOK, Lifecycle, Slot, SelectToken
      <4>2. QED
        BY <4>1 DEF Frame
    <3>2. CASE q = r /\ job'[r] = "returned"
      BY <3>2 DEF Frame
    <3>3. CASE q = r /\ job'[r] # "returned"
      <4>1. /\ job'[r] = "decode" /\ emitted' = emitted + 1
            /\ emitted + 1 < body[r].limit /\ position' = position /\ body' = body
        BY <1>22, <3>3 DEF IInv, TypeOK, SelectToken
      <4>2. position = body[r].prompt + emitted
        BY <1>22 DEF IInv, Frame, SelectToken
      <4>3. position + 1 = body[r].prompt + (emitted + 1)
        BY <4>2, <2>a, <2>0
      <4>4. QED
        BY <3>3, <4>1, <4>3, <2>0 DEF Frame, Fits
    <3> QED
      BY <3>1, <3>2, <3>3
  <2>5. (OnThread = {} => position = 0 /\ emitted = 0)'
    BY <1>22 DEF IInv, TypeOK, Lifecycle, Slot, Frame, Fits, SelectToken
  <2>6. context' <= MaxContext
    BY <1>22, <2>a, <2>0 DEF IInv, TypeOK, Frame, Fits, SelectToken
  <2>7. IdleGaugesZero'
    BY <1>22 DEF IInv, TypeOK, Lifecycle, Slot, IdleGaugesZero, SelectToken
  <2>8. CancellationKept'
    BY <1>22 DEF IInv, TypeOK, Lifecycle, Slot, CancellationKept, SelectToken
  <2>9. AnswersAgree'
    BY <1>22 DEF IInv, TypeOK, Lifecycle, AnswersAgree, SelectToken
  <2> QED
    BY <2>1, <2>2, <2>3, <2>4, <2>5, <2>6, <2>7, <2>8, <2>9 DEF IInv
<1>23. ASSUME NEW r \in Requests, Decode(r) PROVE IInv'
  <2>a. /\ body[r].prompt \in Nat /\ body[r].prompt > 0
        /\ body[r].limit \in Nat /\ body[r].limit > 0
    BY BodyNumbers
  <2>0. /\ position \in Nat /\ emitted \in Nat
        /\ body[r].prompt + body[r].limit <= MaxContext
    BY <1>23 DEF IInv, TypeOK, Frame, Fits, Decode
  <2>1. TypeOK'
    BY <1>23, <2>a, <2>0 DEF IInv, TypeOK, Decode
  <2>2. \A q \in Requests : Lifecycle(q)'
    BY <1>23 DEF IInv, TypeOK, Lifecycle, Decode
  <2>3. Slot'
    BY <1>23 DEF IInv, TypeOK, Lifecycle, Slot, Decode
  <2>4. \A q \in Requests : Frame(q)'
    BY <1>23, <2>a, <2>0 DEF IInv, TypeOK, Lifecycle, Slot, Frame, Fits, Decode
  <2>5. (OnThread = {} => position = 0 /\ emitted = 0)'
    BY <1>23 DEF IInv, TypeOK, Lifecycle, Slot, Frame, Fits, Decode
  <2>6. context' <= MaxContext
    BY <1>23, <2>a, <2>0 DEF IInv, TypeOK, Frame, Fits, Decode
  <2>7. IdleGaugesZero'
    BY <1>23 DEF IInv, TypeOK, Lifecycle, Slot, IdleGaugesZero, Decode
  <2>8. CancellationKept'
    BY <1>23 DEF IInv, TypeOK, Lifecycle, Slot, CancellationKept, Decode
  <2>9. AnswersAgree'
    BY <1>23 DEF IInv, TypeOK, Lifecycle, AnswersAgree, Decode
  <2> QED
    BY <2>1, <2>2, <2>3, <2>4, <2>5, <2>6, <2>7, <2>8, <2>9 DEF IInv
<1>24. ASSUME NEW r \in Requests, Raise(r) PROVE IInv'
  BY <1>24 DEF IInv, TypeOK, Lifecycle, Slot, Frame, IdleGaugesZero, CancellationKept,
         AnswersAgree, Fits, Raise
<1>25. CASE UNCHANGED vars
  BY <1>25 DEF IInv, TypeOK, Lifecycle, Slot, Frame, IdleGaugesZero, CancellationKept,
         AnswersAgree, Fits
<1> QED
  BY <1>1, <1>2, <1>3, <1>4, <1>5, <1>6, <1>7, <1>8, <1>9, <1>10, <1>11, <1>12,
     <1>13, <1>14, <1>15, <1>16, <1>17, <1>18, <1>19, <1>20, <1>21, <1>22, <1>23, <1>24,
     <1>25 DEF Next, Handle, Poll, Generate, Work

\* Every reachable state of the service satisfies the inductive invariant.
THEOREM Inductive == Spec => []IInv
<1>1. Init => IInv
  BY InitInv
<1>2. IInv /\ [Next]_vars => IInv'
  BY NextInv
<1>3. QED
  BY <1>1, <1>2, PTL DEF Spec

\* Every variable keeps its type, for any requests, prompts, limits and capacity.
THEOREM TypeCorrect == Spec => []TypeOK
<1>1. IInv => TypeOK
  BY DEF IInv
<1>2. QED
  BY <1>1, Inductive, PTL

\* At most one attempt is admitted; a run the executor holds, on its thread or
\* queued, belongs to it and the gate stays locked until that run has returned.
THEOREM SlotSafe == Spec => []SlotHeldByWorker
<1>1. IInv => SlotHeldByWorker
  BY DEF IInv, SlotHeldByWorker, Lifecycle, Slot, Submitted, TypeOK
<1>2. QED
  BY <1>1, Inductive, PTL

\* The gauges and the /slots counters read zero whenever the slot is free.
THEOREM GaugesZero == Spec => []IdleGaugesZero
<1>1. IInv => IdleGaugesZero
  BY DEF IInv
<1>2. QED
  BY <1>1, Inductive, PTL

\* A cancellation requested for a pending attempt is never withdrawn.
THEOREM NoLostCancellation == Spec => []CancellationKept
<1>1. IInv => CancellationKept
  BY DEF IInv
<1>2. QED
  BY <1>1, Inductive, PTL

\* The engine never caches a position beyond the context capacity.
THEOREM CapacityRespected == Spec => []ContextWithinCapacity
<1>1. ASSUME IInv PROVE ContextWithinCapacity
  <2> SUFFICES ASSUME NEW r \in OnThread
               PROVE position + body[r].limit <= MaxContext + emitted
    BY <1>1 DEF IInv, ContextWithinCapacity
  <2>1. /\ body[r].prompt \in Nat /\ body[r].prompt > 0
        /\ body[r].limit \in Nat /\ body[r].limit > 0
    BY <1>1, BodyNumbers
  <2>2. /\ position \in Nat /\ emitted \in Nat
        /\ body[r].prompt + body[r].limit <= MaxContext
    BY <1>1 DEF IInv, TypeOK, Frame, Fits
  <2>3. \/ position = 0 /\ emitted = 0
        \/ position = body[r].prompt + emitted
        \/ position + 1 = body[r].prompt + emitted
    <3>1. job[r] \in {"tokenized", "loading", "loaded", "prefill", "select", "decode"}
      BY <1>1 DEF IInv, TypeOK
    <3>2. Frame(r)
      BY <1>1 DEF IInv
    <3>3. QED
      BY <3>1, <3>2 DEF Frame
  <2>4. QED
    BY <2>1, <2>2, <2>3
<1>2. QED
  BY <1>1, Inductive, PTL

\* Answers and counted outcomes never contradict each other.
THEOREM AnswersSound == Spec => []AnswersAgree
<1>1. IInv => AnswersAgree
  BY DEF IInv
<1>2. QED
  BY <1>1, Inductive, PTL

(***************************************************************************)
(* The service implements SingleSlot (safety).                             *)
(***************************************************************************)
\* Initially no request has a status and the slot is free.
LEMMA InitRefines == Init => Abstract!Init
  BY DEF Init, Abstract!Init, Status

\* Two functions that differ at one argument differ by one EXCEPT.
LEMMA ChangedAtOne ==
  ASSUME NEW S, NEW f, NEW g, NEW s \in S,
         f = [x \in S |-> f[x]], g = [x \in S |-> g[x]],
         \A x \in S : x # s => g[x] = f[x]
  PROVE  g = [f EXCEPT ![s] = g[s]]
  OBVIOUS

\* Every step of the service is a step of SingleSlot or leaves it alone.
LEMMA StepRefines ==
  ASSUME IInv, [Next]_vars
  PROVE  [Abstract!Next]_(Abstract!vars)
<1> USE DEF Abstract!vars, Status, IInv, TypeOK, Lifecycle
<1>1. CASE Drain
  BY <1>1 DEF Drain
<1>2. CASE GraceOver
  BY <1>2 DEF GraceOver
<1>3. CASE LifespanShutdown
  BY <1>3 DEF LifespanShutdown
<1>4. CASE LifespanEnd
  BY <1>4 DEF LifespanEnd
<1>5. ASSUME NEW r \in Requests, Receive(r) PROVE UNCHANGED Abstract!vars
  BY <1>5 DEF Receive
<1>6. ASSUME NEW r \in Requests, Disconnect(r) PROVE UNCHANGED Abstract!vars
  BY <1>6 DEF Disconnect
<1>7. ASSUME NEW r \in Requests, RejectModel(r) PROVE Abstract!Invalid(r)
  BY <1>7 DEF RejectModel, Slot, Abstract!Invalid
<1>8. ASSUME NEW r \in Requests, RejectBusy(r) PROVE Abstract!Refuse(r)
  <2>1. /\ Pending # {} /\ Pending' = Pending
        /\ Status(r) = "new" /\ Status(r)' = "busy"
    BY <1>8 DEF RejectBusy, Slot
  <2>2. \A q \in Requests : q # r => Status(q)' = Status(q)
    BY <1>8 DEF RejectBusy
  <2> DEFINE old == [q \in Requests |-> Status(q)]
             new == [q \in Requests |-> Status(q)']
  <2>3. /\ \A q \in Requests : q # r => new[q] = old[q]
        /\ new[r] = "busy"
    BY <2>1, <2>2
  <2>4. old = [q \in Requests |-> old[q]] /\ new = [q \in Requests |-> new[q]]
    OBVIOUS
  <2> HIDE DEF old, new
  <2>5. new = [old EXCEPT ![r] = "busy"]
    BY <2>3, <2>4, ChangedAtOne
  <2> USE DEF old, new
  <2>6. QED
    BY <2>1, <2>5 DEF Abstract!Refuse
<1>9. ASSUME NEW r \in Requests, Admit(r) PROVE Abstract!Admit(r)
  <2>1. Pending = {} /\ Pending' = {r} /\ Status(r) = "new"
    BY <1>9 DEF Admit, Slot
  <2>2. Status(r)' = "admitted"
    BY <1>9 DEF Admit
  <2>3. \A q \in Requests : q # r => Status(q)' = Status(q)
    BY <1>9 DEF Admit
  <2> DEFINE old == [q \in Requests |-> Status(q)]
             new == [q \in Requests |-> Status(q)']
  <2>4. /\ \A q \in Requests : q # r => new[q] = old[q]
        /\ new[r] = "admitted"
    BY <2>2, <2>3
  <2>5. old = [q \in Requests |-> old[q]] /\ new = [q \in Requests |-> new[q]]
    OBVIOUS
  <2> HIDE DEF old, new
  <2>6. new = [old EXCEPT ![r] = "admitted"]
    BY <2>4, <2>5, ChangedAtOne
  <2> USE DEF old, new
  <2>7. QED
    BY <2>1, <2>2, <2>6 DEF Abstract!Admit
<1>10. ASSUME NEW r \in Requests, WakeUp(r) PROVE UNCHANGED Abstract!vars
  BY <1>10 DEF WakeUp
<1>11. ASSUME NEW r \in Requests, PollDisconnected(r) PROVE UNCHANGED Abstract!vars
  BY <1>11 DEF PollDisconnected
<1>12. ASSUME NEW r \in Requests, PollAgain(r) PROVE UNCHANGED Abstract!vars
  BY <1>12 DEF PollAgain
<1>13. ASSUME NEW r \in Requests, Answer(r) PROVE UNCHANGED Abstract!vars
  BY <1>13 DEF Answer
<1>14. ASSUME NEW r \in Requests, CancelHandler(r) PROVE UNCHANGED Abstract!vars
  BY <1>14 DEF CancelHandler
<1>15. ASSUME NEW r \in Requests, SubmitJob(r) PROVE UNCHANGED Abstract!vars
  BY <1>15 DEF SubmitJob
<1>16. ASSUME NEW r \in Requests, FinishTask(r) PROVE Abstract!Finish(r)
  <2>1. r \in Pending /\ Pending' = Pending \ {r}
    BY <1>16 DEF FinishTask
  <2>2. Status(r)' = outcome'[r] /\ outcome'[r] \in Outcomes
    BY <1>16 DEF FinishTask, Resolves
  <2>3. \A q \in Requests : q # r => Status(q)' = Status(q)
    BY <1>16 DEF FinishTask
  <2> DEFINE old == [q \in Requests |-> Status(q)]
             new == [q \in Requests |-> Status(q)']
  <2>4. /\ \A q \in Requests : q # r => new[q] = old[q]
        /\ new[r] = outcome'[r]
    BY <2>2, <2>3
  <2>5. old = [q \in Requests |-> old[q]] /\ new = [q \in Requests |-> new[q]]
    OBVIOUS
  <2> HIDE DEF old, new
  <2>6. new = [old EXCEPT ![r] = outcome'[r]]
    BY <2>4, <2>5, ChangedAtOne
  <2> USE DEF old, new
  <2>7. QED
    BY <2>1, <2>2, <2>6 DEF Abstract!Finish
<1>17. ASSUME NEW r \in Requests, Tokenize(r) PROVE UNCHANGED Abstract!vars
  BY <1>17 DEF Tokenize
<1>18. ASSUME NEW r \in Requests, StopIfCancelled(r) PROVE UNCHANGED Abstract!vars
  BY <1>18 DEF StopIfCancelled
<1>19. ASSUME NEW r \in Requests, PassCheck(r) PROVE UNCHANGED Abstract!vars
  BY <1>19 DEF PassCheck
<1>20. ASSUME NEW r \in Requests, Load(r) PROVE UNCHANGED Abstract!vars
  BY <1>20 DEF Load
<1>21. ASSUME NEW r \in Requests, Prefill(r) PROVE UNCHANGED Abstract!vars
  BY <1>21 DEF Prefill
<1>22. ASSUME NEW r \in Requests, SelectToken(r) PROVE UNCHANGED Abstract!vars
  BY <1>22 DEF SelectToken
<1>23. ASSUME NEW r \in Requests, Decode(r) PROVE UNCHANGED Abstract!vars
  BY <1>23 DEF Decode
<1>24. ASSUME NEW r \in Requests, Raise(r) PROVE UNCHANGED Abstract!vars
  BY <1>24 DEF Raise
<1>25. CASE UNCHANGED vars
  BY <1>25
<1> QED
  BY <1>1, <1>2, <1>3, <1>4, <1>5, <1>6, <1>7, <1>8, <1>9, <1>10, <1>11, <1>12,
     <1>13, <1>14, <1>15, <1>16, <1>17, <1>18, <1>19, <1>20, <1>21, <1>22, <1>23, <1>24,
     <1>25
  DEF Next, Handle, Poll, Generate, Work, Abstract!Next

\* Every behaviour of the service is one of the one-slot service: refusals only
\* while the slot is taken, one admission at a time, one outcome per attempt.
THEOREM ImplementsSlot ==
  Spec => Abstract!Init /\ [][Abstract!Next]_(Abstract!vars)
<1>1. Init => Abstract!Init
  BY InitRefines
<1>2. IInv /\ [Next]_vars => [Abstract!Next]_(Abstract!vars)
  BY StepRefines
<1>3. QED
  BY <1>1, <1>2, Inductive, PTL DEF Spec
=============================================================================
