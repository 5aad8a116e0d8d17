-------------------------- MODULE DecideRecordsProofs --------------------------
(***************************************************************************)
(* For every list of records, pool of workers and sequence of stages that  *)
(* validateStages accepts: the types of DecideRecords, that the results    *)
(* file changes as a whole or not at all, that a caller who aborts in time *)
(* keeps the previous one, that every record walks the stages in order,    *)
(* and that the numbers the tool reports add up.                           *)
(*                                                                         *)
(* None of these is inductive.  That a published file is complete rests on *)
(* the pool: every position handed out is held by one worker or stored     *)
(* (PoolInv), so when all workers have ended without abort or fatal error, *)
(* all positions are stored.  The rest rests on the shape of a record's    *)
(* chain (Shape): decided stages before the one that is asked or stopped   *)
(* the record, none after it.                                              *)
(***************************************************************************)
EXTENDS DecideRecords, FiniteSetTheorems, WellFoundedInduction, TLAPS

(***************************************************************************)
(* The inductive invariant.                                                *)
(***************************************************************************)
Chains == [stages : [StageIds -> StageStatus], outcome : Outcomes \cup {"open"},
           stop : StageIds \cup {0}, asking : StageIds \cup {0}]

Decided == {"yes", "no", "skipped"}

\* Stages before s are decided, stages after s untouched.
Front(c, s) ==
    /\ \A e \in StageIds : e < s => c.stages[e] \in Decided
    /\ \A e \in StageIds : e > s => c.stages[e] = "none"

AnsweredHold(c) ==
    \A s \in StageIds : c.stages[s] \in Answers \cup {"error"} => Holds(c, s)

IsOpen(c) ==
    /\ c.outcome = "open" /\ c.stop = 0
    /\ c.asking \in StageIds
    /\ Front(c, c.asking) /\ c.stages[c.asking] = "none" /\ Holds(c, c.asking)

IsClosed(c) ==
    /\ c.asking = 0
    /\ \/ /\ c.outcome = "complete" /\ c.stop = 0
          /\ \A s \in StageIds : c.stages[s] \in Decided
       \/ /\ c.outcome \in {"filtered", "abstained", "error"}
          /\ c.stop \in StageIds /\ Front(c, c.stop)
          /\ IF c.outcome = "filtered" THEN c.stages[c.stop] = "none"
             ELSE c.stages[c.stop] \in {"unsure", "error"}

\* A record's chain while its worker awaits a stage, and when it is over.
Shape(c) == c \in Chains /\ AnsweredHold(c) /\ (IsOpen(c) \/ IsClosed(c))

\* Positions handed out are awaited by the one worker that took them, or stored.
Holder(w) == worker[w] \in {"calling", "threw"}
PoolInv ==
    /\ \A p \in Positions : p >= next => chain[p] = NewChain
    /\ \A p \in Positions : p < next => Shape(chain[p])
    /\ \A p \in Positions : p < next /\ chain[p].asking # 0 =>
         \E w \in Workers : Holder(w) /\ at[w] = p
    /\ \A w \in Workers : Holder(w) => /\ at[w] \in Positions /\ at[w] < next
                                       /\ chain[at[w]].asking # 0
    /\ \A v, w \in Workers : Holder(v) /\ Holder(w) /\ at[v] = at[w] => v = w
    /\ stored = {p \in Positions : p < next /\ chain[p].asking = 0}
    /\ \A w \in Workers : worker[w] = "ended" => fatal \/ aborted \/ next > NumRecords

\* What is staged and published is the whole list.
FileInv ==
    /\ tool \in {"staging", "staged", "renaming"} => stored = Positions /\ AllDone
    /\ output # Previous => tool \in {"cleaning", "returned"}
    /\ output # Previous => stored = Positions /\ output = Positions /\ AllDone
    /\ tool = "returned" => output # Previous
    /\ tool \in {"deciding", "returned", "failed"} => ~temporary

\* The stages that cost a call, and all of them.
Marked(c, e) == c.stages[e] \in Answers \cup {"error"} \/ c.asking = e
Asked == {x \in Positions \X StageIds : Marked(chain[x[1]], x[2])}
Ended == {w \in Workers : worker[w] = "ended"}

\* A worker goes past the end of the list once, and ends.
NextBounded == next <= NumRecords + 1 + Cardinality(Ended)

Types ==
    /\ worker \in [Workers -> {"loop", "calling", "ended", "threw"}]
    /\ at \in [Workers -> 0 .. NumRecords]
    /\ next \in Nat \ {0}
    /\ chain \in [Positions -> Chains]
    /\ stored \subseteq Positions
    /\ succeeded \in Nat /\ failures \in Nat /\ calls \in Nat
    /\ fatal \in BOOLEAN /\ aborted \in BOOLEAN /\ temporary \in BOOLEAN
    /\ tool \in {"deciding", "staging", "staged", "renaming", "cleaning",
                "returned", "failed"}
    /\ output \in {Previous, Positions}

IInv == Types /\ PoolInv /\ NextBounded /\ FileInv /\ calls = Cardinality(Asked)

(***************************************************************************)
(* The walk through the stages (chain.ts).                                 *)
(***************************************************************************)

\* A set of naturals that is not empty has a least element, which Min chooses.
LEMMA MinIsLeast ==
    ASSUME NEW S \in SUBSET Nat, S # {}
    PROVE  Min(S) \in S /\ \A y \in S : Min(S) <= y
<1>1. PICK x \in S : \A y \in S : ~ (<<y, x>> \in OpToRel(<, Nat))
  BY NatLessThanWellFounded, WFMin
<1>2. OpToRel(<, Nat) = {ss \in Nat \X Nat : ss[1] < ss[2]}
  BY DEF OpToRel
<1>3. ASSUME NEW y \in S PROVE x <= y
  <2>1. <<y, x>> \notin OpToRel(<, Nat)
    BY <1>1
  <2>2. ~ (y < x)
    BY <1>2, <2>1
  <2>3. QED
    BY <2>2
<1> QED
  BY <1>3 DEF Min

\* A filter looks back only, so it still holds when the stages it could name
\* keep their "yes".
LEMMA HoldsKept ==
    ASSUME NEW c, NEW d, NEW s \in StageIds, Holds(c, s),
           \A e \in StageIds : e < s /\ c.stages[e] = "yes" => d.stages[e] = "yes"
    PROVE  Holds(d, s)
<1>1. Stages[s].when \subseteq 1 .. s - 1 /\ StageIds = 1 .. Cardinality(StageIds)
  BY StagesAssumption
<1>2. Cardinality(StageIds) \in Nat
  BY StagesAssumption, FS_CardinalityType
<1> QED
  BY <1>1, <1>2 DEF Holds

\* Walking on from the decided stages leads to the shape of a chain that awaits
\* a stage or is over; stages that were not asked are marked, the others kept.
LEMMA WalkShape ==
    ASSUME NEW c \in Chains, NEW k \in StageIds \cup {0},
           c.outcome = "open", c.stop = 0, AnsweredHold(c),
           \A e \in StageIds : e <= k => c.stages[e] \in Decided,
           \A e \in StageIds : e > k => c.stages[e] = "none"
    PROVE  /\ Shape(WalkFrom(c, k))
           /\ \A e \in StageIds : c.stages[e] \in Answers \cup {"error"}
                <=> WalkFrom(c, k).stages[e] \in Answers \cup {"error"}
           /\ WalkFrom(c, k).asking \notin 1 .. k
           /\ \A e \in StageIds : k = 0 /\ e = 1 => WalkFrom(c, k).asking = 1
<1> DEFINE later == {s \in StageIds : s > k}
           halts == {s \in later : Holds(c, s) \/ Stages[s].otherwise = "stop"}
           here == IF halts = {} THEN 0 ELSE Min(halts)
           sts == [s \in StageIds |->
                     IF s \in later /\ (here = 0 \/ s < here) THEN "skipped" ELSE c.stages[s]]
           d == WalkFrom(c, k)
<1>1. StageIds \subseteq Nat \ {0}
  BY StagesAssumption, FS_CardinalityType
<1>2. halts # {} => here \in halts /\ \A y \in halts : here <= y
  <2>1. halts \in SUBSET Nat
    BY <1>1
  <2>2. QED
    BY <2>1, MinIsLeast
<1>3. here \in StageIds \cup {0}
  BY <1>2
<1> HIDE DEF here
<1>4. /\ here = 0 => d = [stages |-> sts, outcome |-> "complete", stop |-> 0, asking |-> 0]
      /\ here # 0 /\ Holds(c, here) =>
           d = [stages |-> sts, outcome |-> "open", stop |-> 0, asking |-> here]
      /\ here # 0 /\ ~Holds(c, here) =>
           d = [stages |-> sts, outcome |-> "filtered", stop |-> here, asking |-> 0]
  <2>1. d = LET walked == [c EXCEPT !.asking = 0, !.stages = sts]
            IN  IF here = 0 THEN [walked EXCEPT !.outcome = "complete"]
                ELSE IF Holds(c, here) THEN [walked EXCEPT !.asking = here]
                ELSE [walked EXCEPT !.outcome = "filtered", !.stop = here]
    BY DEF WalkFrom, here, Chains
  <2>2. QED
    BY <2>1 DEF Chains
<1>5. \A e \in StageIds :
        /\ e <= k => sts[e] = c.stages[e]
        /\ e > k => sts[e] = IF here = 0 \/ e < here THEN "skipped" ELSE "none"
  BY <1>1
<1>6. sts \in [StageIds -> StageStatus]
  BY DEF Chains, StageStatus
<1>7. d \in Chains
  BY <1>3, <1>4, <1>6 DEF Chains, Outcomes
<1>8. d.stages = sts
  BY <1>4
<1> HIDE DEF sts, d
<1>9. here # 0 => here > k
  BY <1>2, <1>3 DEF here
<1>10. /\ \A e \in StageIds : e <= k \/ sts[e] \notin Answers \cup {"error"}
       /\ \A e \in StageIds : sts[e] \in Answers \cup {"error"}
            <=> c.stages[e] \in Answers \cup {"error"}
       /\ \A e \in StageIds : c.stages[e] = "yes" => sts[e] = "yes"
  <2>1. ASSUME NEW e \in StageIds, e <= k PROVE sts[e] = c.stages[e]
    BY <2>1, <1>5
  <2>2. ASSUME NEW e \in StageIds, ~(e <= k)
        PROVE  sts[e] \in {"skipped", "none"} /\ c.stages[e] = "none"
    <3>1. e > k
      BY <2>2, <1>1
    <3>2. QED
      BY <3>1, <1>5
  <2>3. ASSUME NEW e \in StageIds
        PROVE  /\ e <= k \/ sts[e] \notin Answers \cup {"error"}
               /\ sts[e] \in Answers \cup {"error"}
                    <=> c.stages[e] \in Answers \cup {"error"}
               /\ c.stages[e] = "yes" => sts[e] = "yes"
    <3>1. CASE e <= k
      BY <3>1, <2>1
    <3>2. CASE ~(e <= k)
      BY <3>2, <2>2 DEF Answers
    <3>3. QED
      BY <3>1, <3>2
  <2>4. QED
    BY <2>3
<1>11. \A s \in StageIds : Holds(c, s) => Holds(d, s)
  BY <1>8, <1>10, HoldsKept
<1>12. AnsweredHold(d)
  BY <1>8, <1>10, <1>11 DEF AnsweredHold
<1>13. IsOpen(d) \/ IsClosed(d)
  <2>1. CASE here = 0
    BY <2>1, <1>1, <1>4, <1>5, <1>8 DEF IsClosed, Decided
  <2>2. CASE here # 0 /\ Holds(c, here)
    BY <2>2, <1>1, <1>3, <1>4, <1>5, <1>8, <1>9, <1>11 DEF IsOpen, Front, Decided
  <2>3. CASE here # 0 /\ ~Holds(c, here)
    <3>1. /\ d.asking = 0 /\ d.outcome = "filtered" /\ d.stop = here
          /\ here \in StageIds /\ here > k
      BY <2>3, <1>3, <1>4, <1>9
    <3>2. /\ \A e \in StageIds : e < here => sts[e] \in Decided
          /\ \A e \in StageIds : e >= here => sts[e] = "none"
      BY <3>1, <1>1, <1>5 DEF Decided
    <3>3. Front(d, d.stop) /\ d.stages[d.stop] = "none"
      BY <3>1, <3>2, <1>1, <1>8 DEF Front
    <3>4. QED
      BY <3>1, <3>3 DEF IsClosed
  <2>4. QED
    BY <2>1, <2>2, <2>3
<1>14. d.asking \notin 1 .. k
  <2>1. d.asking = 0 \/ (d.asking = here /\ here > k)
    BY <1>4, <1>9
  <2>2. QED
    BY <2>1, <1>1, <1>3
<1>15. ASSUME NEW e \in StageIds, k = 0, e = 1 PROVE d.asking = 1
  <2>1. Stages[1].when \subseteq 1 .. 1 - 1
    BY <1>15, StagesAssumption
  <2>2. Holds(c, 1)
    BY <2>1 DEF Holds
  <2>3. 1 \in halts
    BY <2>2, <1>15
  <2>4. here \in StageIds /\ here <= 1
    BY <2>3, <1>2
  <2>5. here = 1
    BY <2>4, <1>1
  <2>6. QED
    BY <2>2, <2>5, <1>4
<1>16. QED
  BY <1>7, <1>8, <1>10, <1>12, <1>13, <1>14, <1>15 DEF Shape, d

\* A stage that ends the record leaves a chain that is over; nothing else is
\* marked, and no stage is awaited.
LEMMA StopShape ==
    ASSUME NEW c, Shape(c), c.asking # 0,
           NEW a \in {"unsure", "error"}, NEW o \in {"abstained", "error"}
    PROVE  /\ Shape(StopAt(c, c.asking, a, o))
           /\ \A e \in StageIds :
                StopAt(c, c.asking, a, o).stages[e] \in Answers \cup {"error"}
                <=> c.stages[e] \in Answers \cup {"error"} \/ e = c.asking
           /\ StopAt(c, c.asking, a, o).asking = 0
<1> DEFINE d == StopAt(c, c.asking, a, o)
<1>1. c \in Chains /\ AnsweredHold(c) /\ IsOpen(c) /\ c.asking \in StageIds
  BY DEF Shape, IsClosed, IsOpen
<1>2. d = [stages |-> [c.stages EXCEPT ![c.asking] = a], outcome |-> o,
           stop |-> c.asking, asking |-> 0]
  <2>1. c = [stages |-> c.stages, outcome |-> c.outcome, stop |-> c.stop, asking |-> c.asking]
    BY <1>1 DEF Chains
  <2>2. d = [c EXCEPT !.stages = [c.stages EXCEPT ![c.asking] = a], !.outcome = o,
                      !.stop = c.asking, !.asking = 0]
    BY DEF StopAt
  <2>3. QED
    BY <2>1, <2>2
<1>3. d.stages \in [StageIds -> StageStatus] /\ d \in Chains
  BY <1>1, <1>2 DEF Chains, StageStatus, Answers, Outcomes
<1>4. \A e \in StageIds : d.stages[e] = IF e = c.asking THEN a ELSE c.stages[e]
  BY <1>1, <1>2 DEF Chains
<1> HIDE DEF d
<1>5. c.stages[c.asking] = "none"
  BY <1>1 DEF IsOpen
<1>6. \A e \in StageIds : d.stages[e] \in Answers \cup {"error"}
        <=> c.stages[e] \in Answers \cup {"error"} \/ e = c.asking
  BY <1>4 DEF Answers
<1>7. AnsweredHold(d)
  <2> SUFFICES ASSUME NEW s \in StageIds, d.stages[s] \in Answers \cup {"error"}
               PROVE  Holds(d, s)
    BY DEF AnsweredHold
  <2>1. Holds(c, s)
    BY <1>1, <1>6 DEF AnsweredHold, IsOpen
  <2>2. \A e \in StageIds : c.stages[e] = "yes" => d.stages[e] = "yes"
    BY <1>4, <1>5
  <2>3. QED
    BY <2>1, <2>2, HoldsKept
<1>8. IsClosed(d)
  <2>1. StageIds \subseteq Nat
    BY StagesAssumption, FS_CardinalityType
  <2>2. Front(c, c.asking)
    BY <1>1 DEF IsOpen
  <2>3. Front(d, c.asking)
    BY <2>1, <2>2, <1>1, <1>4 DEF Front
  <2>4. d.stages[d.stop] \in {"unsure", "error"} /\ d.stop = c.asking
    BY <1>1, <1>2, <1>4
  <2>5. QED
    BY <2>3, <2>4, <1>1, <1>2 DEF IsClosed
<1>9. d.asking = 0
  BY <1>2
<1>10. QED
  BY <1>3, <1>6, <1>7, <1>8, <1>9 DEF Shape, d

\* A "yes" or "no" of the awaited stage, and the walk from it.
LEMMA AnswerShape ==
    ASSUME NEW c, Shape(c), c.asking # 0, NEW a \in {"yes", "no"}
    PROVE  /\ Shape(Answered(c, c.asking, a))
           /\ \A e \in StageIds :
                Answered(c, c.asking, a).stages[e] \in Answers \cup {"error"}
                <=> c.stages[e] \in Answers \cup {"error"} \/ e = c.asking
           /\ Answered(c, c.asking, a).asking \notin 1 .. c.asking
<1> DEFINE b == [c EXCEPT !.stages[c.asking] = a]
           k == c.asking
<1>1. c \in Chains /\ AnsweredHold(c) /\ IsOpen(c) /\ k \in StageIds
  BY DEF Shape, IsClosed, IsOpen
<1>2. b = [stages |-> [c.stages EXCEPT ![k] = a], outcome |-> "open",
           stop |-> 0, asking |-> k]
  BY <1>1 DEF Chains, IsOpen
<1>3. b.stages \in [StageIds -> StageStatus] /\ b \in Chains
  BY <1>1, <1>2 DEF Chains, StageStatus, Answers
<1>4. \A e \in StageIds : b.stages[e] = IF e = k THEN a ELSE c.stages[e]
  BY <1>1, <1>2 DEF Chains
<1>5. c.stages[k] = "none"
  BY <1>1 DEF IsOpen
<1>6. \A e \in StageIds : b.stages[e] \in Answers \cup {"error"}
        <=> c.stages[e] \in Answers \cup {"error"} \/ e = k
  BY <1>4 DEF Answers
<1>7. Answered(c, k, a) = WalkFrom(b, k)
  BY DEF Answered
<1> HIDE DEF b
<1>8. AnsweredHold(b)
  <2> SUFFICES ASSUME NEW s \in StageIds, b.stages[s] \in Answers \cup {"error"}
               PROVE  Holds(b, s)
    BY DEF AnsweredHold
  <2>1. Holds(c, s)
    BY <1>1, <1>6 DEF AnsweredHold, IsOpen
  <2>2. \A e \in StageIds : c.stages[e] = "yes" => b.stages[e] = "yes"
    BY <1>4, <1>5
  <2>3. QED
    BY <2>1, <2>2, HoldsKept
<1>9. /\ \A e \in StageIds : e <= k => b.stages[e] \in Decided
      /\ \A e \in StageIds : e > k => b.stages[e] = "none"
  <2>1. StageIds \subseteq Nat
    BY StagesAssumption, FS_CardinalityType
  <2>2. Front(c, k)
    BY <1>1 DEF IsOpen
  <2>3. ASSUME NEW e \in StageIds, e <= k PROVE b.stages[e] \in Decided
    <3>1. e \in Nat /\ k \in Nat
      BY <2>1, <1>1
    <3>2. e < k \/ e = k
      BY <2>3, <3>1
    <3>3. QED
      BY <3>2, <2>2, <1>4 DEF Front, Decided
  <2>4. ASSUME NEW e \in StageIds, e > k PROVE b.stages[e] = "none"
    BY <2>1, <2>2, <2>4, <1>1, <1>4 DEF Front
  <2>5. QED
    BY <2>3, <2>4
<1>10. b.outcome = "open" /\ b.stop = 0
  BY <1>2
<1>11. QED
  BY <1>1, <1>3, <1>6, <1>7, <1>8, <1>9, <1>10, WalkShape

\* What ClassifySucceeds and ClassifyFails make of the awaited record.
Resolves(c, d) ==
    /\ Shape(d)
    /\ \A e \in StageIds : d.stages[e] \in Answers \cup {"error"}
         <=> c.stages[e] \in Answers \cup {"error"} \/ e = c.asking
    /\ d.asking \notin 1 .. c.asking

\* An answer resolves the awaited stage ...
LEMMA AnsweredResolves ==
    ASSUME NEW c, Shape(c), c.asking # 0, NEW a \in Answers
    PROVE  Resolves(c, Answered(c, c.asking, a))
<1>1. CASE a = "unsure"
  BY <1>1, StopShape DEF Answered, Resolves
<1>2. CASE a # "unsure"
  BY <1>2, AnswerShape DEF Resolves, Answers
<1>3. QED
  BY <1>1, <1>2

\* ... and so does an error, which stops the chain.
LEMMA ErrorResolves ==
    ASSUME NEW c, Shape(c), c.asking # 0
    PROVE  Resolves(c, StopAt(c, c.asking, "error", "error"))
BY StopShape DEF Resolves

\* A record that was not taken asks its first stage, which has no filter.
LEMMA FirstAsked ==
    /\ NewChain \in Chains
    /\ Shape(WalkFrom(NewChain, 0))
    /\ WalkFrom(NewChain, 0).asking = 1 /\ 1 \in StageIds
    /\ \A e \in StageIds : WalkFrom(NewChain, 0).stages[e] \notin Answers \cup {"error"}
<1>1. 1 \in StageIds
  BY StagesAssumption, FS_CardinalityType
<1>2. NewChain \in Chains
  BY DEF NewChain, Chains, StageStatus
<1>3. \A e \in StageIds : NewChain.stages[e] = "none"
  BY DEF NewChain
<1>4. AnsweredHold(NewChain)
  BY <1>3 DEF AnsweredHold, Answers
<1>5. StageIds \subseteq Nat \ {0}
  BY StagesAssumption, FS_CardinalityType
<1>6. NewChain.outcome = "open" /\ NewChain.stop = 0
  BY DEF NewChain
<1>7. /\ \A e \in StageIds : e <= 0 => NewChain.stages[e] \in Decided
      /\ \A e \in StageIds : e > 0 => NewChain.stages[e] = "none"
  BY <1>3, <1>5
<1>8. 0 \in StageIds \cup {0}
  OBVIOUS
<1>9. QED
  BY <1>1, <1>2, <1>3, <1>4, <1>6, <1>7, <1>8, WalkShape DEF Answers

(***************************************************************************)
(* Counting calls and ended workers.                                       *)
(***************************************************************************)

\* Records and stages are finite, hence the calls that were made.
LEMMA AskedFinite == IsFiniteSet(Positions \X StageIds) /\ IsFiniteSet(Asked)
<1>1. IsFiniteSet(Positions) /\ IsFiniteSet(StageIds)
  BY PoolAssumption, StagesAssumption, FS_Interval DEF Positions
<1>2. IsFiniteSet(Positions \X StageIds)
  BY <1>1, FS_Product
<1>3. Asked \in SUBSET (Positions \X StageIds)
  BY DEF Asked
<1>4. QED
  BY <1>2, <1>3, FS_Subset

\* One more stage of one record costs a call.
LEMMA OneMoreCall ==
    ASSUME NEW p \in Positions, NEW n \in StageIds, ~Marked(chain[p], n),
           \A q \in Positions, e \in StageIds :
             Marked(chain'[q], e) <=> Marked(chain[q], e) \/ (q = p /\ e = n)
    PROVE  Cardinality(Asked') = Cardinality(Asked) + 1
<1>1. Asked' = {x \in Positions \X StageIds : Marked(chain'[x[1]], x[2])}
  BY DEF Asked, Marked
<1>2. Asked' = Asked \cup {<<p, n>>}
  BY <1>1 DEF Asked
<1>3. <<p, n>> \notin Asked
  BY DEF Asked
<1>4. QED
  BY <1>2, <1>3, AskedFinite, FS_AddElement

\* A step that marks no stage makes no call.
LEMMA NoMoreCalls ==
    ASSUME \A q \in Positions, e \in StageIds :
             Marked(chain'[q], e) <=> Marked(chain[q], e)
    PROVE  Asked' = Asked
<1>1. Asked' = {x \in Positions \X StageIds : Marked(chain'[x[1]], x[2])}
  BY DEF Asked, Marked
<1>2. QED
  BY <1>1 DEF Asked

\* Workers that have ended can be counted.
LEMMA EndedFinite == IsFiniteSet(Ended) /\ Cardinality(Ended) \in Nat
<1>1. Ended \in SUBSET Workers
  BY DEF Ended
<1>2. QED
  BY <1>1, PoolAssumption, FS_Subset, FS_CardinalityType

\* A worker that ends adds one to the ended ones.
LEMMA OneMoreEnded ==
    ASSUME worker \in [Workers -> {"loop", "calling", "ended", "threw"}],
           NEW w \in Workers, worker[w] # "ended",
           worker' = [worker EXCEPT ![w] = "ended"]
    PROVE  Cardinality(Ended') = Cardinality(Ended) + 1
<1>1. Ended' = Ended \cup {w} /\ w \notin Ended
  BY DEF Ended
<1>2. QED
  BY <1>1, EndedFinite, FS_AddElement

\* The workers that ended stay the same when another goes on.
LEMMA SameEnded ==
    ASSUME worker \in [Workers -> {"loop", "calling", "ended", "threw"}],
           NEW w \in Workers, worker[w] # "ended",
           NEW s \in {"loop", "calling", "threw"},
           worker' = [worker EXCEPT ![w] = s]
    PROVE  Ended' = Ended
BY DEF Ended

(***************************************************************************)
(* The steps.                                                              *)
(***************************************************************************)

\* The invariant holds when the pool starts.
LEMMA InitIInv == Init => IInv
<1> SUFFICES ASSUME Init PROVE IInv
  OBVIOUS
<1>1. NewChain \in Chains
  BY FirstAsked
<1>2. Types
  <2>1. at \in [Workers -> 0 .. NumRecords] /\ chain \in [Positions -> Chains]
    BY <1>1, PoolAssumption DEF Init
  <2>2. worker \in [Workers -> {"loop", "calling", "ended", "threw"}]
    BY DEF Init
  <2>3. fatal \in BOOLEAN /\ aborted \in BOOLEAN /\ temporary \in BOOLEAN
    BY DEF Init
  <2>4. QED
    BY <2>1, <2>2, <2>3 DEF Init, Types
<1>3. NewChain.asking = 0 /\ \A e \in StageIds : ~Marked(NewChain, e)
  BY StagesAssumption, FS_CardinalityType DEF NewChain, Marked, Answers
<1>4. PoolInv
  BY <1>3 DEF Init, PoolInv, Holder, Positions
<1>5. NextBounded
  BY PoolAssumption, EndedFinite DEF Init, NextBounded
<1>6. FileInv
  BY DEF Init, FileInv
<1>7. Asked = {}
  BY <1>3 DEF Init, Asked
<1>8. QED
  BY <1>2, <1>4, <1>5, <1>6, <1>7, FS_EmptySet DEF Init, IInv

\* While a worker has not ended, nothing is staged and nothing is published.
LEMMA NotStaged ==
    ASSUME FileInv, NEW w \in Workers, worker[w] # "ended"
    PROVE  tool \in {"staging", "staged", "renaming"} \/ output # Previous => FALSE
BY DEF FileInv, AllDone

\* A worker takes the next position and asks its first stage, or finds none left.
LEMMA TakeRecordStep ==
    ASSUME IInv, NEW w \in Workers, TakeRecord(w) PROVE IInv'
<1> USE DEF IInv
<1>1. CASE next > NumRecords
  <2>1. /\ worker' = [worker EXCEPT ![w] = "ended"] /\ worker[w] = "loop"
        /\ next' = next + 1
        /\ UNCHANGED <<at, chain, calls, stored, succeeded, failures, fatal, aborted,
                       tool, temporary, output>>
    BY <1>1 DEF TakeRecord, fileVars
  <2>2. Types'
    BY <2>1 DEF Types
  <2>3. PoolInv'
    BY <1>1, <2>1, PoolAssumption DEF PoolInv, Holder, Positions, Types
  <2>4. NextBounded'
    <3>1. Cardinality(Ended') = Cardinality(Ended) + 1
      BY <2>1, OneMoreEnded DEF Types
    <3>2. QED
      BY <2>1, <3>1, PoolAssumption, EndedFinite DEF NextBounded, Types
  <2>5. FileInv'
    BY <2>1, NotStaged DEF FileInv
  <2>6. Asked' = Asked
    BY <2>1 DEF Asked, Marked
  <2>7. QED
    BY <2>1, <2>2, <2>3, <2>4, <2>5, <2>6
<1>2. CASE ~ (next > NumRecords)
  <2> DEFINE d == WalkFrom(NewChain, 0)
  <2>1. next \in Positions
    BY <1>2, PoolAssumption DEF Types, Positions
  <2>2. chain[next] = NewChain
    BY <2>1 DEF PoolInv, Types
  <2>3. /\ worker[w] = "loop" /\ worker' = [worker EXCEPT ![w] = "calling"]
        /\ at' = [at EXCEPT ![w] = next] /\ next' = next + 1
        /\ chain' = [chain EXCEPT ![next] = d] /\ calls' = calls + 1
        /\ UNCHANGED <<stored, succeeded, failures, fatal, aborted,
                       tool, temporary, output>>
    BY <1>2, <2>2 DEF TakeRecord, fileVars
  <2>4. Shape(d) /\ d \in Chains /\ d.asking = 1 /\ 1 \in StageIds
    BY FirstAsked DEF Shape
  <2>5. /\ \A e \in StageIds : ~Marked(NewChain, e)
        /\ \A e \in StageIds : Marked(d, e) <=> e = 1
    BY <2>4, FirstAsked, StagesAssumption, FS_CardinalityType DEF NewChain, Marked, Answers
  <2> HIDE DEF d
  <2>6. Types'
    BY <2>1, <2>3, <2>4 DEF Types, Positions
  <2>7. PoolInv'
    <3>1. \A p \in Positions : chain'[p] = IF p = next THEN d ELSE chain[p]
      BY <2>3 DEF Types
    <3>2. \A v \in Workers : at'[v] = (IF v = w THEN next ELSE at[v])
                          /\ worker'[v] = (IF v = w THEN "calling" ELSE worker[v])
      BY <2>3 DEF Types
    <3>3. \A p \in Positions : p < next' <=> p < next \/ p = next
      BY <2>3 DEF Types, Positions
    <3>4. /\ \A p \in Positions : p >= next' => chain'[p] = NewChain
          /\ \A p \in Positions : p < next' => Shape(chain'[p])
      BY <2>3, <2>4, <3>1, <3>3 DEF PoolInv, Types, Positions
    <3>5. \A p \in Positions : p < next' /\ chain'[p].asking # 0 =>
            \E v \in Workers : Holder(v)' /\ at'[v] = p
      <4> SUFFICES ASSUME NEW p \in Positions, p < next', chain'[p].asking # 0
                   PROVE  \E v \in Workers : Holder(v)' /\ at'[v] = p
        OBVIOUS
      <4>1. CASE p = next
        BY <4>1, <3>2 DEF Holder
      <4>2. CASE p # next
        <5>1. PICK v \in Workers : Holder(v) /\ at[v] = p
          BY <4>2, <3>1, <3>3 DEF PoolInv
        <5>2. v # w
          BY <5>1, <2>3 DEF Holder
        <5>3. QED
          BY <5>1, <5>2, <3>2 DEF Holder
      <4>3. QED
        BY <4>1, <4>2
    <3>6. \A v \in Workers : Holder(v)' => /\ at'[v] \in Positions /\ at'[v] < next'
                                            /\ chain'[at'[v]].asking # 0
      <4> SUFFICES ASSUME NEW v \in Workers, Holder(v)'
                   PROVE  /\ at'[v] \in Positions /\ at'[v] < next'
                          /\ chain'[at'[v]].asking # 0
        OBVIOUS
      <4>1. CASE v = w
        BY <4>1, <2>1, <2>4, <3>1, <3>2, <3>3
      <4>2. CASE v # w
        <5>1. Holder(v)
          BY <4>2, <3>2 DEF Holder
        <5>2. at[v] \in Positions /\ at[v] < next /\ chain[at[v]].asking # 0
          BY <5>1 DEF PoolInv
        <5>3. at'[v] = at[v] /\ at[v] # next
          BY <4>2, <3>2, <5>2 DEF Types, Positions
        <5>4. QED
          BY <5>2, <5>3, <3>1, <3>3
      <4>3. QED
        BY <4>1, <4>2
    <3>7. \A v, u \in Workers : Holder(v)' /\ Holder(u)' /\ at'[v] = at'[u] => v = u
      <4>1. \A v \in Workers : v # w /\ Holder(v)' => Holder(v) /\ at'[v] = at[v] /\ at[v] # next
        BY <3>2 DEF Holder, PoolInv, Types, Positions
      <4>2. QED
        BY <4>1, <3>2 DEF PoolInv
    <3>8. stored' = {p \in Positions : p < next' /\ chain'[p].asking = 0}
      <4>1. \A p \in Positions : p < next' /\ chain'[p].asking = 0
                                   <=> p < next /\ chain[p].asking = 0
        BY <2>4, <3>1, <3>3 DEF Types
      <4>2. QED
        BY <4>1, <2>3 DEF PoolInv
    <3>9. \A v \in Workers : worker'[v] = "ended" => fatal' \/ aborted' \/ next' > NumRecords
      BY <2>3, <3>2, PoolAssumption DEF PoolInv, Types
    <3>10. QED
      BY <3>4, <3>5, <3>6, <3>7, <3>8, <3>9 DEF PoolInv
  <2>8. NextBounded'
    <3>1. Ended' = Ended
      BY <2>3, SameEnded DEF Types
    <3>2. QED
      BY <3>1, <1>2, <2>3, PoolAssumption, EndedFinite DEF NextBounded, Types
  <2>9. FileInv'
    BY <2>3, NotStaged DEF FileInv
  <2>10. Cardinality(Asked') = Cardinality(Asked) + 1
    <3>1. \A q \in Positions : chain'[q] = IF q = next THEN d ELSE chain[q]
      BY <2>3 DEF Types
    <3>2. \A q \in Positions, e \in StageIds :
            Marked(chain'[q], e) <=> Marked(chain[q], e) \/ (q = next /\ e = 1)
      BY <2>2, <2>5, <3>1
    <3>3. QED
      BY <2>1, <2>2, <2>4, <2>5, <3>2, OneMoreCall
  <2>11. QED
    BY <2>3, <2>6, <2>7, <2>8, <2>9, <2>10
<1>3. QED
  BY <1>1, <1>2

\* A worker that finds the run fatal or aborted ends.
LEMMA StopLoopStep ==
    ASSUME IInv, NEW w \in Workers, StopLoop(w) PROVE IInv'
<1> USE DEF IInv
<1>1. /\ worker[w] = "loop" /\ worker' = [worker EXCEPT ![w] = "ended"]
      /\ fatal \/ aborted
      /\ UNCHANGED <<at, next, chain, stored, succeeded, failures, calls, fatal,
                     aborted, tool, temporary, output>>
  BY DEF StopLoop, fileVars
<1>2. Types'
  BY <1>1 DEF Types
<1>3. PoolInv'
  BY <1>1 DEF PoolInv, Holder, Types
<1>4. NextBounded'
  <2>1. Cardinality(Ended') = Cardinality(Ended) + 1
    BY <1>1, OneMoreEnded DEF Types
  <2>2. QED
    BY <1>1, <2>1, PoolAssumption, EndedFinite DEF NextBounded, Types
<1>5. FileInv'
  BY <1>1, NotStaged DEF FileInv
<1>6. Asked' = Asked
  BY <1>1 DEF Asked, Marked
<1>7. QED
  BY <1>1, <1>2, <1>3, <1>4, <1>5, <1>6

\* The awaited stage of w's record is resolved: the record goes on to another
\* stage, or is stored and w goes back to the loop.
LEMMA ProceedPool ==
    ASSUME Types, PoolInv, NEW w \in Workers, worker[w] = "calling",
           NEW p \in Positions, p = at[w], NEW d, Resolves(chain[p], d), Proceed(w, d),
           fatal => fatal', UNCHANGED <<at, next, aborted>>
    PROVE  PoolInv'
<1>1. Shape(d) /\ p < next /\ chain[p].asking # 0
  BY DEF Resolves, PoolInv, Holder
<1>2. \A q \in Positions : chain'[q] = IF q = p THEN d ELSE chain[q]
  BY DEF Proceed, Types
<1>3. /\ d.asking # 0 => UNCHANGED <<worker, stored>>
      /\ d.asking = 0 => stored' = stored \cup {p} /\ worker' = [worker EXCEPT ![w] = "loop"]
  BY DEF Proceed
<1>4. \A v \in Workers : v # w => (Holder(v)' <=> Holder(v))
                                  /\ (worker'[v] = "ended" <=> worker[v] = "ended")
  BY <1>3 DEF Holder, Types
<1>5. (Holder(w)' <=> d.asking # 0) /\ Holder(w) /\ worker'[w] # "ended"
  BY <1>3 DEF Holder, Types
<1>6. \A v \in Workers : Holder(v) /\ at[v] = p => v = w
  BY <1>5 DEF PoolInv
<1>7. /\ \A q \in Positions : q >= next' => chain'[q] = NewChain
      /\ \A q \in Positions : q < next' => Shape(chain'[q])
  BY <1>1, <1>2 DEF PoolInv, Types, Positions
<1>8. \A q \in Positions : q < next' /\ chain'[q].asking # 0 =>
        \E v \in Workers : Holder(v)' /\ at'[v] = q
  <2> SUFFICES ASSUME NEW q \in Positions, q < next', chain'[q].asking # 0
               PROVE  \E v \in Workers : Holder(v)' /\ at'[v] = q
    OBVIOUS
  <2>1. CASE q = p
    BY <2>1, <1>2, <1>5
  <2>2. CASE q # p
    <3>1. PICK v \in Workers : Holder(v) /\ at[v] = q
      BY <2>2, <1>2 DEF PoolInv
    <3>2. QED
      BY <3>1, <2>2, <1>4
  <2>3. QED
    BY <2>1, <2>2
<1>9. \A v \in Workers : Holder(v)' => /\ at'[v] \in Positions /\ at'[v] < next'
                                        /\ chain'[at'[v]].asking # 0
  <2> SUFFICES ASSUME NEW v \in Workers, Holder(v)'
               PROVE  /\ at'[v] \in Positions /\ at'[v] < next'
                      /\ chain'[at'[v]].asking # 0
    OBVIOUS
  <2>1. CASE v = w
    BY <2>1, <1>1, <1>2, <1>5
  <2>2. CASE v # w
    <3>1. Holder(v)
      BY <2>2, <1>4
    <3>2. at[v] \in Positions /\ at[v] < next /\ chain[at[v]].asking # 0 /\ at[v] # p
      BY <2>2, <3>1, <1>6 DEF PoolInv
    <3>3. QED
      BY <3>2, <1>2
  <2>3. QED
    BY <2>1, <2>2
<1>10. \A v, u \in Workers : Holder(v)' /\ Holder(u)' /\ at'[v] = at'[u] => v = u
  <2>1. \A v \in Workers : Holder(v)' => Holder(v)
    BY <1>4, <1>5
  <2>2. QED
    BY <2>1 DEF PoolInv
<1>11. stored' = {q \in Positions : q < next' /\ chain'[q].asking = 0}
  <2>1. stored = {q \in Positions : q < next /\ chain[q].asking = 0}
    BY DEF PoolInv
  <2>2. CASE d.asking = 0
    BY <2>1, <2>2, <1>1, <1>2, <1>3
  <2>3. CASE d.asking # 0
    BY <2>1, <2>3, <1>1, <1>2, <1>3
  <2>4. QED
    BY <2>2, <2>3
<1>12. \A v \in Workers : worker'[v] = "ended" => fatal' \/ aborted' \/ next' > NumRecords
  BY <1>4, <1>5 DEF PoolInv
<1>13. QED
  BY <1>7, <1>8, <1>9, <1>10, <1>11, <1>12 DEF PoolInv

\* Going on with a record is a call exactly if another stage is asked.
LEMMA ProceedCalls ==
    ASSUME Types, calls = Cardinality(Asked), NEW w \in Workers,
           NEW p \in Positions, p = at[w], NEW d, chain[p].asking \in StageIds,
           Resolves(chain[p], d), Proceed(w, d)
    PROVE  calls' = Cardinality(Asked')
<1>1. Shape(d) /\ d.asking \notin 1 .. chain[p].asking
  BY DEF Resolves
<1>2. \A q \in Positions : chain'[q] = IF q = p THEN d ELSE chain[q]
  BY DEF Proceed, Types
<1>3. CASE d.asking # 0
  <2>1. PICK n \in StageIds : n = d.asking /\ d.stages[n] = "none"
    BY <1>1, <1>3 DEF Shape, IsOpen, IsClosed
  <2>2. n # chain[p].asking
    BY <1>1, <2>1, StagesAssumption, FS_CardinalityType
  <2>3. ~Marked(chain[p], n)
    BY <2>1, <2>2 DEF Marked, Resolves, Answers
  <2>4. \A e \in StageIds : Marked(d, e) <=> Marked(chain[p], e) \/ e = n
    BY <2>1 DEF Marked, Resolves
  <2>5. \A q \in Positions, e \in StageIds :
          Marked(chain'[q], e) <=> Marked(chain[q], e) \/ (q = p /\ e = n)
    BY <1>2, <2>4
  <2>6. Cardinality(Asked') = Cardinality(Asked) + 1
    BY <2>3, <2>5, OneMoreCall
  <2>7. QED
    BY <2>6, <1>3 DEF Proceed
<1>4. CASE d.asking = 0
  <2>1. \A e \in StageIds : Marked(d, e) <=> Marked(chain[p], e)
    BY <1>4, StagesAssumption, FS_CardinalityType DEF Marked, Resolves
  <2>2. Asked' = Asked
    BY <1>2, <2>1, NoMoreCalls
  <2>3. QED
    BY <2>2, <1>4 DEF Proceed
<1>5. QED
  BY <1>3, <1>4

\* All parts together, for an answer and for an error alike.
LEMMA ProceedStep ==
    ASSUME IInv, NEW w \in Workers, worker[w] = "calling",
           NEW d, Resolves(chain[at[w]], d), Proceed(w, d),
           succeeded' \in Nat, failures' \in Nat, fatal' \in BOOLEAN, fatal => fatal',
           UNCHANGED <<at, next, aborted, tool, temporary, output>>
    PROVE  IInv'
<1> USE DEF IInv
<1>1. PICK p \in Positions : p = at[w] /\ p < next /\ chain[p].asking # 0 /\ Shape(chain[p])
  BY DEF PoolInv, Holder
<1>2. Shape(d) /\ d \in Chains
  BY DEF Resolves, Shape
<1>3. Types'
  <2>1. chain' = [chain EXCEPT ![p] = d] /\ (calls' = calls \/ calls' = calls + 1)
        /\ (stored' = stored \/ stored' = stored \cup {p})
    BY <1>1 DEF Proceed
  <2>2. worker' \in [Workers -> {"loop", "calling", "ended", "threw"}]
    BY DEF Proceed, Types
  <2>3. chain' \in [Positions -> Chains]
    BY <1>2, <2>1 DEF Types
  <2>4. QED
    BY <2>1, <2>2, <2>3 DEF Types
<1>4. PoolInv'
  BY <1>1, ProceedPool
<1>5. NextBounded'
  <2>1. CASE d.asking # 0
    BY <2>1 DEF Proceed, NextBounded, Ended
  <2>2. CASE d.asking = 0
    <3>1. Ended' = Ended
      BY <2>2, SameEnded DEF Proceed, Types
    <3>2. QED
      BY <3>1 DEF NextBounded
  <2>3. QED
    BY <2>1, <2>2
<1>6. FileInv'
  BY NotStaged DEF FileInv
<1>7. calls' = Cardinality(Asked')
  <2>1. chain[p].asking \in StageIds
    BY <1>1 DEF Shape, IsOpen, IsClosed
  <2>2. QED
    BY <1>1, <2>1, ProceedCalls
<1>8. QED
  BY <1>3, <1>4, <1>5, <1>6, <1>7

\* The three ways a call comes back: an answer,
LEMMA ClassifySucceedsStep ==
    ASSUME IInv, NEW w \in Workers, ClassifySucceeds(w) PROVE IInv'
<1>1. worker[w] = "calling" /\ Shape(chain[at[w]]) /\ chain[at[w]].asking # 0
  BY DEF ClassifySucceeds, IInv, PoolInv, Holder
<1>2. PICK a \in Answers : Proceed(w, Answered(chain[at[w]], chain[at[w]].asking, a))
  BY DEF ClassifySucceeds
<1>3. Resolves(chain[at[w]], Answered(chain[at[w]], chain[at[w]].asking, a))
  BY <1>1, AnsweredResolves
<1>4. succeeded' \in Nat /\ failures' \in Nat /\ fatal' \in BOOLEAN /\ (fatal => fatal')
  BY DEF ClassifySucceeds, IInv, Types
<1>5. UNCHANGED <<at, next, aborted, tool, temporary, output>>
  BY DEF ClassifySucceeds, fileVars
<1>6. QED
  BY <1>1, <1>2, <1>3, <1>4, <1>5, ProceedStep

\* an error that the record keeps,
LEMMA ClassifyFailsStep ==
    ASSUME IInv, NEW w \in Workers, ClassifyFails(w) PROVE IInv'
<1>1. worker[w] = "calling" /\ Shape(chain[at[w]]) /\ chain[at[w]].asking # 0
  BY DEF ClassifyFails, IInv, PoolInv, Holder
<1>2. Proceed(w, StopAt(chain[at[w]], chain[at[w]].asking, "error", "error"))
  BY DEF ClassifyFails
<1>3. Resolves(chain[at[w]], StopAt(chain[at[w]], chain[at[w]].asking, "error", "error"))
  BY <1>1, ErrorResolves
<1>4. succeeded' \in Nat /\ failures' \in Nat /\ fatal' \in BOOLEAN /\ (fatal => fatal')
  BY DEF ClassifyFails, IInv, Types
<1>5. UNCHANGED <<at, next, aborted, tool, temporary, output>>
  BY DEF ClassifyFails, fileVars
<1>6. QED
  BY <1>1, <1>2, <1>3, <1>4, <1>5, ProceedStep

\* and an exception that ends the worker and the tool call.
LEMMA WorkerThrowsStep ==
    ASSUME IInv, NEW w \in Workers, WorkerThrows(w) PROVE IInv'
<1> USE DEF IInv
<1>1. /\ worker[w] = "calling" /\ worker' = [worker EXCEPT ![w] = "threw"]
      /\ tool' = IF tool = "deciding" THEN "failed" ELSE tool
      /\ UNCHANGED <<at, next, chain, stored, succeeded, failures, calls, fatal,
                     aborted, temporary, output>>
  BY DEF WorkerThrows, fileVars
<1>2. Types'
  BY <1>1 DEF Types
<1>3. PoolInv'
  <2>1. \A v \in Workers : /\ Holder(v)' <=> Holder(v)
                           /\ worker'[v] = "ended" <=> worker[v] = "ended"
    BY <1>1 DEF Holder, Types
  <2>2. QED
    BY <1>1, <2>1 DEF PoolInv
<1>4. NextBounded'
  <2>1. Ended' = Ended
    BY <1>1, SameEnded DEF Types
  <2>2. QED
    BY <1>1, <2>1 DEF NextBounded
<1>5. FileInv'
  BY <1>1, NotStaged DEF FileInv
<1>6. Asked' = Asked
  BY <1>1 DEF Asked, Marked
<1>7. QED
  BY <1>1, <1>2, <1>3, <1>4, <1>5, <1>6

\* The pool is left alone: its part of the invariant holds as before.
LEMMA PoolKept ==
    ASSUME Types, PoolInv, NextBounded, calls = Cardinality(Asked),
           UNCHANGED poolVars, aborted => aborted'
    PROVE  PoolInv' /\ NextBounded' /\ calls' = Cardinality(Asked') /\ (AllDone' <=> AllDone)
<1>1. UNCHANGED <<worker, at, next, chain, stored, calls, fatal>>
  BY DEF poolVars
<1>2. PoolInv'
  BY <1>1 DEF PoolInv, Holder
<1>3. Asked' = Asked /\ Ended' = Ended
  BY <1>1 DEF Asked, Marked, Ended
<1>4. QED
  BY <1>1, <1>2, <1>3 DEF NextBounded, AllDone

\* When every worker has ended, neither on an abort nor on a fatal failure, one
\* of them went past the end of the list: every position is stored.
LEMMA AllStored ==
    ASSUME Types, PoolInv, AllDone, ~aborted, ~fatal
    PROVE  stored = Positions
<1>1. Workers # {}
  BY PoolAssumption, FS_EmptySet
<1>2. next > NumRecords
  BY <1>1 DEF AllDone, PoolInv
<1>3. \A p \in Positions : p < next
  BY <1>2, PoolAssumption DEF Positions, Types
<1>4. \A p \in Positions : chain[p].asking = 0
  BY <1>3 DEF AllDone, PoolInv, Holder
<1>5. QED
  BY <1>3, <1>4 DEF PoolInv

\* What execute() does once the workers are joined, and the abort signal.
LEMMA ToolSteps ==
    ASSUME IInv, Abort \/ Joined \/ StagingFails \/ Publish PROVE IInv'
<1> USE DEF IInv
<1>1. UNCHANGED poolVars /\ (aborted => aborted') /\ aborted' \in BOOLEAN
  BY DEF Abort, Joined, StagingFails, Publish, WriteStaged, PublishFails, Commit, Rename,
         CleanUp, Types
<1>2. PoolInv' /\ NextBounded' /\ calls' = Cardinality(Asked') /\ (AllDone' <=> AllDone)
  BY <1>1, PoolKept
<1>3. UNCHANGED <<worker, at, next, chain, stored, succeeded, failures, calls, fatal>>
  BY <1>1 DEF poolVars
<1>4. Positions # {}
  BY PoolAssumption DEF Positions
<1> USE DEF fileVars
<1>5. CASE Abort
  BY <1>2, <1>3, <1>5 DEF Abort, Types, FileInv
<1>6. CASE Joined
  <2>1. Types'
    BY <1>3, <1>6 DEF Joined, Types
  <2>2. tool' = "staging" => stored' = Positions /\ AllDone'
    BY <1>2, <1>3, <1>6, AllStored DEF Joined
  <2>3. tool = "deciding" /\ tool' \in {"staging", "failed"} /\ output' = output
        /\ (tool' = "failed" => temporary' = temporary)
    BY <1>6 DEF Joined
  <2>4. FileInv'
    BY <2>2, <2>3 DEF FileInv
  <2>5. QED
    BY <1>2, <2>1, <2>4
<1>7. CASE StagingFails
  BY <1>2, <1>3, <1>7 DEF StagingFails, Types, FileInv
<1>8. CASE WriteStaged
  BY <1>2, <1>3, <1>8 DEF WriteStaged, Types, FileInv
<1>9. CASE PublishFails
  BY <1>2, <1>3, <1>9 DEF PublishFails, Types, FileInv
<1>10. CASE Commit
  BY <1>2, <1>3, <1>10 DEF Commit, Types, FileInv
<1>11. CASE Rename
  BY <1>2, <1>3, <1>4, <1>11 DEF Rename, Types, FileInv, Previous
<1>12. CASE CleanUp
  BY <1>2, <1>3, <1>12 DEF CleanUp, Types, FileInv
<1>13. QED
  BY <1>5, <1>6, <1>7, <1>8, <1>9, <1>10, <1>11, <1>12 DEF Publish

\* Every step keeps the invariant.
LEMMA NextIInv == IInv /\ [Next]_vars => IInv'
<1>1. ASSUME IInv, UNCHANGED vars PROVE IInv'
  <2>1. UNCHANGED poolVars /\ UNCHANGED <<aborted, tool, temporary, output>>
    BY <1>1 DEF vars, fileVars
  <2>2. PoolInv' /\ NextBounded' /\ calls' = Cardinality(Asked') /\ (AllDone' <=> AllDone)
    BY <1>1, <2>1, PoolKept DEF IInv
  <2>3. QED
    BY <1>1, <2>1, <2>2 DEF IInv, Types, FileInv, poolVars
<1>2. QED
  BY <1>1, TakeRecordStep, StopLoopStep, ClassifySucceedsStep, ClassifyFailsStep,
     WorkerThrowsStep, ToolSteps DEF Next

(***************************************************************************)
(* The theorems.                                                           *)
(***************************************************************************)

\* The strengthening holds in every behaviour.
THEOREM Inductive == Spec => []IInv
BY InitIInv, NextIInv, PTL DEF Spec

\* Every variable keeps its type; the counter next of worker() passes the end of
\* the list at most once per worker.
THEOREM TypeCorrect == Spec => []TypeOK
<1>1. IInv => TypeOK
  <2> SUFFICES ASSUME IInv PROVE TypeOK
    OBVIOUS
  <2>1. Ended \in SUBSET Workers
    BY DEF Ended
  <2>2. Cardinality(Ended) <= Cardinality(Workers)
    BY <2>1, PoolAssumption, FS_Subset
  <2>3. next \in 1 .. NumRecords + Cardinality(Workers) + 1
    BY <2>2, EndedFinite, PoolAssumption DEF IInv, Types, NextBounded
  <2>4. output \in {{}} \cup SUBSET Positions
    BY DEF IInv, Types, Previous
  <2>5. QED
    BY <2>3, <2>4 DEF IInv, Types, TypeOK, Chains
<1>2. QED
  BY <1>1, Inductive, PTL

\* However the workers interleave, fail, throw or are aborted, and wherever
\* publishing fails: the results file is the previous one or holds an outcome for
\* every selected record, and no temporary directory is left (execute of index.ts).
THEOREM PublishesWhole == Spec => []PublicationAtomic
<1>1. IInv => PublicationAtomic
  <2> SUFFICES ASSUME IInv PROVE PublicationAtomic
    OBVIOUS
  <2>1. ASSUME output # Previous, NEW p \in Positions PROVE chain[p].outcome # "open"
    <3>1. p < next /\ chain[p].asking = 0 /\ Shape(chain[p])
      BY <2>1 DEF IInv, FileInv, PoolInv
    <3>2. 0 \notin StageIds
      BY StagesAssumption, FS_CardinalityType
    <3>3. QED
      BY <3>1, <3>2 DEF Shape, IsOpen, IsClosed
  <2>2. PublishedComplete
    BY <2>1 DEF IInv, FileInv, PublishedComplete
  <2>3. PreviousIntact
    BY DEF IInv, FileInv, PreviousIntact
  <2>4. QED
    BY <2>2, <2>3 DEF PublicationAtomic
<1>2. QED
  BY <1>1, Inductive, PTL

\* What an abort that came in time leads to, for good.
TooLateToPublish == aborted /\ output = Previous /\ tool # "renaming"

\* A caller who aborts before the last check keeps the previous results file for
\* ever, whatever was already decided or staged (throwIfAborted before rename).
THEOREM CancellationKeeps == Spec => CancelledKeepsPrevious
<1>1. IInv /\ aborted /\ tool \in {"deciding", "staging", "staged"} => TooLateToPublish
  BY DEF IInv, FileInv, TooLateToPublish
<1>2. TooLateToPublish /\ [Next]_vars => TooLateToPublish'
  <2> SUFFICES ASSUME TooLateToPublish, [Next]_vars PROVE TooLateToPublish'
    OBVIOUS
  <2> USE DEF TooLateToPublish, fileVars
  <2>1. CASE UNCHANGED vars
    BY <2>1 DEF vars
  <2>2. CASE Abort \/ Joined \/ StagingFails \/ Publish
    BY <2>2 DEF Abort, Joined, StagingFails, Publish, WriteStaged, PublishFails, Commit,
                Rename, CleanUp
  <2>3. ASSUME NEW w \in Workers,
               \/ TakeRecord(w) \/ StopLoop(w)
               \/ ClassifySucceeds(w) \/ ClassifyFails(w) \/ WorkerThrows(w)
        PROVE  TooLateToPublish'
    BY <2>3 DEF TakeRecord, StopLoop, ClassifySucceeds, ClassifyFails, WorkerThrows
  <2>4. QED
    BY <2>1, <2>2, <2>3 DEF Next
<1>3. TooLateToPublish => output = Previous
  BY DEF TooLateToPublish
<1>4. QED
  BY <1>1, <1>2, <1>3, Inductive, PTL DEF Spec, CancelledKeepsPrevious

\* For any stages that validateStages accepts, a stage is asked only after every
\* stage its filter names answered yes, a complete record has decided every stage,
\* and nothing is marked behind the stage that stopped one (decideRecord).
THEOREM ChainsAreSound == Spec => []ChainSound
<1>1. IInv => ChainSound
  <2> SUFFICES ASSUME IInv, NEW p \in Positions
               PROVE  LET c == chain[p] IN
                      /\ \A s \in StageIds :
                           c.stages[s] \in Answers \cup {"error"} \/ c.asking = s => Holds(c, s)
                      /\ c.outcome = "complete" =>
                           \A s \in StageIds : c.stages[s] \in {"yes", "no", "skipped"}
                      /\ c.outcome \in {"filtered", "abstained", "error"} =>
                           \A s \in StageIds : s > c.stop => c.stages[s] = "none"
    BY DEF ChainSound, Holds
  <2>1. 0 \notin StageIds
    BY StagesAssumption, FS_CardinalityType
  <2>2. CASE p < next
    <3>1. Shape(chain[p])
      BY <2>2 DEF IInv, PoolInv
    <3>2. QED
      BY <2>1, <3>1 DEF Shape, AnsweredHold, IsOpen, IsClosed, Front, Decided
  <2>3. CASE ~ (p < next)
    <3>1. chain[p] = NewChain
      BY <2>3 DEF IInv, PoolInv, Types, Positions
    <3>2. /\ chain[p].outcome = "open" /\ chain[p].asking = 0
          /\ \A s \in StageIds : chain[p].stages[s] = "none"
      BY <3>1 DEF NewChain
    <3>3. QED
      BY <2>1, <3>2 DEF Answers
  <2>4. QED
    BY <2>2, <2>3
<1>2. QED
  BY <1>1, Inductive, PTL

\* Of a stored record, a stage was reached, skipped, the one that filtered it, or
\* behind the one that stopped it: exactly one of them.
LEMMA OneColumn ==
    ASSUME IInv, NEW p \in stored, NEW s \in StageIds
    PROVE  LET reached  == chain[p].stages[s] \in Answers \cup {"error"}
               skipped  == chain[p].stages[s] = "skipped"
               filtered == chain[p].stop = s /\ chain[p].outcome \in {"filtered"}
               earlier  == chain[p].stop \in 1 .. s - 1
           IN  /\ reached \/ skipped \/ filtered \/ earlier
               /\ ~ (reached /\ (skipped \/ filtered \/ earlier))
               /\ ~ (skipped /\ (filtered \/ earlier))
               /\ ~ (filtered /\ earlier)
<1>1. Shape(chain[p]) /\ chain[p].asking = 0
  BY DEF IInv, PoolInv
<1>2. StageIds \subseteq Nat \ {0}
  BY StagesAssumption, FS_CardinalityType
<1>3. IsClosed(chain[p]) /\ chain[p].stages[s] \in StageStatus /\ chain[p].stop \in Nat
  <2>1. IsClosed(chain[p])
    BY <1>1, <1>2 DEF Shape, IsOpen
  <2>2. chain[p] \in Chains
    BY <1>1 DEF Shape
  <2>3. chain[p].stages[s] \in StageStatus /\ chain[p].stop \in StageIds \cup {0}
    BY <2>2 DEF Chains
  <2>4. \A k \in StageIds \cup {0} : k \in Nat
    BY <1>2
  <2>5. chain[p].stop \in Nat
    BY <2>3, <2>4
  <2>6. QED
    BY <2>1, <2>3, <2>5
<1>4. CASE chain[p].stop = 0
  BY <1>2, <1>3, <1>4 DEF IsClosed, Decided, Answers
<1>5. CASE chain[p].stop # 0
  <2>1. /\ chain[p].outcome \in {"filtered", "abstained", "error"}
        /\ chain[p].stop \in StageIds /\ Front(chain[p], chain[p].stop)
        /\ IF chain[p].outcome = "filtered" THEN chain[p].stages[chain[p].stop] = "none"
           ELSE chain[p].stages[chain[p].stop] \in {"unsure", "error"}
    BY <1>3, <1>5 DEF IsClosed
  <2>2. CASE s < chain[p].stop
    BY <1>2, <1>3, <2>1, <2>2 DEF Front, Decided, Answers
  <2>3. CASE s = chain[p].stop
    BY <1>2, <1>3, <2>1, <2>3 DEF Answers
  <2>4. CASE s > chain[p].stop
    BY <1>2, <1>3, <1>5, <2>1, <2>4 DEF Front, Answers
  <2>5. QED
    BY <1>2, <1>3, <2>2, <2>3, <2>4
<1>6. QED
  BY <1>4, <1>5

\* Disjoint finite sets are counted apart.
LEMMA TwoParts ==
    ASSUME NEW A, NEW B, IsFiniteSet(A), IsFiniteSet(B), A \cap B = {}
    PROVE  IsFiniteSet(A \cup B) /\ Cardinality(A \cup B) = Cardinality(A) + Cardinality(B)
<1>1. IsFiniteSet(A \cup B)
      /\ Cardinality(A \cup B) = Cardinality(A) + Cardinality(B) - Cardinality(A \cap B)
  BY FS_Union
<1>2. Cardinality(A \cap B) = 0
  BY FS_EmptySet
<1>3. Cardinality(A) \in Nat /\ Cardinality(B) \in Nat
  BY FS_CardinalityType
<1>4. QED
  BY <1>1, <1>2, <1>3

\* Four disjoint sets that cover a finite one count its elements.
LEMMA FourParts ==
    ASSUME NEW S, IsFiniteSet(S), NEW A, NEW B, NEW C, NEW D,
           S = A \cup B \cup C \cup D,
           A \cap (B \cup C \cup D) = {}, B \cap (C \cup D) = {}, C \cap D = {}
    PROVE  Cardinality(A) + Cardinality(B) + Cardinality(C) + Cardinality(D) = Cardinality(S)
<1>1. IsFiniteSet(A) /\ IsFiniteSet(B) /\ IsFiniteSet(C) /\ IsFiniteSet(D)
  <2>1. A \in SUBSET S /\ B \in SUBSET S /\ C \in SUBSET S /\ D \in SUBSET S
    OBVIOUS
  <2>2. QED
    BY <2>1, FS_Subset
<1>2. IsFiniteSet(C \cup D) /\ Cardinality(C \cup D) = Cardinality(C) + Cardinality(D)
  BY <1>1, TwoParts
<1>3. /\ IsFiniteSet(B \cup (C \cup D))
      /\ Cardinality(B \cup (C \cup D)) = Cardinality(B) + Cardinality(C \cup D)
  BY <1>1, <1>2, TwoParts
<1>4. Cardinality(A \cup (B \cup (C \cup D)))
        = Cardinality(A) + Cardinality(B \cup (C \cup D))
  <2>1. A \cap (B \cup (C \cup D)) = {}
    OBVIOUS
  <2>2. QED
    BY <2>1, <1>1, <1>3, TwoParts
<1>5. S = A \cup (B \cup (C \cup D))
  OBVIOUS
<1>6. /\ Cardinality(A) \in Nat /\ Cardinality(B) \in Nat
      /\ Cardinality(C) \in Nat /\ Cardinality(D) \in Nat
  BY <1>1, FS_CardinalityType
<1>7. Cardinality(S) = Cardinality(A) + (Cardinality(B) + (Cardinality(C) + Cardinality(D)))
  BY <1>2, <1>3, <1>4, <1>5
<1>8. QED
  BY <1>6, <1>7

\* However calls fail, records are filtered and the run ends: classifier_calls
\* counts the calls made, and for every stage the columns of the summary add up
\* to the stored records (classify, summarizeChain).
THEOREM NumbersAddUp == Spec => []NumbersAgree
<1>1. IInv => CallsAccounted
  BY DEF IInv, CallsAccounted, Asked, Marked
<1>2. IInv => SummaryAddsUp
  <2> SUFFICES ASSUME IInv, NEW s \in StageIds
               PROVE  Reached(s) + Skipped(s) + StoppedAt(s, {"filtered"})
                        + Cardinality({p \in stored : chain[p].stop \in 1 .. s - 1})
                      = Cardinality(stored)
    BY DEF SummaryAddsUp
  <2> DEFINE A == {p \in stored : chain[p].stages[s] \in Answers \cup {"error"}}
             B == {p \in stored : chain[p].stages[s] = "skipped"}
             C == {p \in stored : chain[p].stop = s /\ chain[p].outcome \in {"filtered"}}
             D == {p \in stored : chain[p].stop \in 1 .. s - 1}
  <2>1. IsFiniteSet(stored)
    <3>1. stored \in SUBSET Positions /\ IsFiniteSet(Positions)
      BY PoolAssumption, FS_Interval DEF IInv, Types, Positions
    <3>2. QED
      BY <3>1, FS_Subset
  <2>2. /\ stored = A \cup B \cup C \cup D
        /\ A \cap (B \cup C \cup D) = {} /\ B \cap (C \cup D) = {} /\ C \cap D = {}
    BY OneColumn
  <2> HIDE DEF A, B, C, D
  <2>3. Cardinality(A) + Cardinality(B) + Cardinality(C) + Cardinality(D)
          = Cardinality(stored)
    BY <2>1, <2>2, FourParts
  <2>4. Reached(s) = Cardinality(A) /\ Skipped(s) = Cardinality(B)
        /\ StoppedAt(s, {"filtered"}) = Cardinality(C)
    BY DEF Reached, Skipped, StoppedAt, A, B, C
  <2>5. QED
    BY <2>3, <2>4 DEF D
<1>3. QED
  BY <1>1, <1>2, Inductive, PTL DEF NumbersAgree
=============================================================================
