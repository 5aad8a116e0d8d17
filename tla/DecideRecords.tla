------------------------------ MODULE DecideRecords ------------------------------
(***************************************************************************)
(* The decide_records tool of the Pi extension support/pi/extensions/      *)
(* decide: execute() of index.ts runs a pool of workers over the selected  *)
(* records, each record flows through the stages of chain.ts, and the      *)
(* results file is published by a rename.                                  *)
(*                                                                         *)
(* JavaScript runs one worker at a time between awaits; the classifier     *)
(* answers in any order.  An answer is abstracted to what the stages tell  *)
(* apart: "yes" satisfies a later stage's filter, "no" does not, "unsure"  *)
(* is an answer that the stage's abstain rule stops.                       *)
(***************************************************************************)
EXTENDS Naturals, FiniteSets, FiniteSetsExt

CONSTANTS
    NumRecords,     \* selected.length
    Workers,        \* the worker() promises, min(concurrency, selected.length)
    Stages,         \* the validated stages, a sequence of stage specifications
    FailFastAfter   \* FAIL_FAST_AFTER

Positions == 1 .. NumRecords
StageIds  == DOMAIN Stages

ASSUME PoolAssumption ==
    /\ NumRecords \in Nat \ {0}
    /\ IsFiniteSet(Workers) /\ Cardinality(Workers) \in 1 .. NumRecords
    /\ FailFastAfter \in Nat \ {0}

\* What validateStages accepts: filters only look back, the first has none.
ASSUME StagesAssumption ==
    /\ IsFiniteSet(StageIds) /\ StageIds # {}
    /\ StageIds = 1 .. Cardinality(StageIds)
    /\ \A s \in StageIds :
         /\ Stages[s].when \subseteq 1 .. s - 1
         /\ Stages[s].otherwise \in {"stop", "continue"}
         /\ Stages[s].abstain \in BOOLEAN

Answers == {"yes", "no", "unsure"}

VARIABLES
    worker,     \* loop, calling (awaits classify), ended, threw
    at,         \* the position a worker has taken, 0 before the first
    next,       \* next position to hand out
    chain,      \* decideRecord's ChainResult of every record taken
    stored,     \* positions whose result was assigned to results[]
    succeeded, failures, calls,   \* failures is consecutiveFailures
    fatal,      \* is `fatal` set?
    aborted,    \* signal.aborted
    tool,       \* execute(): deciding, staging, staged, renaming, cleaning, returned, failed
    temporary,  \* does the mkdtemp directory exist?
    output      \* the results file: "previous", or the set of positions written

poolVars  == <<worker, at, next, chain, stored, succeeded, failures, calls, fatal>>
fileVars  == <<temporary, output>>
vars == <<poolVars, aborted, tool, fileVars>>

StageStatus == {"none", "skipped", "error"} \cup Answers
Outcomes    == {"complete", "filtered", "abstained", "error"}

TypeOK ==
    /\ worker \in [Workers -> {"loop", "calling", "ended", "threw"}]
    /\ at \in [Workers -> 0 .. NumRecords]
    /\ next \in 1 .. NumRecords + Cardinality(Workers) + 1
    /\ \A p \in Positions :
         /\ chain[p].stages \in [StageIds -> StageStatus]
         /\ chain[p].outcome \in Outcomes \cup {"open"}
         /\ chain[p].stop \in StageIds \cup {0}
         /\ chain[p].asking \in StageIds \cup {0}
    /\ stored \subseteq Positions
    /\ succeeded \in Nat /\ failures \in Nat /\ calls \in Nat
    /\ fatal \in BOOLEAN /\ aborted \in BOOLEAN /\ temporary \in BOOLEAN
    /\ tool \in {"deciding", "staging", "staged", "renaming", "cleaning",
                "returned", "failed"}
    /\ output \in {{}} \cup SUBSET Positions

\* No result file content is the empty set, so {} is the previous file.
Previous == {}

NewChain == [stages |-> [s \in StageIds |-> "none"], outcome |-> "open",
             stop |-> 0, asking |-> 0]

Init ==
    /\ worker = [w \in Workers |-> "loop"]
    /\ at = [w \in Workers |-> 0]
    /\ next = 1
    /\ chain = [p \in Positions |-> NewChain]
    /\ stored = {}
    /\ succeeded = 0 /\ failures = 0 /\ calls = 0
    /\ fatal = FALSE
    /\ aborted = FALSE
    /\ tool = "deciding"
    /\ temporary = FALSE
    /\ output = Previous

(***************************************************************************)
(* chain.ts: decideRecord, as what it does between two classify calls.     *)
(***************************************************************************)
HoldsUnlessNo(c, s) == \A e \in Stages[s].when : c.stages[e] # "no"   \* mutant

\* Every condition of the stage: the earlier stage answered, and answered yes.
Holds(c, s) == \A e \in Stages[s].when : c.stages[e] = "yes"

\* Walk on from stage k: stages whose filter fails are skipped when they say
\* otherwise = "continue"; the first other stage is asked, or filters the record.
WalkFrom(c, k) ==
    LET later == {s \in StageIds : s > k}
        halts == {s \in later : Holds(c, s) \/ Stages[s].otherwise = "stop"}
        here  == IF halts = {} THEN 0 ELSE Min(halts)
        walked == [c EXCEPT !.asking = 0, !.stages = [s \in StageIds |->
                      IF s \in later /\ (here = 0 \/ s < here) THEN "skipped" ELSE @[s]]]
    IN  IF here = 0 THEN [walked EXCEPT !.outcome = "complete"]
        ELSE IF Holds(c, here) THEN [walked EXCEPT !.asking = here]
        ELSE [walked EXCEPT !.outcome = "filtered", !.stop = here]

StopAt(c, s, status, outcome) ==
    [c EXCEPT !.stages[s] = status, !.outcome = outcome, !.stop = s, !.asking = 0]

\* The stage answered: its abstain rule stops the record, otherwise it walks on.
Answered(c, s, a) ==
    IF a = "unsure" THEN StopAt(c, s, a, "abstained")
    ELSE WalkFrom([c EXCEPT !.stages[s] = a], s)

(***************************************************************************)
(* index.ts: worker() and classify().                                      *)
(***************************************************************************)

\* The loop test, next++, and decideRecord up to its first classify call.
TakeRecord(w) ==
    /\ worker[w] = "loop"
    /\ ~fatal /\ ~aborted
    /\ next' = next + 1
    /\ IF next > NumRecords
         THEN /\ worker' = [worker EXCEPT ![w] = "ended"]
              /\ UNCHANGED <<at, chain, calls>>
         ELSE /\ worker' = [worker EXCEPT ![w] = "calling"]
              /\ at' = [at EXCEPT ![w] = next]
              /\ chain' = [chain EXCEPT ![next] = WalkFrom(@, 0)]
              /\ calls' = calls + 1
    /\ UNCHANGED <<stored, succeeded, failures, fatal, aborted, tool, fileVars>>

StopLoopOnAbort(w) ==   \* mutant: a worker that finds the run fatal waits
    /\ worker[w] = "loop" /\ aborted
    /\ worker' = [worker EXCEPT ![w] = "ended"]
    /\ UNCHANGED <<at, next, chain, stored, succeeded, failures, calls, fatal,
                   aborted, tool, fileVars>>

\* The loop test fails: the run is fatal, or the caller aborted.
StopLoop(w) ==
    /\ worker[w] = "loop"
    /\ fatal \/ aborted
    /\ worker' = [worker EXCEPT ![w] = "ended"]
    /\ UNCHANGED <<at, next, chain, stored, succeeded, failures, calls, fatal,
                   aborted, tool, fileVars>>

ProceedUncounted(w, c) ==   \* mutant: only the first call of a record is counted
    /\ chain' = [chain EXCEPT ![at[w]] = c]
    /\ UNCHANGED calls
    /\ IF c.asking # 0
         THEN UNCHANGED <<worker, stored>>
         ELSE stored' = stored \cup {at[w]} /\ worker' = [worker EXCEPT ![w] = "loop"]

\* What worker() does with the record's new state: ask the next stage, or
\* assign results[position] and go back to the loop.
Proceed(w, c) ==
    /\ chain' = [chain EXCEPT ![at[w]] = c]
    /\ IF c.asking # 0
         THEN calls' = calls + 1 /\ UNCHANGED <<worker, stored>>
         ELSE /\ stored' = stored \cup {at[w]}
              /\ worker' = [worker EXCEPT ![w] = "loop"]
              /\ UNCHANGED calls

\* The classifier answered: stopReason "stop".
ClassifySucceeds(w) ==
    /\ worker[w] = "calling"
    /\ succeeded' = succeeded + 1
    /\ failures' = 0
    /\ LET c == chain[at[w]] IN
         \E a \in Answers :
            /\ a = "unsure" => Stages[c.asking].abstain
            /\ Proceed(w, Answered(c, c.asking, a))
    /\ UNCHANGED <<at, next, fatal, aborted, tool, fileVars>>

\* The classifier failed: any other stopReason.
ClassifyFails(w) ==
    /\ worker[w] = "calling"
    /\ failures' = failures + 1
    /\ fatal' = (fatal \/ (succeeded = 0 /\ failures' >= FailFastAfter))
    /\ LET c == chain[at[w]] IN Proceed(w, StopAt(c, c.asking, "error", "error"))
    /\ UNCHANGED <<at, next, succeeded, aborted, tool, fileVars>>

\* classify rejects, or the answer cannot be interpreted: the worker's promise
\* rejects and Promise.all with it.  The other workers go on.
WorkerThrows(w) ==
    /\ worker[w] = "calling"
    /\ worker' = [worker EXCEPT ![w] = "threw"]
    /\ tool' = IF tool = "deciding" THEN "failed" ELSE tool
    /\ UNCHANGED <<at, next, chain, stored, succeeded, failures, calls, fatal,
                   aborted, fileVars>>

(***************************************************************************)
(* execute() after Promise.all, and the caller's abort signal.             *)
(***************************************************************************)
Abort ==
    /\ ~aborted
    /\ tool \notin {"returned", "failed"}
    /\ aborted' = TRUE
    /\ UNCHANGED <<poolVars, tool, fileVars>>

AnyDone == \E w \in Workers : worker[w] = "ended"   \* mutant: Promise.race

\* Promise.all of the workers resolved.
AllDone == \A w \in Workers : worker[w] = "ended"

\* throwIfAborted, the fatal test, then mkdtemp beside the output.
Joined ==
    /\ tool = "deciding"
    /\ AllDone
    /\ \/ (aborted \/ fatal) /\ tool' = "failed" /\ UNCHANGED temporary
       \/ ~aborted /\ ~fatal /\ tool' = "staging" /\ temporary' = TRUE
    /\ UNCHANGED <<poolVars, aborted, output>>

\* mkdtemp failed: nothing was created and nothing is cleaned up.
StagingFails ==
    /\ tool = "deciding"
    /\ AllDone /\ ~aborted /\ ~fatal
    /\ tool' = "failed"
    /\ UNCHANGED <<poolVars, aborted, fileVars>>

WriteStaged ==
    /\ tool = "staging"
    /\ tool' = "staged"
    /\ UNCHANGED <<poolVars, aborted, fileVars>>

\* writeFile, checkOutputPath, throwIfAborted or rename throws.
PublishFails ==
    /\ tool \in {"staging", "staged", "renaming"}
    /\ tool' = "cleaning"
    /\ UNCHANGED <<poolVars, aborted, fileVars>>

CommitUnchecked ==   \* mutant: no throwIfAborted before the rename
    /\ tool = "staged"
    /\ tool' = "renaming"
    /\ UNCHANGED <<poolVars, aborted, fileVars>>

\* checkOutputPath and throwIfAborted pass; rename has been called.
Commit ==
    /\ tool = "staged"
    /\ ~aborted
    /\ tool' = "renaming"
    /\ UNCHANGED <<poolVars, aborted, fileVars>>

\* The output is replaced, even if the caller has aborted since the check.
Rename ==
    /\ tool = "renaming"
    /\ output' = stored
    /\ tool' = "cleaning"
    /\ UNCHANGED <<poolVars, aborted, temporary>>

\* finally: rm, then the summary or the error.
CleanUp ==
    /\ tool = "cleaning"
    /\ temporary' = FALSE
    /\ tool' = IF output = Previous THEN "failed" ELSE "returned"
    /\ UNCHANGED <<poolVars, aborted, output>>

Publish == WriteStaged \/ PublishFails \/ Commit \/ Rename \/ CleanUp

Next ==
    \/ Abort \/ Joined \/ StagingFails \/ Publish
    \/ \E w \in Workers :
         \/ TakeRecord(w) \/ StopLoop(w)
         \/ ClassifySucceeds(w) \/ ClassifyFails(w) \/ WorkerThrows(w)

Spec == Init /\ [][Next]_vars

\* Every classify call comes back (the client has a timeout), and the event
\* loop runs what is ready.  Nobody has to abort.
Fairness ==
    /\ WF_vars(Joined) /\ WF_vars(Publish)
    /\ \A w \in Workers :
         /\ WF_vars(TakeRecord(w) \/ StopLoop(w))
         /\ WF_vars(ClassifySucceeds(w) \/ ClassifyFails(w) \/ WorkerThrows(w))

FairSpec == Spec /\ Fairness

(***************************************************************************)
(* Properties.                                                             *)
(***************************************************************************)

\* "Publish a complete result atomically": what replaces the output holds an
\* outcome for every selected record.
PublishedComplete ==
    output # Previous =>
        /\ output = Positions
        /\ \A p \in Positions : chain[p].outcome # "open"

\* Cancellation, a failed run or a failed write leaves the previous result, and
\* no temporary directory is left behind once the tool has ended.
PreviousIntact ==
    /\ tool = "failed" => output = Previous
    /\ tool \in {"returned", "failed"} => ~temporary

\* The output changes as a whole or not at all.
PublicationAtomic == PublishedComplete /\ PreviousIntact

\* "Cancellation ... leaves a previous successful result intact": a caller who
\* aborts before the tool has passed its last check never sees a new result.
CancelledKeepsPrevious ==
    [](aborted /\ tool \in {"deciding", "staging", "staged"} => [](output = Previous))

\* A stage is asked only after every stage its filter names answered yes, and a
\* record's outcome says where and why it stopped.
ChainSound ==
    \A p \in Positions :
        LET c == chain[p] IN
        /\ \A s \in StageIds :
             c.stages[s] \in Answers \cup {"error"} \/ c.asking = s =>
                \A e \in Stages[s].when : c.stages[e] = "yes"
        /\ c.outcome = "complete" =>
             \A s \in StageIds : c.stages[s] \in {"yes", "no", "skipped"}
        /\ c.outcome \in {"filtered", "abstained", "error"} =>
             \A s \in StageIds : s > c.stop => c.stages[s] = "none"

\* classifier_calls: no call is lost or made twice; every call is a stage that
\* answered, failed, or is awaited (or was, when its worker threw).
CallsAccounted ==
    calls = Cardinality({x \in Positions \X StageIds :
                            \/ chain[x[1]].stages[x[2]] \in Answers \cup {"error"}
                            \/ chain[x[1]].asking = x[2]})

\* summarizeChain: reached, skipped, filtered and stopped earlier add up to the
\* records, for every stage.
StoppedAt(s, outcomes) ==
    Cardinality({p \in stored : chain[p].stop = s /\ chain[p].outcome \in outcomes})
Reached(s) ==
    Cardinality({p \in stored : chain[p].stages[s] \in Answers \cup {"error"}})
Skipped(s) == Cardinality({p \in stored : chain[p].stages[s] = "skipped"})

SummaryAddsUp ==
    \A s \in StageIds :
        Reached(s) + Skipped(s) + StoppedAt(s, {"filtered"})
          + Cardinality({p \in stored : chain[p].stop \in 1 .. s - 1})
        = Cardinality(stored)

\* The numbers the tool reports agree with what its workers did.
NumbersAgree == CallsAccounted /\ SummaryAddsUp

\* The tool call ends, and by then the pool has come to rest unless it threw.
ToolEnds == <>(tool \in {"returned", "failed"})
=============================================================================
