------------------------------ MODULE MetricHistory ------------------------------
(***************************************************************************)
(* serve-manager's stats poller: cmd/serve-manager/internal/stats/stats.go *)
(* (History, trendStore, BuildSnapshot) and the loop of runStatsPoll.      *)
(*                                                                         *)
(* Every poll appends a sample to three bounded stores: the rolling window *)
(* the rates come from, the buckets the history statistics come from, and  *)
(* the compacted trend.  Time is the wall clock (Poll() takes it in UTC,   *)
(* which drops Go's monotonic reading), so it may step back.               *)
(*                                                                         *)
(* One counter (`tokens`, cumulative, zero again after the polled server   *)
(* restarts) stands for the counters; one slot value (`level`, absent when *)
(* no slot is shown) stands for the gauges and slot values.                *)
(***************************************************************************)
EXTENDS Integers, Sequences, SequencesExt, FiniteSetsExt

CONSTANTS
    Window,         \* --window: rolling stats window
    BucketWidth,    \* --bucket
    Retention,      \* --retention
    Recent,         \* --trend-recent
    MaxPoints,      \* --trend-points
    Readings,       \* what /metrics and /slots may return: growth, restart, level
    Intervals,      \* time that may pass between two polls
    Setbacks,       \* how far the wall clock may step back, once
    MaxPolls,       \* bound: polls in a behaviour
    RateScale       \* rates are kept in units of 1/RateScale per time unit

ASSUME SizeAssumption ==
    /\ Window \in Nat \ {0} /\ BucketWidth \in Nat \ {0} /\ Retention \in Nat \ {0}
    /\ Recent \in Nat \ {0} /\ MaxPoints \in Nat \ {0, 1} /\ MaxPolls \in Nat
    /\ RateScale \in Nat \ {0}
ASSUME TimeAssumption ==
    /\ Intervals \subseteq Nat \ {0}
    /\ Setbacks \subseteq Nat \ {0}
ASSUME ReadingsAssumption ==
    Readings \subseteq [growth : Nat, restart : BOOLEAN, level : SUBSET Nat]

Names == {"rate", "level"}

VARIABLES
    clock,      \* wall clock
    stepped,    \* history variable: has the clock stepped back?
    log,        \* history variable: every sample observed
    window,     \* runStatsPoll's samples
    previous,   \* History.previous: none or the last sample
    buckets,    \* History.buckets
    points,     \* trendStore.points
    dropped     \* trendStore.dropped

vars == <<clock, stepped, log, window, previous, buckets, points, dropped>>

Samples == [at : Int, tokens : Nat, level : SUBSET Nat]

TypeOK ==
    /\ clock \in Int
    /\ stepped \in BOOLEAN
    /\ \A i \in DOMAIN log : log[i] \in Samples
    /\ previous \subseteq Samples
    /\ \A i \in DOMAIN buckets :
         /\ buckets[i].start % BucketWidth = 0
         /\ buckets[i].samples \in Nat \ {0}
    /\ \A i \in DOMAIN points : DOMAIN points[i].metrics \subseteq Names
    /\ dropped \in Nat

Init ==
    /\ clock = 10
    /\ stepped = FALSE
    /\ log = <<>>
    /\ window = <<>>
    /\ previous = {}
    /\ buckets = <<>>
    /\ points = <<>>
    /\ dropped = 0

\* The loops that trim a slice look only at its front.
DropWhile(s, Old(_)) ==
    LET fresh == {i \in DOMAIN s : ~Old(s[i])}
    IN  IF fresh = {} THEN <<>> ELSE SubSeq(s, Min(fresh), Len(s))

(***************************************************************************)
(* Rates: addCounterRate and BuildSnapshot.                                *)
(***************************************************************************)
CounterRateUnguarded(first, last) ==   \* mutant: a restart is not noticed
    IF last.at > first.at
      THEN {((last.tokens - first.tokens) * RateScale) \div (last.at - first.at)}
      ELSE {}

\* The rate between two samples, if any: none when no time passed, none when the
\* counter fell, which is how a restart of the polled server shows.
CounterRate(first, last) ==
    IF last.at > first.at /\ last.tokens >= first.tokens
      THEN {((last.tokens - first.tokens) * RateScale) \div (last.at - first.at)}
      ELSE {}

\* Rates of the published snapshot.
SnapshotRate == IF window = <<>> THEN {} ELSE CounterRate(window[1], Last(window))

TrimWindow(samples, newest) ==
    DropWhile(samples, LAMBDA s : s.at < newest - Window)

(***************************************************************************)
(* Buckets and their accumulators.                                         *)
(***************************************************************************)
EmptyAcc == [count |-> 0, min |-> 0, max |-> 0, sum |-> 0, last |-> 0]

AddValue(a, v) ==
    [count |-> a.count + 1,
     min   |-> IF a.count = 0 \/ v < a.min THEN v ELSE a.min,
     max   |-> IF a.count = 0 \/ v > a.max THEN v ELSE a.max,
     sum   |-> a.sum + v,
     last  |-> v]

MergeKeepsZeroMin(dst, src) ==   \* mutant: the empty accumulator's zero counts
    IF src.count = 0 THEN dst
    ELSE [count |-> dst.count + src.count,
          min   |-> IF src.min < dst.min THEN src.min ELSE dst.min,
          max   |-> IF src.max > dst.max THEN src.max ELSE dst.max,
          sum   |-> dst.sum + src.sum,
          last  |-> src.last]

Merge(dst, src) ==
    IF src.count = 0 THEN dst
    ELSE [count |-> dst.count + src.count,
          min   |-> IF dst.count = 0 \/ src.min < dst.min THEN src.min ELSE dst.min,
          max   |-> IF dst.count = 0 \/ src.max > dst.max THEN src.max ELSE dst.max,
          sum   |-> dst.sum + src.sum,
          last  |-> src.last]

\* History.Stats: the accumulators of a metric merged over the buckets.
Stats(n) ==
    LET merged[i \in 0 .. Len(buckets)] ==
          IF i = 0 THEN EmptyAcc ELSE Merge(merged[i - 1], buckets[i].acc[n])
    IN  merged[Len(buckets)]

\* A new bucket unless the sample falls into the newest one.
BucketFor(bs, at) ==
    LET start == at - (at % BucketWidth)
    IN  IF bs # <<>> /\ Last(bs).start = start THEN bs
        ELSE Append(bs, [start |-> start, samples |-> 0,
                         acc |-> [n \in Names |-> EmptyAcc]])

\* The bucket counts the sample and every metric value it carries.
Filled(b, metrics) ==
    [start   |-> b.start,
     samples |-> b.samples + 1,
     acc     |-> [n \in Names |-> IF n \in DOMAIN metrics
                                    THEN AddValue(b.acc[n], metrics[n])
                                    ELSE b.acc[n]]]

AddToBucket(bs, at, metrics) ==
    LET open == BucketFor(bs, at)
    IN  [open EXCEPT ![Len(open)] = Filled(@, metrics)]

BucketExpiredAtStart(b, newest) == b.start < newest - Retention   \* mutant

\* bucket.end.Before(cutoff)
BucketExpired(b, newest) == b.start + BucketWidth < newest - Retention

(***************************************************************************)
(* The trend: trendStore.                                                  *)
(***************************************************************************)
\* The k-th smallest index of S.
Nth(S, k) == CHOOSE i \in S : Cardinality({j \in S : j <= i}) = k

\* The points at the marked indices, in the order they are in.
Keep(pts, marked) ==
    LET kept == marked \cap DOMAIN pts
    IN  [k \in 1 .. Cardinality(kept) |-> pts[Nth(kept, k)]]

Abs(x) == IF x < 0 THEN -x ELSE x

\* markDeltaDeltaChanges: the points where a metric changes its slope by at
\* least 8% of its range.  An absent metric reads as zero, as from a Go map.
Changes(pts, n) ==
    LET v == [i \in DOMAIN pts |-> IF n \in DOMAIN pts[i].metrics
                                     THEN pts[i].metrics[n] ELSE 0]
        range == Max(ToSet(v)) - Min(ToSet(v))
        bend(i) == Abs((v[i + 1] - v[i]) - (v[i] - v[i - 1]))
    IN  {i \in 2 .. Len(pts) - 1 : bend(i) > 0 /\ 100 * bend(i) >= 8 * range}

ThinPoints(pts, target) ==
    [k \in 1 .. target |-> pts[((k - 1) * (Len(pts) - 1)) \div (target - 1) + 1]]

ReduceDeltaDelta(pts, target) ==
    LET stride  == Max({2, Len(pts) \div target})
        regular == {i \in DOMAIN pts : (i - 1) % stride = 0} \cup {1, Len(pts)}
        out     == Keep(pts, regular \cup UNION {Changes(pts, n) : n \in Names})
    IN  IF Len(out) <= target THEN out ELSE ThinPoints(out, target)

\* The points that survive, and how many compress() adds to `dropped`.  The
\* code counts a final truncation twice: once when it cuts, once in the total.
CompressedPoints(pts, now) ==
    LET older  == Keep(pts, {i \in DOMAIN pts : pts[i].at < now - Recent})
        recent == Keep(pts, {i \in DOMAIN pts : pts[i].at >= now - Recent})
        budget == Max({2, MaxPoints - Len(recent)})
    IN  (IF Len(older) > budget THEN ReduceDeltaDelta(older, budget) ELSE older)
          \o recent

Newest(pts) ==
    IF Len(pts) > MaxPoints THEN SubSeq(pts, Len(pts) - MaxPoints + 1, Len(pts)) ELSE pts

CompressLate(pts, now) ==   \* mutant: compresses only once the limit is exceeded by two
    IF Len(pts) <= MaxPoints + 1
      THEN [points |-> pts, dropped |-> 0]
      ELSE LET next == CompressedPoints(pts, now)
           IN  [points  |-> Newest(next),
                dropped |-> (Len(next) - Len(Newest(next)))
                            + (Len(pts) - Len(Newest(next)))]

Compress(pts, now) ==
    IF Len(pts) <= MaxPoints
      THEN [points |-> pts, dropped |-> 0]
      ELSE LET next == CompressedPoints(pts, now)
           IN  [points  |-> Newest(next),
                dropped |-> (Len(next) - Len(Newest(next)))
                            + (Len(pts) - Len(Newest(next)))]

\* trendStore.trim, after compress() in the same Observe.
TrimTrend(c, newest) ==
    LET kept == DropWhile(c.points, LAMBDA p : p.at < newest - Retention)
    IN  [points |-> kept, dropped |-> c.dropped + (Len(c.points) - Len(kept))]

(***************************************************************************)
(* One turn of runStatsPoll: Poll, Observe, TrimWindow.                    *)
(***************************************************************************)
MetricsOf(sample) ==
    LET rate == UNION {CounterRate(p, sample) : p \in previous}
    IN  [n \in {m \in Names : IF m = "rate" THEN rate # {} ELSE sample.level # {}} |->
           IF n = "rate" THEN CHOOSE v \in rate : TRUE
                         ELSE CHOOSE v \in sample.level : TRUE]

Observe(sample) ==
    LET metrics == MetricsOf(sample)
        trend == TrimTrend(Compress(Append(points, [at |-> sample.at, metrics |-> metrics]),
                                    sample.at), sample.at)
    IN  /\ log' = Append(log, sample)
        /\ previous' = {sample}
        /\ buckets' = DropWhile(AddToBucket(buckets, sample.at, metrics),
                                LAMBDA b : BucketExpired(b, sample.at))
        /\ points' = trend.points
        /\ dropped' = dropped + trend.dropped
        /\ window' = TrimWindow(Append(window, sample), sample.at)

\* The counter of the polled server, which may have restarted since.
TokensAfter(reading) ==
    reading.growth + (IF reading.restart \/ log = <<>> THEN 0 ELSE Last(log).tokens)

PollAt(t) ==
    /\ Len(log) < MaxPolls
    /\ clock' = t
    /\ \E reading \in Readings :
         Observe([at |-> t, tokens |-> TokensAfter(reading), level |-> reading.level])

Poll ==
    /\ \E dt \in Intervals : PollAt(clock + dt)
    /\ UNCHANGED stepped

\* The wall clock was set back by more than the time that passed.
PollAfterSetback ==
    /\ ~stepped
    /\ stepped' = TRUE
    /\ \E back \in Setbacks : PollAt(clock - back)

Next == Poll \/ PollAfterSetback

Spec == Init /\ [][Next]_vars

(***************************************************************************)
(* Properties.                                                             *)
(***************************************************************************)

\* Every sample of the recent horizon is in the trend, uncompressed.  (With a
\* horizon of more samples than --trend-points, as by default, it is not.)
RecentKeptRaw ==
    \A k \in DOMAIN log :
        ~stepped /\ log[k].at >= Last(log).at - Recent =>
            \E p \in DOMAIN points : points[p].at = log[k].at

\* sample_count, point_count and dropped_count of the trend: no drop is missed,
\* and while the recent horizon fits into the limit (polls are at least one time
\* unit apart) none is counted twice and the recent horizon is kept raw, unless
\* --retention, which nothing compares with --trend-recent, is the shorter one.
DropsCounted ==
    /\ dropped >= Len(log) - Len(points)
    /\ ~stepped /\ Recent + 3 <= MaxPoints =>
         /\ dropped = Len(log) - Len(points)
         /\ Recent <= Retention => RecentKeptRaw

\* f[1] + ... + f[n], as the size of a disjoint union.
Total(f) == Cardinality(UNION {{i} \X (1 .. f[i]) : i \in DOMAIN f})

\* How many samples the buckets count.
Counted == Total([i \in DOMAIN buckets |-> buckets[i].samples])

\* The trend never outgrows --trend-points and always ends with the newest
\* sample; while the clock runs forward its points stay in order; and what
\* compression and retention take out of it is counted.
TrendBounded ==
    /\ Len(points) <= MaxPoints
    /\ log # <<>> => points # <<>> /\ Last(points).at = Last(log).at
    /\ ~stepped => \A i, j \in DOMAIN points : i < j => points[i].at < points[j].at
    /\ DropsCounted

\* While the clock runs forward: buckets are disjoint and ascending, none is
\* older than the retention, and they count every sample since the first of them.
BucketsRetained ==
    /\ Counted <= Len(log)
    /\ log # <<>> => Counted > 0
    /\ ~stepped /\ log # <<>> =>
         /\ \A i, j \in DOMAIN buckets : i < j => buckets[i].start < buckets[j].start
         /\ buckets[1].start + BucketWidth >= Last(log).at - Retention
         /\ \A k \in DOMAIN log :
              log[k].at >= Last(log).at - Retention => k > Len(log) - Counted

\* The history statistics are those of the samples the buckets still count.
StatsExact ==
    LET shown == {k \in Len(log) - Counted + 1 .. Len(log) : log[k].level # {}}
        value == [k \in shown |-> CHOOSE v \in log[k].level : TRUE]
        stats == Stats("level")
    IN  /\ stats.count = Cardinality(shown)
        /\ stats.sum = Total(value)
        /\ shown # {} =>
             /\ stats.min = Min({value[k] : k \in shown})
             /\ stats.max = Max({value[k] : k \in shown})
             /\ stats.last = value[Max(shown)]

\* What the server really generated between two consecutive samples.
Produced(first, last) ==
    IF last.tokens >= first.tokens THEN last.tokens - first.tokens ELSE last.tokens

\* A published rate is never negative and never above what was generated in the
\* window, whatever restarts and clock steps fall into it.
RateNotOverstated ==
    \A rate \in SnapshotRate :
        LET total == Total([i \in 1 .. Len(window) - 1 |->
                              Produced(window[i], window[i + 1])])
        IN  /\ rate >= 0
            /\ rate * (Last(window).at - window[1].at) <= total * RateScale
=============================================================================
