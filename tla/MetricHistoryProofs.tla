-------------------------- MODULE MetricHistoryProofs --------------------------
(***************************************************************************)
(* For every window, bucket width, retention and limit of the trend that   *)
(* runStatsPoll accepts, every sequence of readings and intervals, and a   *)
(* clock that may step back: the types of MetricHistory, that the trend    *)
(* stays within its limit, in order and accounted for, that the buckets    *)
(* keep every sample of the retention, that the statistics are those of    *)
(* the samples that the buckets count, and that a published rate is no     *)
(* more than what was generated.                                           *)
(*                                                                         *)
(* The trend rests on what compress() returns (CompressedIs): Keep and     *)
(* ThinPoints pick indices in ascending order, the older points fit into   *)
(* their budget, and points of the recent horizon are no more than it has  *)
(* moments.  The buckets rest on what each of them counts (BucketsFit): a  *)
(* contiguous part of the log, all of it older than the bucket's end.      *)
(* The statistics rest on what a bucket accumulates (AccsFit): it          *)
(* describes the levels in its part of the log, and merging two            *)
(* accumulators describes both parts, of which the second is the later.    *)
(* Totals are sizes of sets (Total), so that adding a sample adds an       *)
(* element, dropping buckets takes a subset and renumbering is a           *)
(* bijection; a rate is bounded by an injection from the tokens counted    *)
(* into the tokens generated.                                              *)
(***************************************************************************)
EXTENDS MetricHistory, FiniteSetTheorems, SequenceTheorems, WellFoundedInduction, TLAPS

(***************************************************************************)
(* Least and greatest.                                                     *)
(***************************************************************************)

\* A set of naturals that is not empty has a least element, which Min chooses.
LEMMA MinIsLeast ==
    ASSUME NEW S \in SUBSET Nat, S # {}
    PROVE  Min(S) \in S /\ \A y \in S : Min(S) <= y
<1>1. PICK x \in S : \A y \in S : ~ (<<y, x>> \in OpToRel(<, Nat))
  BY NatLessThanWellFounded, WFMin
<1>2. OpToRel(<, Nat) = {ss \in Nat \X Nat : ss[1] < ss[2]}
  BY DEF OpToRel
<1>3. ASSUME NEW y \in S PROVE x <= y
  <2>1. <<y, x>> \notin OpToRel(<, Nat)
    BY <1>1
  <2>2. ~ (y < x)
    BY <1>2, <2>1
  <2>3. QED
    BY <2>2
<1> QED
  BY <1>3 DEF Min

\* The greater of two integers.
LEMMA MaxOfTwo ==
    ASSUME NEW a \in Int, NEW b \in Int
    PROVE  Max({a, b}) = IF a >= b THEN a ELSE b
BY DEF Max

(***************************************************************************)
(* Keep.                                                                   *)
(***************************************************************************)

\* 1 .. n has n elements.
LEMMA SizeOfUpTo ==
    ASSUME NEW n \in Nat
    PROVE  IsFiniteSet(1 .. n) /\ Cardinality(1 .. n) = n
<1>1. 1 \in Int /\ n \in Int
  OBVIOUS
<1> QED
  BY <1>1, FS_Interval

\* The elements of S up to i, which give i its rank.
UpTo(S, i) == {j \in S : j <= i}

\* Ranks are naturals, none above the size of the set.
LEMMA UpToFinite ==
    ASSUME NEW n \in Nat, NEW S \in SUBSET (1 .. n)
    PROVE  /\ S \subseteq Nat /\ IsFiniteSet(S) /\ Cardinality(S) \in Nat
           /\ Cardinality(S) <= n
           /\ \A i : /\ UpTo(S, i) \subseteq S /\ IsFiniteSet(UpTo(S, i))
                    /\ Cardinality(UpTo(S, i)) \in Nat
                    /\ Cardinality(UpTo(S, i)) <= Cardinality(S)
<1>1. S \subseteq Nat
  OBVIOUS
<1>2. IsFiniteSet(1 .. n) /\ Cardinality(1 .. n) = n
  BY SizeOfUpTo
<1>3. IsFiniteSet(S) /\ Cardinality(S) \in Nat /\ Cardinality(S) <= n
  BY <1>2, FS_Subset, FS_CardinalityType
<1>4. ASSUME NEW i
      PROVE  /\ UpTo(S, i) \subseteq S /\ IsFiniteSet(UpTo(S, i))
             /\ Cardinality(UpTo(S, i)) \in Nat
             /\ Cardinality(UpTo(S, i)) <= Cardinality(S)
  <2>1. UpTo(S, i) \in SUBSET S
    BY DEF UpTo
  <2> QED
    BY <1>3, <2>1, FS_Subset, FS_CardinalityType
<1> QED
  BY <1>1, <1>3, <1>4

\* Nth(S, k) is the element of S whose rank is k: the least m with k elements up
\* to it.
LEMMA NthIs ==
    ASSUME NEW n \in Nat, NEW S \in SUBSET (1 .. n),
           NEW k \in 1 .. Cardinality(S)
    PROVE  Nth(S, k) \in S /\ Cardinality(UpTo(S, Nth(S, k))) = k
<1> DEFINE T == {m \in 0 .. n : Cardinality(UpTo(S, m)) >= k}
<1>1. S \subseteq Nat /\ Cardinality(S) \in Nat /\ k \in Nat /\ k > 0
  BY UpToFinite
<1>2. UpTo(S, n) = S /\ UpTo(S, 0) = {}
  <2>1. \A j \in S : j <= n /\ ~ (j <= 0)
    OBVIOUS
  <2> QED
    BY <2>1 DEF UpTo
<1>3. n \in T
  BY <1>1, <1>2
<1> DEFINE m == Min(T)
<1>4. m \in T /\ \A y \in T : m <= y
  <2>1. T \in SUBSET Nat
    OBVIOUS
  <2> QED
    BY <1>3, <2>1, MinIsLeast
<1> HIDE DEF m
<1>5. m \in Nat /\ m # 0
  BY <1>1, <1>2, <1>4, FS_EmptySet
<1>6. /\ IsFiniteSet(UpTo(S, m - 1)) /\ Cardinality(UpTo(S, m - 1)) \in Nat
      /\ Cardinality(UpTo(S, m)) \in Nat
  BY UpToFinite
<1>7. Cardinality(UpTo(S, m - 1)) < k
  BY <1>1, <1>4, <1>5, <1>6
<1>8. m \in S
  <2>1. SUFFICES ASSUME m \notin S PROVE FALSE
    OBVIOUS
  <2>2. \A j \in S : j <= m <=> j <= m - 1
    BY <1>1, <1>5, <2>1
  <2>3. UpTo(S, m) = UpTo(S, m - 1)
    BY <2>2 DEF UpTo
  <2> QED
    BY <1>1, <1>4, <1>6, <1>7, <2>3
<1>9. UpTo(S, m) = UpTo(S, m - 1) \cup {m} /\ m \notin UpTo(S, m - 1)
  <2>1. \A j \in S : j <= m <=> j <= m - 1 \/ j = m
    BY <1>1, <1>5
  <2>2. ~ (m <= m - 1) /\ m <= m
    BY <1>5
  <2> QED
    BY <1>8, <2>1, <2>2 DEF UpTo
<1>10. Cardinality(UpTo(S, m)) = Cardinality(UpTo(S, m - 1)) + 1
  BY <1>6, <1>9, FS_AddElement
<1>11. Cardinality(UpTo(S, m)) = k
  BY <1>1, <1>4, <1>6, <1>7, <1>10
<1> QED
  BY <1>8, <1>11 DEF Nth, UpTo

\* Nth ascends.
LEMMA NthOrdered ==
    ASSUME NEW n \in Nat, NEW S \in SUBSET (1 .. n),
           NEW k \in 1 .. Cardinality(S), NEW l \in 1 .. Cardinality(S), k < l
    PROVE  Nth(S, k) < Nth(S, l)
<1> DEFINE x == Nth(S, k)
           y == Nth(S, l)
<1>1. /\ x \in S /\ Cardinality(UpTo(S, x)) = k
      /\ y \in S /\ Cardinality(UpTo(S, y)) = l
  BY NthIs
<1>2. S \subseteq Nat /\ Cardinality(S) \in Nat /\ IsFiniteSet(UpTo(S, x))
  BY UpToFinite
<1> HIDE DEF x, y
<1>3. ASSUME y <= x PROVE FALSE
  <2>1. \A j \in S : j <= y => j <= x
    BY <1>1, <1>2, <1>3
  <2>2. UpTo(S, y) \in SUBSET UpTo(S, x)
    BY <2>1 DEF UpTo
  <2>3. l <= k
    BY <1>1, <1>2, <2>2, FS_Subset
  <2> QED
    BY <1>2, <2>3
<1>4. x < y
  BY <1>1, <1>2, <1>3
<1> QED
  BY <1>4 DEF x, y

\* Every index of S is its Nth for some k.
LEMMA NthOnto ==
    ASSUME NEW n \in Nat, NEW S \in SUBSET (1 .. n), NEW i \in S
    PROVE  \E k \in 1 .. Cardinality(S) : Nth(S, k) = i
<1> DEFINE k == Cardinality(UpTo(S, i))
           x == Nth(S, k)
<1>1. S \subseteq Nat /\ Cardinality(S) \in Nat /\ k \in Nat /\ k <= Cardinality(S)
  BY UpToFinite
<1>2. i \in UpTo(S, i) /\ IsFiniteSet(UpTo(S, i))
  BY <1>1, UpToFinite DEF UpTo
<1>3. k # 0
  BY <1>2, FS_EmptySet
<1>4. k \in 1 .. Cardinality(S)
  BY <1>1, <1>3
<1>5. x \in S /\ Cardinality(UpTo(S, x)) = k
  BY <1>4, NthIs
<1> HIDE DEF x, k
<1>6. x \in UpTo(S, x) /\ IsFiniteSet(UpTo(S, x))
  BY <1>1, <1>5, UpToFinite DEF UpTo
<1>7. UpTo(S, i) = UpTo(S, x)
  <2>1. CASE i <= x
    <3>1. \A j \in S : j <= i => j <= x
      BY <1>1, <1>5, <2>1
    <3>2. UpTo(S, i) \in SUBSET UpTo(S, x)
      BY <3>1 DEF UpTo
    <3> QED
      BY <1>5, <1>6, <3>2, FS_Subset DEF k
  <2>2. CASE x <= i
    <3>1. \A j \in S : j <= x => j <= i
      BY <1>1, <1>5, <2>2
    <3>2. UpTo(S, x) \in SUBSET UpTo(S, i)
      BY <3>1 DEF UpTo
    <3> QED
      BY <1>2, <1>5, <3>2, FS_Subset DEF k
  <2> QED
    BY <1>1, <1>5, <2>1, <2>2
<1>8. i <= x /\ x <= i
  BY <1>2, <1>6, <1>7 DEF UpTo
<1>9. i = x
  BY <1>1, <1>5, <1>8
<1> QED
  BY <1>4, <1>9 DEF x

\* What MetricsOf and the trend's points carry.
Metrics == UNION {[D -> Int] : D \in SUBSET Names}
Points == [at : Int, metrics : Metrics]

\* Every element is later than those before it.
Ordered(s) == \A i, j \in DOMAIN s : i < j => s[i].at < s[j].at

\* A function on 1 .. n is a sequence of length n.
LEMMA FunctionIsSeq ==
    ASSUME NEW T, NEW n \in Nat, NEW f \in [1 .. n -> T]
    PROVE  f \in Seq(T) /\ Len(f) = n /\ DOMAIN f = 1 .. n
<1>1. f \in Seq(T)
  BY SeqDef
<1>2. 1 .. Len(f) = 1 .. n /\ Len(f) \in Nat
  BY <1>1, LenProperties
<1> QED
  BY <1>1, <1>2

\* The marked points, all of them, in order, and the last one if it is marked.
KeepsMarked(out, pts, marked) ==
    /\ out \in Seq(Points)
    /\ Len(out) = Cardinality(marked \cap DOMAIN pts)
    /\ \A k \in DOMAIN out : \E i \in marked \cap DOMAIN pts : out[k] = pts[i]
    /\ \A i \in marked \cap DOMAIN pts : \E k \in DOMAIN out : out[k] = pts[i]
    /\ Ordered(pts) => Ordered(out)
    /\ Len(pts) \in marked /\ pts # <<>> =>
         out # <<>> /\ out[Len(out)] = pts[Len(pts)]

\* Keep returns the marked points.
LEMMA KeepIs ==
    ASSUME NEW pts \in Seq(Points), NEW marked
    PROVE  KeepsMarked(Keep(pts, marked), pts, marked)
<1> DEFINE S == marked \cap DOMAIN pts
           out == Keep(pts, marked)
<1>1. Len(pts) \in Nat /\ S \in SUBSET (1 .. Len(pts))
  BY LenProperties
<1>2. IsFiniteSet(S) /\ Cardinality(S) \in Nat
  BY <1>1, UpToFinite
<1>3. out = [k \in 1 .. Cardinality(S) |-> pts[Nth(S, k)]]
  BY DEF Keep
<1>4. \A k \in 1 .. Cardinality(S) : Nth(S, k) \in S
  BY <1>1, NthIs
<1>5. \A i \in 1 .. Len(pts) : pts[i] \in Points
  BY ElementOfSeq
<1>6. out \in [1 .. Cardinality(S) -> Points]
  BY <1>1, <1>3, <1>4, <1>5
<1>7. out \in Seq(Points) /\ Len(out) = Cardinality(S) /\ DOMAIN out = 1 .. Cardinality(S)
  BY <1>2, <1>6, FunctionIsSeq
<1>8. \A i \in S : \E k \in DOMAIN out : out[k] = pts[i]
  <2>1. TAKE i \in S
  <2>2. PICK k \in 1 .. Cardinality(S) : Nth(S, k) = i
    BY <1>1, NthOnto
  <2> QED
    BY <1>3, <1>7, <2>2
<1>9. ASSUME Ordered(pts) PROVE Ordered(out)
  <2>1. SUFFICES ASSUME NEW k \in DOMAIN out, NEW l \in DOMAIN out, k < l
                 PROVE  out[k].at < out[l].at
    BY DEF Ordered
  <2>2. Nth(S, k) < Nth(S, l) /\ Nth(S, k) \in S /\ Nth(S, l) \in S
    BY <1>1, <1>4, <1>7, <2>1, NthOrdered
  <2> QED
    BY <1>3, <1>7, <1>9, <2>1, <2>2 DEF Ordered
<1>10. ASSUME Len(pts) \in marked, pts # <<>>
       PROVE  out # <<>> /\ out[Len(out)] = pts[Len(pts)]
  <2>1. Len(pts) \in S
    BY <1>10, EmptySeq, LenProperties
  <2>2. PICK k \in 1 .. Cardinality(S) : Nth(S, k) = Len(pts)
    BY <1>1, <2>1, NthOnto
  <2>3. Cardinality(S) \in 1 .. Cardinality(S) /\ k \in Nat
    BY <1>2, <2>2
  <2>4. Nth(S, Cardinality(S)) \in 1 .. Len(pts)
    BY <1>1, <1>4, <2>3
  <2>5. ~ (k < Cardinality(S))
    <3>1. SUFFICES ASSUME k < Cardinality(S) PROVE FALSE
      OBVIOUS
    <3>2. Nth(S, k) < Nth(S, Cardinality(S))
      BY <1>1, <2>2, <2>3, <3>1, NthOrdered
    <3> QED
      BY <1>1, <2>2, <2>4, <3>2
  <2>6. k = Cardinality(S)
    BY <1>2, <2>2, <2>5
  <2>7. out[Len(out)] = pts[Len(pts)]
    BY <1>3, <1>7, <2>2, <2>6
  <2> QED
    BY <1>7, <2>3, <2>7, EmptySeq
<1> QED
  <2> HIDE DEF out
  <2>1. \A k \in DOMAIN out : \E i \in S : out[k] = pts[i]
    BY <1>3, <1>4, <1>7
  <2> QED
    BY <1>7, <1>8, <1>9, <1>10, <2>1 DEF KeepsMarked, out

(***************************************************************************)
(* Thinning and compressing.                                               *)
(***************************************************************************)

\* Division rounds down, and leaves a remainder below the divisor.
LEMMA Quotients ==
    ASSUME NEW a \in Int, NEW d \in Nat \ {0}
    PROVE  /\ a \div d \in Int /\ d * (a \div d) <= a /\ a < d * (a \div d) + d
           /\ a % d \in 0 .. d - 1 /\ a % d = a - d * (a \div d)
           /\ a \in Nat => a \div d \in Nat
<1>1. a \div d \in Int /\ d * (a \div d) <= a /\ a < d * (a \div d) + d
  OBVIOUS
<1>2. a % d \in 0 .. d - 1
  OBVIOUS
<1>3. a % d = a - d * (a \div d)
  OBVIOUS
<1>4. a \in Nat => a \div d \in Nat
  OBVIOUS
<1> QED
  BY <1>1, <1>2, <1>3, <1>4

\* The same for naturals.
LEMMA NaturalQuotients ==
    ASSUME NEW a \in Nat, NEW d \in Nat \ {0}
    PROVE  a \div d \in Nat /\ d * (a \div d) <= a /\ a < d * (a \div d) + d
BY a \in Int, Quotients

\* A multiple of the divisor leaves no remainder.
LEMMA MultiplesLeaveNothing ==
    ASSUME NEW q \in Int, NEW d \in Nat \ {0}
    PROVE  (d * q) % d = 0
<1> DEFINE a == d * q
           p == a \div d
           r == a % d
<1>1. a \in Int
  OBVIOUS
<1> HIDE DEF a
<1>2. p \in Int /\ r \in 0 .. d - 1 /\ a = d * p + r
  BY <1>1, Quotients
<1> HIDE DEF p, r
<1>3. d * q = d * p + r
  BY <1>2 DEF a
<1>4. CASE q = p
  BY <1>2, <1>3, <1>4 DEF r, a
<1>5. CASE q >= p + 1
  <2>1. d * q >= d * (p + 1) /\ d * (p + 1) = d * p + d
    BY <1>2, <1>5
  <2> QED
    BY <1>2, <1>3, <2>1
<1>6. CASE q + 1 <= p
  <2>1. d * p >= d * (q + 1) /\ d * (q + 1) = d * q + d
    BY <1>2, <1>6
  <2> QED
    BY <1>2, <1>3, <2>1
<1> QED
  BY <1>2, <1>4, <1>5, <1>6

\* Dividends that are a divisor apart have different quotients.
LEMMA QuotientsApart ==
    ASSUME NEW a \in Nat, NEW b \in Nat, NEW d \in Nat \ {0}, a + d <= b
    PROVE  a \div d < b \div d
<1> DEFINE p == a \div d
           q == b \div d
<1>1. /\ p \in Nat /\ d * p <= a /\ a < d * p + d
      /\ q \in Nat /\ d * q <= b /\ b < d * q + d
  BY Quotients
<1> HIDE DEF p, q
<1>2. SUFFICES ASSUME q <= p PROVE FALSE
  BY <1>1 DEF p, q
<1>3. d * q <= d * p
  BY <1>1, <1>2
<1> QED
  BY <1>1, <1>3

\* thinPoints returns as many points as it is asked for, in order: the indices it
\* computes are at least one apart, because there are more points than it keeps.
LEMMA ThinIs ==
    ASSUME NEW pts \in Seq(Points), NEW target \in Nat \ {0, 1}, Len(pts) > target
    PROVE  LET out == ThinPoints(pts, target) IN
           /\ out \in Seq(Points) /\ Len(out) = target
           /\ \A k \in DOMAIN out : \E i \in DOMAIN pts : out[k] = pts[i]
           /\ Ordered(pts) => Ordered(out)
<1> DEFINE L == Len(pts) - 1
           d == target - 1
           ix(k) == ((k - 1) * L) \div d + 1
           out == ThinPoints(pts, target)
<1>1. L \in Nat /\ d \in Nat \ {0} /\ d < L /\ Len(pts) = L + 1 /\ target = d + 1
  BY LenProperties
<1>2. out = [k \in 1 .. target |-> pts[ix(k)]]
  BY DEF ThinPoints
<1> HIDE DEF L, d
<1>3. ASSUME NEW k \in 1 .. target PROVE ix(k) \in 1 .. Len(pts)
  <2> DEFINE a == (k - 1) * L
             q == a \div d
  <2>1. a \in Nat /\ k - 1 \in Nat /\ k - 1 <= d
    BY <1>1
  <2>2. a <= d * L
    BY <1>1, <2>1
  <2> HIDE DEF a
  <2>3. q \in Nat /\ d * q <= a
    BY <1>1, <2>1, NaturalQuotients
  <2> HIDE DEF q
  <2>4. q <= L
    <3>1. SUFFICES ASSUME q >= L + 1 PROVE FALSE
      BY <1>1, <2>3
    <3>2. d * q >= d * (L + 1)
      BY <1>1, <2>3, <3>1
    <3>3. d * (L + 1) = d * L + d
      BY <1>1
    <3> QED
      BY <1>1, <2>1, <2>2, <2>3, <3>2, <3>3
  <2>5. q + 1 \in 1 .. Len(pts)
    BY <1>1, <2>3, <2>4
  <2> QED
    BY <2>5 DEF q, a
<1>4. ASSUME NEW k \in 1 .. target, NEW l \in 1 .. target, k < l
      PROVE  ix(k) < ix(l)
  <2> DEFINE a == (k - 1) * L
             b == (l - 1) * L
  <2>1. a \in Nat /\ b \in Nat
    BY <1>1
  <2>2. b = a + (l - k) * L /\ (l - k) * L >= L
    BY <1>1, <1>4
  <2>3. a + d <= b
    BY <1>1, <2>1, <2>2
  <2> HIDE DEF a, b
  <2>4. a \div d < b \div d /\ a \div d \in Nat /\ b \div d \in Nat
    BY <1>1, <2>1, <2>3, QuotientsApart, NaturalQuotients
  <2>5. a \div d + 1 < b \div d + 1
    BY <2>4
  <2> QED
    BY <2>5 DEF a, b
<1> HIDE DEF ix
<1>5. \A i \in 1 .. Len(pts) : pts[i] \in Points
  BY ElementOfSeq
<1>6. out \in [1 .. target -> Points]
  BY <1>2, <1>3, <1>5
<1>7. out \in Seq(Points) /\ Len(out) = target /\ DOMAIN out = 1 .. target
  BY <1>6, FunctionIsSeq
<1>8. DOMAIN pts = 1 .. Len(pts)
  BY LenProperties
<1>9. \A k \in DOMAIN out : out[k] = pts[ix(k)] /\ ix(k) \in DOMAIN pts
  BY <1>2, <1>3, <1>7, <1>8
<1>10. Ordered(pts) => Ordered(out)
  BY <1>4, <1>7, <1>9 DEF Ordered
<1> QED
  BY <1>7, <1>9, <1>10

\* reduceDeltaDelta returns no more points than it is asked for, in order.
LEMMA ReduceIs ==
    ASSUME NEW pts \in Seq(Points), NEW target \in Nat \ {0, 1}
    PROVE  LET out == ReduceDeltaDelta(pts, target) IN
           /\ out \in Seq(Points) /\ Len(out) <= target
           /\ \A k \in DOMAIN out : \E i \in DOMAIN pts : out[k] = pts[i]
           /\ Ordered(pts) => Ordered(out)
<1> DEFINE marked == {i \in DOMAIN pts : (i - 1) % Max({2, Len(pts) \div target}) = 0}
                        \cup {1, Len(pts)} \cup UNION {Changes(pts, n) : n \in Names}
           kept == Keep(pts, marked)
<1> HIDE DEF marked
<1>1. /\ kept \in Seq(Points)
      /\ \A k \in DOMAIN kept : \E i \in DOMAIN pts : kept[k] = pts[i]
      /\ Ordered(pts) => Ordered(kept)
  <2>1. KeepsMarked(kept, pts, marked)
    BY KeepIs
  <2> QED
    BY <2>1 DEF KeepsMarked
<1>2. ReduceDeltaDelta(pts, target) =
        IF Len(kept) <= target THEN kept ELSE ThinPoints(kept, target)
  BY DEF ReduceDeltaDelta, marked
<1> HIDE DEF kept
<1>3. Len(kept) \in Nat
  BY <1>1, LenProperties
<1>4. CASE Len(kept) <= target
  BY <1>1, <1>2, <1>4
<1>5. CASE Len(kept) > target
  <2> DEFINE out == ThinPoints(kept, target)
  <2>1. /\ out \in Seq(Points) /\ Len(out) = target
        /\ \A k \in DOMAIN out : \E i \in DOMAIN kept : out[k] = kept[i]
        /\ Ordered(kept) => Ordered(out)
    BY <1>1, <1>5, ThinIs
  <2>2. ReduceDeltaDelta(pts, target) = out
    BY <1>2, <1>3, <1>5
  <2> HIDE DEF out
  <2>3. \A k \in DOMAIN out : \E i \in DOMAIN pts : out[k] = pts[i]
    BY <1>1, <2>1
  <2> QED
    BY <1>1, <2>1, <2>2, <2>3
<1> QED
  BY <1>3, <1>4, <1>5

\* What is left of a sequence from index d on.
LEMMA SuffixIs ==
    ASSUME NEW T, NEW s \in Seq(T), NEW d \in 1 .. Len(s)
    PROVE  LET out == SubSeq(s, d, Len(s)) IN
           /\ out \in Seq(T) /\ out # <<>> /\ Len(out) = Len(s) - d + 1
           /\ DOMAIN out = 1 .. Len(out)
           /\ \A k \in DOMAIN out : out[k] = s[d + k - 1]
<1>1. Len(s) \in Nat /\ d \in Int /\ Len(s) \in Int /\ d <= Len(s)
  BY LenProperties
<1>2. \A i \in d .. Len(s) : s[i] \in T
  BY <1>1, ElementOfSeq
<1> DEFINE out == SubSeq(s, d, Len(s))
<1>3. /\ out \in Seq(T) /\ Len(out) = Len(s) - d + 1
      /\ \A k \in 1 .. Len(s) - d + 1 : out[k] = s[d + k - 1]
  BY <1>1, <1>2, SubSeqProperties
<1> HIDE DEF out
<1>4. DOMAIN out = 1 .. Len(out) /\ Len(out) # 0
  BY <1>1, <1>3, LenProperties
<1>5. out # <<>>
  BY <1>4, EmptySeq
<1> QED
  BY <1>3, <1>4, <1>5 DEF out

\* Ordered sequences, one before the other.
LEMMA ConcatOrdered ==
    ASSUME NEW a \in Seq(Points), NEW b \in Seq(Points), Ordered(a), Ordered(b),
           \A i \in DOMAIN a, j \in DOMAIN b : a[i].at < b[j].at
    PROVE  Ordered(a \o b)
<1>1. /\ a \o b \in Seq(Points) /\ Len(a \o b) = Len(a) + Len(b)
      /\ \A i \in 1 .. Len(a) + Len(b) :
           (a \o b)[i] = IF i <= Len(a) THEN a[i] ELSE b[i - Len(a)]
  BY ConcatProperties
<1>2. /\ Len(a) \in Nat /\ DOMAIN a = 1 .. Len(a)
      /\ Len(b) \in Nat /\ DOMAIN b = 1 .. Len(b)
      /\ DOMAIN (a \o b) = 1 .. Len(a) + Len(b)
  BY <1>1, LenProperties
<1> DEFINE c == a \o b
<1> HIDE DEF c
<1>3. SUFFICES ASSUME NEW i \in 1 .. Len(a) + Len(b), NEW j \in 1 .. Len(a) + Len(b),
                      i < j
               PROVE  c[i].at < c[j].at
  BY <1>2 DEF Ordered, c
<1>4. /\ c[i] = IF i <= Len(a) THEN a[i] ELSE b[i - Len(a)]
      /\ c[j] = IF j <= Len(a) THEN a[j] ELSE b[j - Len(a)]
  BY <1>1 DEF c
<1>5. CASE j <= Len(a)
  <2>1. i \in DOMAIN a /\ j \in DOMAIN a /\ c[i] = a[i] /\ c[j] = a[j]
    BY <1>2, <1>3, <1>4, <1>5
  <2> QED
    BY <1>3, <2>1 DEF Ordered
<1>6. CASE i <= Len(a) /\ ~ (j <= Len(a))
  <2>1. i \in DOMAIN a /\ j - Len(a) \in DOMAIN b /\ c[i] = a[i] /\ c[j] = b[j - Len(a)]
    BY <1>2, <1>3, <1>4, <1>6
  <2> QED
    BY <2>1
<1>7. CASE ~ (i <= Len(a))
  <2>1. /\ i - Len(a) \in DOMAIN b /\ j - Len(a) \in DOMAIN b /\ i - Len(a) < j - Len(a)
        /\ c[i] = b[i - Len(a)] /\ c[j] = b[j - Len(a)]
    BY <1>2, <1>3, <1>4, <1>7
  <2> QED
    BY <2>1 DEF Ordered
<1> QED
  BY <1>2, <1>3, <1>5, <1>6, <1>7

\* Points in order of which none is outside an interval are no more than it has
\* moments.
LEMMA OrderedIsShort ==
    ASSUME NEW s \in Seq(Points), Ordered(s), NEW lo \in Int, NEW hi \in Int, lo <= hi,
           \A i \in DOMAIN s : s[i].at >= lo /\ s[i].at <= hi
    PROVE  Len(s) <= hi - lo + 1
<1>1. Len(s) \in Nat /\ DOMAIN s = 1 .. Len(s) /\ \A i \in 1 .. Len(s) : s[i] \in Points
  BY LenProperties, ElementOfSeq
<1> DEFINE f == [i \in 1 .. Len(s) |-> s[i].at]
<1>2. f \in [1 .. Len(s) -> lo .. hi]
  BY <1>1 DEF Points
<1>3. \A i, j \in 1 .. Len(s) : f[i] = f[j] => i = j
  <2>1. \A i \in 1 .. Len(s) : s[i].at \in Int
    BY <1>1 DEF Points
  <2>2. \A i, j \in 1 .. Len(s) : i < j => s[i].at < s[j].at
    BY <1>1 DEF Ordered
  <2> QED
    BY <1>1, <2>1, <2>2
<1>4. f \in Injection(1 .. Len(s), lo .. hi)
  BY <1>2, <1>3 DEF Injection, IsInjective
<1>5. IsFiniteSet(lo .. hi) /\ Cardinality(lo .. hi) = hi - lo + 1
  BY FS_Interval
<1>6. Cardinality(1 .. Len(s)) <= Cardinality(lo .. hi)
  BY <1>4, <1>5, FS_Injection
<1>7. Cardinality(1 .. Len(s)) = Len(s)
  BY <1>1, SizeOfUpTo
<1> QED
  BY <1>5, <1>6, <1>7

\* What compress() makes of the points before the final truncation: it ends with
\* the newest point, keeps the order and the recent points, and needs no
\* truncation when the recent horizon fits.
LEMMA CompressedIs ==
    ASSUME NEW pts \in Seq(Points), pts # <<>>, NEW now \in Int,
           pts[Len(pts)].at = now
    PROVE  LET out == CompressedPoints(pts, now) IN
           /\ out \in Seq(Points) /\ out # <<>> /\ out[Len(out)].at = now
           /\ Ordered(pts) => Ordered(out)
           /\ \A i \in DOMAIN pts : pts[i].at >= now - Recent =>
                \E k \in DOMAIN out : out[k] = pts[i]
           /\ Ordered(pts) /\ Recent + 3 <= MaxPoints => Len(out) <= MaxPoints
<1> USE SizeAssumption
<1> DEFINE before == {i \in DOMAIN pts : pts[i].at < now - Recent}
           since  == {i \in DOMAIN pts : pts[i].at >= now - Recent}
           older  == Keep(pts, before)
           recent == Keep(pts, since)
           budget == Max({2, MaxPoints - Len(recent)})
           front  == IF Len(older) > budget THEN ReduceDeltaDelta(older, budget) ELSE older
           out    == CompressedPoints(pts, now)
<1>1. out = front \o recent
  BY DEF CompressedPoints
<1>2. /\ Len(pts) \in Nat \ {0} /\ DOMAIN pts = 1 .. Len(pts)
      /\ \A i \in 1 .. Len(pts) : pts[i] \in Points /\ pts[i].at \in Int
  <2>1. \A i \in 1 .. Len(pts) : pts[i] \in Points
    BY ElementOfSeq
  <2> QED
    BY <2>1, EmptySeq, LenProperties DEF Points
<1>3. Len(pts) \in since
  BY <1>2
<1>4. /\ recent \in Seq(Points) /\ recent # <<>> /\ recent[Len(recent)].at = now
      /\ \A k \in DOMAIN recent : \E i \in since : recent[k] = pts[i]
      /\ \A i \in since : \E k \in DOMAIN recent : recent[k] = pts[i]
      /\ Ordered(pts) => Ordered(recent)
  <2>1. since \cap DOMAIN pts = since
    OBVIOUS
  <2>2. KeepsMarked(recent, pts, since)
    BY KeepIs
  <2> HIDE DEF recent
  <2> QED
    BY <1>2, <1>3, <2>1, <2>2 DEF KeepsMarked
<1>5. /\ older \in Seq(Points)
      /\ \A k \in DOMAIN older : \E i \in before : older[k] = pts[i]
      /\ Ordered(pts) => Ordered(older)
  <2>1. before \cap DOMAIN pts = before
    OBVIOUS
  <2>2. KeepsMarked(older, pts, before)
    BY KeepIs
  <2> HIDE DEF older
  <2> QED
    BY <2>1, <2>2 DEF KeepsMarked
<1> HIDE DEF older, recent, out
<1>6. /\ Len(recent) \in Nat \ {0} /\ DOMAIN recent = 1 .. Len(recent)
      /\ Len(older) \in Nat
  BY <1>4, <1>5, EmptySeq, LenProperties
<1>7. /\ budget \in Nat \ {0, 1}
      /\ Len(recent) + 2 <= MaxPoints => budget = MaxPoints - Len(recent)
  BY <1>6, MaxOfTwo
<1> HIDE DEF budget
<1>8. /\ front \in Seq(Points) /\ Len(front) <= budget
      /\ \A k \in DOMAIN front : \E i \in DOMAIN older : front[k] = older[i]
      /\ Ordered(older) => Ordered(front)
  <2>1. CASE Len(older) > budget
    <3> DEFINE reduced == ReduceDeltaDelta(older, budget)
    <3>1. /\ reduced \in Seq(Points) /\ Len(reduced) <= budget
          /\ \A k \in DOMAIN reduced : \E i \in DOMAIN older : reduced[k] = older[i]
          /\ Ordered(older) => Ordered(reduced)
      BY <1>5, <1>7, ReduceIs
    <3>2. front = reduced
      BY <2>1
    <3> HIDE DEF reduced, front
    <3> QED
      BY <3>1, <3>2
  <2>2. CASE ~ (Len(older) > budget)
    BY <1>5, <1>6, <1>7, <2>2
  <2> QED
    BY <2>1, <2>2
<1> HIDE DEF front
<1>9. Len(front) \in Nat
  BY <1>8, LenProperties
<1>10. /\ out \in Seq(Points) /\ Len(out) = Len(front) + Len(recent)
       /\ \A i \in 1 .. Len(front) + Len(recent) :
            out[i] = IF i <= Len(front) THEN front[i] ELSE recent[i - Len(front)]
  BY <1>1, <1>4, <1>8, ConcatProperties
<1>11. DOMAIN out = 1 .. Len(out) /\ out # <<>>
  BY <1>6, <1>9, <1>10, EmptySeq, LenProperties
<1>12. out[Len(out)] = recent[Len(recent)]
  BY <1>6, <1>9, <1>10
<1>13. ASSUME Ordered(pts) PROVE Ordered(out)
  <2>1. \A i \in DOMAIN front, j \in DOMAIN recent : front[i].at < recent[j].at
    <3>1. \A i \in DOMAIN front : \E k \in before : front[i] = pts[k]
      BY <1>5, <1>8
    <3>2. \A k \in before, l \in since : pts[k].at < pts[l].at
      BY <1>2
    <3> HIDE DEF before, since
    <3> QED
      BY <1>4, <3>1, <3>2
  <2> QED
    BY <1>1, <1>4, <1>5, <1>8, <1>13, <2>1, ConcatOrdered
<1>14. \A i \in since : \E k \in DOMAIN out : out[k] = pts[i]
  <2>1. TAKE i \in since
  <2>2. PICK k \in DOMAIN recent : recent[k] = pts[i]
    BY <1>4
  <2>3. Len(front) + k \in DOMAIN out /\ out[Len(front) + k] = recent[k]
    BY <1>6, <1>9, <1>10, <1>11, <2>2
  <2> QED
    BY <2>2, <2>3
<1>15. ASSUME Ordered(pts), Recent + 3 <= MaxPoints PROVE Len(out) <= MaxPoints
  <2>1. \A i \in DOMAIN pts : pts[i].at <= now
    BY <1>2, <1>15 DEF Ordered
  <2>2. \A k \in DOMAIN recent : recent[k].at >= now - Recent /\ recent[k].at <= now
    BY <1>4, <2>1
  <2>3. Len(recent) <= now - (now - Recent) + 1
    <3>1. now - Recent \in Int /\ now - Recent <= now
      OBVIOUS
    <3> QED
      BY <1>4, <1>15, <2>2, <3>1, OrderedIsShort
  <2> QED
    BY <1>6, <1>7, <1>8, <1>9, <1>10, <1>15, <2>3
<1> QED
  BY <1>4, <1>10, <1>11, <1>12, <1>13, <1>14, <1>15 DEF out

\* What Observe needs to know of the trend's points: they are points, not none,
\* and end with the newest sample.
Trend(pts, now) == pts \in Seq(Points) /\ pts # <<>> /\ pts[Len(pts)].at = now

\* The points of pts since some moment are in out.
KeepsSince(out, pts, moment) ==
    \A i \in DOMAIN pts : pts[i].at >= moment => \E k \in DOMAIN out : out[k] = pts[i]

\* The truncation keeps the newest points.
LEMMA NewestIs ==
    ASSUME NEW pts, NEW now, Trend(pts, now)
    PROVE  /\ Trend(Newest(pts), now)
           /\ Len(Newest(pts)) <= MaxPoints /\ Len(Newest(pts)) <= Len(pts)
           /\ Ordered(pts) => Ordered(Newest(pts))
           /\ Len(pts) <= MaxPoints => Newest(pts) = pts
<1> USE SizeAssumption
<1>1. Len(pts) \in Nat \ {0} /\ DOMAIN pts = 1 .. Len(pts)
  BY EmptySeq, LenProperties DEF Trend
<1>2. CASE Len(pts) <= MaxPoints
  BY <1>1, <1>2 DEF Newest
<1>3. CASE Len(pts) > MaxPoints
  <2> DEFINE d == Len(pts) - MaxPoints + 1
             out == SubSeq(pts, d, Len(pts))
  <2>1. d \in 1 .. Len(pts) /\ Len(pts) - d + 1 = MaxPoints
    BY <1>1, <1>3
  <2>2. Newest(pts) = out
    BY <1>3 DEF Newest
  <2> HIDE DEF d
  <2>3. /\ out \in Seq(Points) /\ out # <<>> /\ Len(out) = MaxPoints
        /\ DOMAIN out = 1 .. Len(out)
        /\ \A k \in DOMAIN out : out[k] = pts[d + k - 1]
    BY <2>1, SuffixIs DEF Trend
  <2> HIDE DEF out
  <2>4. out[Len(out)] = pts[Len(pts)]
    BY <1>1, <2>1, <2>3
  <2>5. ASSUME Ordered(pts) PROVE Ordered(out)
    <3>1. SUFFICES ASSUME NEW i \in 1 .. Len(out), NEW j \in 1 .. Len(out), i < j
                   PROVE  out[i].at < out[j].at
      BY <2>3 DEF Ordered
    <3>2. /\ d + i - 1 \in 1 .. Len(pts) /\ d + j - 1 \in 1 .. Len(pts)
          /\ d + i - 1 < d + j - 1
      BY <1>1, <2>1, <2>3, <3>1
    <3> QED
      BY <1>1, <2>3, <2>5, <3>1, <3>2 DEF Ordered
  <2> QED
    BY <1>1, <1>3, <2>2, <2>3, <2>4, <2>5 DEF Trend
<1> QED
  BY <1>1, <1>2, <1>3

\* compress() respects the limit, and what it adds to `dropped` is at least what
\* is missing, exactly that when the recent horizon fits.
LEMMA CompressIs ==
    ASSUME NEW pts, NEW now \in Int, Trend(pts, now)
    PROVE  LET c == Compress(pts, now) IN
           /\ Trend(c.points, now) /\ Len(c.points) <= MaxPoints
           /\ Ordered(pts) => Ordered(c.points)
           /\ c.dropped \in Nat /\ c.dropped >= Len(pts) - Len(c.points)
           /\ Ordered(pts) /\ Recent + 3 <= MaxPoints =>
                /\ c.dropped = Len(pts) - Len(c.points)
                /\ KeepsSince(c.points, pts, now - Recent)
<1> USE SizeAssumption
<1> DEFINE c == Compress(pts, now)
           next == CompressedPoints(pts, now)
           kept == Newest(next)
<1>1. Len(pts) \in Nat \ {0}
  BY EmptySeq, LenProperties DEF Trend
<1>2. CASE Len(pts) <= MaxPoints
  <2>1. c = [points |-> pts, dropped |-> 0]
    BY <1>2 DEF Compress
  <2> QED
    BY <1>1, <1>2, <2>1 DEF KeepsSince
<1>3. CASE Len(pts) > MaxPoints
  <2>1. c = [points |-> kept, dropped |-> (Len(next) - Len(kept)) + (Len(pts) - Len(kept))]
    BY <1>1, <1>3 DEF Compress
  <2>2. /\ Trend(next, now)
        /\ Ordered(pts) => Ordered(next)
        /\ KeepsSince(next, pts, now - Recent)
        /\ Ordered(pts) /\ Recent + 3 <= MaxPoints => Len(next) <= MaxPoints
    BY CompressedIs DEF Trend, KeepsSince
  <2> HIDE DEF next
  <2>3. /\ Trend(kept, now)
        /\ Len(kept) <= MaxPoints /\ Len(kept) <= Len(next)
        /\ Ordered(next) => Ordered(kept)
        /\ Len(next) <= MaxPoints => kept = next
    BY <2>2, NewestIs
  <2>4. Len(next) \in Nat /\ Len(kept) \in Nat
    BY <2>2, <2>3, LenProperties DEF Trend
  <2> HIDE DEF kept
  <2>5. c.points = kept /\ c.dropped = (Len(next) - Len(kept)) + (Len(pts) - Len(kept))
    BY <2>1
  <2> HIDE DEF c
  <2> QED
    BY <1>1, <1>3, <2>2, <2>3, <2>4, <2>5 DEF c
<1> QED
  BY <1>1, <1>2, <1>3

\* trim() keeps the points of the retention and counts those it drops.
LEMMA TrimTrendIs ==
    ASSUME NEW c, NEW now \in Int, Trend(c.points, now), c.dropped \in Int
    PROVE  LET t == TrimTrend(c, now) IN
           /\ Trend(t.points, now) /\ Len(t.points) <= Len(c.points)
           /\ Ordered(c.points) => Ordered(t.points)
           /\ t.dropped = c.dropped + (Len(c.points) - Len(t.points))
           /\ KeepsSince(t.points, c.points, now - Retention)
<1> USE SizeAssumption
<1> DEFINE pts == c.points
           fresh == {i \in DOMAIN pts : ~ (pts[i].at < now - Retention)}
           d == Min(fresh)
           out == SubSeq(pts, d, Len(pts))
           t == TrimTrend(c, now)
<1>1. /\ Len(pts) \in Nat \ {0} /\ DOMAIN pts = 1 .. Len(pts)
      /\ \A i \in 1 .. Len(pts) : pts[i].at \in Int
  <2>1. \A i \in 1 .. Len(pts) : pts[i] \in Points
    BY ElementOfSeq DEF Trend
  <2> QED
    BY <2>1, EmptySeq, LenProperties DEF Trend, Points
<1>2. Len(pts) \in fresh
  BY <1>1 DEF Trend
<1>3. d \in fresh /\ \A i \in fresh : d <= i
  <2>1. fresh \in SUBSET Nat
    BY <1>1
  <2> QED
    BY <1>2, <2>1, MinIsLeast
<1>4. t = [points |-> out, dropped |-> c.dropped + (Len(pts) - Len(out))]
  BY <1>2 DEF TrimTrend, DropWhile
<1> HIDE DEF d
<1>5. d \in 1 .. Len(pts)
  BY <1>1, <1>3
<1>6. /\ out \in Seq(Points) /\ out # <<>> /\ Len(out) = Len(pts) - d + 1
      /\ DOMAIN out = 1 .. Len(out)
      /\ \A k \in DOMAIN out : out[k] = pts[d + k - 1]
  BY <1>5, SuffixIs DEF Trend
<1> HIDE DEF out
<1>7. out[Len(out)] = pts[Len(pts)]
  <2>1. Len(out) \in 1 .. Len(out) /\ d + Len(out) - 1 = Len(pts)
    BY <1>1, <1>5, <1>6
  <2> QED
    BY <1>6, <2>1
<1>8. ASSUME Ordered(pts) PROVE Ordered(out)
  <2>1. SUFFICES ASSUME NEW i \in 1 .. Len(out), NEW j \in 1 .. Len(out), i < j
                 PROVE  out[i].at < out[j].at
    BY <1>6 DEF Ordered
  <2>2. d + i - 1 \in 1 .. Len(pts) /\ d + j - 1 \in 1 .. Len(pts) /\ d + i - 1 < d + j - 1
    BY <1>1, <1>5, <1>6, <2>1
  <2> QED
    BY <1>1, <1>6, <1>8, <2>1, <2>2 DEF Ordered
<1>9. KeepsSince(out, pts, now - Retention)
  <2>1. SUFFICES ASSUME NEW i \in DOMAIN pts, pts[i].at >= now - Retention
                 PROVE  \E k \in DOMAIN out : out[k] = pts[i]
    BY DEF KeepsSince
  <2>2. i \in fresh
    BY <1>1, <2>1
  <2>3. d <= i
    BY <1>3, <2>2
  <2>4. i - d + 1 \in 1 .. Len(out) /\ d + (i - d + 1) - 1 = i
    BY <1>1, <1>5, <1>6, <2>1, <2>3
  <2> QED
    BY <1>6, <2>4
<1>10. t.points = out /\ t.dropped = c.dropped + (Len(pts) - Len(out))
  BY <1>4
<1>11. Trend(out, now) /\ Len(out) <= Len(pts)
  BY <1>1, <1>5, <1>6, <1>7 DEF Trend
<1> HIDE DEF t
<1> QED
  BY <1>8, <1>9, <1>10, <1>11 DEF t

(***************************************************************************)
(* Totals.                                                                 *)
(***************************************************************************)
\* The disjoint union whose size is Total(f).
Cells(f) == UNION {{i} \X (1 .. f[i]) : i \in DOMAIN f}

\* The total of a finite function is the number of its cells.
TotalCounts(f, D) ==
    /\ IsFiniteSet(Cells(f)) /\ Total(f) \in Nat /\ Total(f) = Cardinality(Cells(f))
    /\ \A x : x \in Cells(f) <=> \E i \in D : \E k \in 1 .. f[i] : x = <<i, k>>

\* A function into the naturals with a finite domain has a total.
LEMMA TotalFinite ==
    ASSUME NEW D, IsFiniteSet(D), NEW f \in [D -> Nat]
    PROVE  TotalCounts(f, D)
<1> DEFINE row(i) == {i} \X (1 .. f[i])
           rows == {row(i) : i \in D}
           g == [i \in D |-> row(i)]
<1>1. g \in Surjection(D, rows)
  BY DEF Surjection
<1>2. IsFiniteSet(rows)
  BY <1>1, FS_Surjection
<1>3. ASSUME NEW i \in D PROVE IsFiniteSet(row(i))
  <2>1. f[i] \in Nat
    OBVIOUS
  <2>2. IsFiniteSet({i}) /\ IsFiniteSet(1 .. f[i])
    BY <2>1, SizeOfUpTo, FS_Singleton
  <2> QED
    BY <2>2, FS_Product
<1>4. \A r \in rows : IsFiniteSet(r)
  BY <1>3
<1>5. Cells(f) = UNION rows
  BY DEF Cells
<1>6. IsFiniteSet(Cells(f))
  BY <1>2, <1>4, <1>5, FS_UNION
<1>7. Total(f) = Cardinality(Cells(f))
  BY DEF Total, Cells
<1>8. \A x : x \in Cells(f) <=> \E i \in D : \E k \in 1 .. f[i] : x = <<i, k>>
  BY <1>5
<1> QED
  BY <1>6, <1>7, <1>8, FS_CardinalityType DEF TotalCounts

\* g is f with one more at m, which may be new.
OneMore(g, E, f, D, m) ==
    /\ IsFiniteSet(D) /\ f \in [D -> Nat]
    /\ IsFiniteSet(E) /\ g \in [E -> Nat]
    /\ m \in E /\ \A i : i \in E <=> i \in D \/ i = m
    /\ \A i \in D : i # m => g[i] = f[i]
    /\ m \in D => g[m] = f[m] + 1
    /\ m \notin D => g[m] = 1

\* One cell more is one more in the total.
LEMMA TotalPlusOne ==
    ASSUME NEW g, NEW E, NEW f, NEW D, NEW m, OneMore(g, E, f, D, m)
    PROVE  Total(g) = Total(f) + 1
<1> USE DEF OneMore
<1> DEFINE x == <<m, g[m]>>
<1>1. /\ IsFiniteSet(Cells(f)) /\ Total(f) = Cardinality(Cells(f))
      /\ \A y : y \in Cells(f) <=> \E i \in D : \E k \in 1 .. f[i] : y = <<i, k>>
  BY TotalFinite DEF TotalCounts
<1>2. /\ Total(g) = Cardinality(Cells(g))
      /\ \A y : y \in Cells(g) <=> \E i \in E : \E k \in 1 .. g[i] : y = <<i, k>>
  BY TotalFinite DEF TotalCounts
<1>3. /\ g[m] \in Nat
      /\ \A k \in 1 .. g[m] : k = g[m] \/ (m \in D /\ k \in 1 .. f[m])
      /\ m \in D => /\ 1 .. f[m] \subseteq 1 .. g[m] /\ g[m] \notin 1 .. f[m]
      /\ g[m] \in 1 .. g[m]
  OBVIOUS
<1>4. x \notin Cells(f)
  BY <1>1, <1>3
<1>5. Cells(g) = Cells(f) \cup {x}
  <2>1. ASSUME NEW y \in Cells(g) PROVE y \in Cells(f) \cup {x}
    <3>1. PICK i \in E, k \in Int : k \in 1 .. g[i] /\ y = <<i, k>>
      BY <1>2, <2>1
    <3>2. CASE i = m
      BY <1>1, <1>3, <3>1, <3>2
    <3>3. CASE i # m
      BY <1>1, <3>1, <3>3
    <3> QED
      BY <3>2, <3>3
  <2>2. ASSUME NEW y \in Cells(f) PROVE y \in Cells(g)
    <3>1. PICK i \in D, k \in Int : k \in 1 .. f[i] /\ y = <<i, k>>
      BY <1>1, <2>2
    <3> QED
      BY <1>2, <1>3, <3>1
  <2>3. x \in Cells(g)
    BY <1>2, <1>3
  <2> QED
    BY <2>1, <2>2, <2>3
<1> HIDE DEF x
<1>6. Cardinality(Cells(g)) = Cardinality(Cells(f)) + 1
  <2> DEFINE C == Cells(f)
  <2>1. IsFiniteSet(C) /\ x \notin C
    BY <1>1, <1>4
  <2> HIDE DEF C
  <2>2. Cardinality(C \cup {x}) = Cardinality(C) + 1
    BY <2>1, FS_AddElement
  <2> QED
    BY <1>5, <2>2 DEF C
<1> QED
  BY <1>1, <1>2, <1>6

\* Less to add is less in total.
LEMMA TotalMonotone ==
    ASSUME NEW D, NEW E, IsFiniteSet(E), D \subseteq E,
           NEW f \in [D -> Nat], NEW g \in [E -> Nat],
           \A i \in D : f[i] <= g[i]
    PROVE  Total(f) <= Total(g)
<1>1. IsFiniteSet(D)
  BY FS_Subset
<1>2. /\ Total(f) = Cardinality(Cells(f))
      /\ \A y : y \in Cells(f) <=> \E i \in D : \E k \in 1 .. f[i] : y = <<i, k>>
  BY <1>1, TotalFinite DEF TotalCounts
<1>3. /\ IsFiniteSet(Cells(g)) /\ Total(g) = Cardinality(Cells(g))
      /\ \A y : y \in Cells(g) <=> \E i \in E : \E k \in 1 .. g[i] : y = <<i, k>>
  BY TotalFinite DEF TotalCounts
<1>4. \A i \in D : 1 .. f[i] \subseteq 1 .. g[i]
  OBVIOUS
<1>5. Cells(f) \in SUBSET Cells(g)
  BY <1>2, <1>3, <1>4
<1> QED
  BY <1>2, <1>3, <1>5, FS_Subset

\* g is f with its indices moved by n.
Shifted(g, B, f, A, n) ==
    /\ n \in Int
    /\ IsFiniteSet(A) /\ A \subseteq Int /\ f \in [A -> Nat]
    /\ IsFiniteSet(B) /\ B \subseteq Int /\ g \in [B -> Nat]
    /\ \A i \in A : i + n \in B /\ g[i + n] = f[i]
    /\ \A j \in B : j - n \in A

\* Renumbering changes no total: the cells correspond one to one.
LEMMA TotalShifted ==
    ASSUME NEW g, NEW B, NEW f, NEW A, NEW n, Shifted(g, B, f, A, n)
    PROVE  Total(f) = Total(g)
<1>1. TotalCounts(f, A) /\ TotalCounts(g, B)
  BY TotalFinite DEF Shifted
<1> USE DEF Shifted
<1>2. /\ IsFiniteSet(Cells(f)) /\ Total(f) = Cardinality(Cells(f))
      /\ \A y : y \in Cells(f) <=> \E i \in A : \E k \in 1 .. f[i] : y = <<i, k>>
  BY <1>1 DEF TotalCounts
<1>3. /\ IsFiniteSet(Cells(g)) /\ Total(g) = Cardinality(Cells(g))
      /\ \A y : y \in Cells(g) <=> \E i \in B : \E k \in 1 .. g[i] : y = <<i, k>>
  BY <1>1 DEF TotalCounts
<1> DEFINE h == [x \in Cells(f) |-> <<x[1] + n, x[2]>>]
<1>4. h \in [Cells(f) -> Cells(g)]
  <2>1. SUFFICES ASSUME NEW x \in Cells(f) PROVE <<x[1] + n, x[2]>> \in Cells(g)
    OBVIOUS
  <2>2. PICK i \in A, k \in Int : k \in 1 .. f[i] /\ x = <<i, k>>
    BY <1>2, <2>1
  <2>3. i + n \in B /\ k \in 1 .. g[i + n] /\ x[1] = i /\ x[2] = k
    BY <2>2
  <2> QED
    BY <1>3, <2>3
<1>5. \A y \in Cells(g) : \E x \in Cells(f) : h[x] = y
  <2>1. TAKE y \in Cells(g)
  <2>2. PICK j \in B, k \in Int : k \in 1 .. g[j] /\ y = <<j, k>>
    BY <1>3, <2>1
  <2>3. j - n \in A /\ (j - n) + n = j
    BY <2>2
  <2>4. k \in 1 .. f[j - n]
    BY <2>2, <2>3
  <2>5. <<j - n, k>> \in Cells(f)
    BY <1>2, <2>3, <2>4
  <2>6. h[<<j - n, k>>] = y
    BY <2>2, <2>3, <2>5
  <2> QED
    BY <2>5, <2>6
<1>6. \A x, y \in Cells(f) : h[x] = h[y] => x = y
  <2>1. TAKE x, y \in Cells(f)
  <2>2. PICK i \in A, k \in Int : k \in 1 .. f[i] /\ x = <<i, k>>
    BY <1>2, <2>1
  <2>3. PICK j \in A, l \in Int : l \in 1 .. f[j] /\ y = <<j, l>>
    BY <1>2, <2>1
  <2>4. h[x] = <<i + n, k>> /\ h[y] = <<j + n, l>>
    BY <2>1, <2>2, <2>3
  <2>5. i + n = j + n => i = j
    BY <2>2, <2>3
  <2> QED
    BY <2>2, <2>3, <2>4, <2>5
<1> HIDE DEF h
<1>7. h \in Bijection(Cells(f), Cells(g))
  BY <1>4, <1>5, <1>6 DEF Bijection, Injection, Surjection, IsInjective
<1>8. ExistsBijection(Cells(f), Cells(g))
  BY <1>7 DEF ExistsBijection
<1>9. Cardinality(Cells(g)) = Cardinality(Cells(f))
  BY <1>2, <1>8, FS_Bijection
<1> QED
  BY <1>2, <1>3, <1>9

(***************************************************************************)
(* Rates.                                                                  *)
(***************************************************************************)

\* What was generated between the samples of a sequence is at least what its
\* last sample counts more than its first: a token that is counted by the end
\* was generated before the first sample that counts it.
LEMMA ProducedAtLeast ==
    ASSUME NEW s \in Seq(Samples), s # <<>>,
           NEW p \in [1 .. Len(s) - 1 -> Nat],
           \A i \in 1 .. Len(s) - 1 : p[i] = Produced(s[i], s[i + 1]),
           s[Len(s)].tokens >= s[1].tokens
    PROVE  Total(p) \in Nat /\ s[Len(s)].tokens - s[1].tokens <= Total(p)
<1> DEFINE n == Len(s)
           D == 1 .. n - 1
           lo == s[1].tokens + 1
           hi == s[n].tokens
           since(t) == {i \in 1 .. n : s[i].tokens >= t}
           first(t) == Min(since(t))
           h == [t \in lo .. hi |-> <<first(t) - 1, t - s[first(t) - 1].tokens>>]
<1>1. n \in Nat \ {0} /\ \A i \in 1 .. n : s[i].tokens \in Nat
  <2>1. \A i \in 1 .. n : s[i] \in Samples
    BY ElementOfSeq
  <2> QED
    BY <2>1, EmptySeq DEF Samples
<1>2. lo \in Nat /\ hi \in Nat /\ lo <= hi + 1
  BY <1>1
<1>3. IsFiniteSet(D) /\ p \in [D -> Nat]
  BY <1>1, SizeOfUpTo
<1>4. /\ IsFiniteSet(Cells(p)) /\ Total(p) \in Nat /\ Total(p) = Cardinality(Cells(p))
      /\ \A x : x \in Cells(p) <=> \E i \in D : \E k \in 1 .. p[i] : x = <<i, k>>
  <2> HIDE DEF D
  <2> QED
    BY <1>3, TotalFinite DEF TotalCounts
<1> HIDE DEF n
<1>5. ASSUME NEW t \in lo .. hi
      PROVE  /\ first(t) \in 2 .. n
             /\ s[first(t) - 1].tokens < t /\ t <= s[first(t)].tokens
  <2> DEFINE j == first(t)
  <2>1. t \in Nat /\ t <= s[n].tokens /\ s[1].tokens < t
    BY <1>1, <1>2
  <2>2. n \in since(t) /\ since(t) \in SUBSET Nat
    BY <1>1, <2>1
  <2>3. j \in since(t) /\ \A i \in since(t) : j <= i
    BY <2>2, MinIsLeast
  <2> HIDE DEF j
  <2>4. j \in 1 .. n /\ s[j].tokens >= t
    BY <2>3
  <2>5. j # 1
    BY <1>1, <2>1, <2>4
  <2>6. j - 1 \in 1 .. n /\ j \in 2 .. n
    BY <1>1, <2>4, <2>5
  <2>7. ~ (s[j - 1].tokens >= t)
    BY <1>1, <2>3, <2>4, <2>6
  <2>8. s[j - 1].tokens < t /\ t <= s[j].tokens
    BY <1>1, <2>1, <2>4, <2>6, <2>7
  <2> QED
    BY <2>6, <2>8 DEF j
<1> HIDE DEF first
<1>6. ASSUME NEW t \in lo .. hi PROVE h[t] \in Cells(p)
  <2> DEFINE j == first(t)
             k == t - s[j - 1].tokens
  <2>1. j \in 2 .. n /\ s[j - 1].tokens < t /\ t <= s[j].tokens
    BY <1>5
  <2> HIDE DEF j
  <2>2. j - 1 \in D /\ (j - 1) + 1 = j /\ j - 1 \in 1 .. n /\ j \in 1 .. n
    BY <1>1, <2>1
  <2>3. p[j - 1] = Produced(s[j - 1], s[j])
    BY <2>2 DEF n
  <2>4. p[j - 1] = s[j].tokens - s[j - 1].tokens
    BY <1>1, <1>2, <2>1, <2>2, <2>3 DEF Produced
  <2>5. k \in 1 .. p[j - 1]
    <3>1. s[j].tokens \in Nat /\ s[j - 1].tokens \in Nat /\ t \in Nat
      BY <1>1, <1>2, <2>2
    <3>2. k \in Nat /\ k >= 1 /\ k <= s[j].tokens - s[j - 1].tokens
      BY <2>1, <3>1
    <3> HIDE DEF k
    <3> QED
      BY <2>4, <3>1, <3>2
  <2>6. h[t] = <<j - 1, k>>
    BY DEF j
  <2> QED
    BY <1>4, <2>2, <2>5, <2>6
<1>7. ASSUME NEW t \in lo .. hi, NEW u \in lo .. hi, h[t] = h[u] PROVE t = u
  <2>1. /\ first(t) - 1 = first(u) - 1
        /\ t - s[first(t) - 1].tokens = u - s[first(u) - 1].tokens
    BY <1>7
  <2>2. first(t) \in 2 .. n
    BY <1>5
  <2>3. s[first(t) - 1].tokens \in Nat
    BY <1>1, <2>2
  <2> QED
    BY <1>2, <2>1, <2>3
<1> DEFINE I == lo .. hi
<1>8. /\ \A t \in I : h[t] \in Cells(p)
      /\ \A t, u \in I : h[t] = h[u] => t = u
      /\ h = [t \in I |-> h[t]]
  BY <1>6, <1>7
<1>9. IsFiniteSet(I) /\ Cardinality(I) = hi - lo + 1
  <2> HIDE DEF lo, hi
  <2>1. lo \in Int /\ hi \in Int
    BY <1>2
  <2>2. IsFiniteSet(I) /\ Cardinality(I) = IF lo > hi THEN 0 ELSE hi - lo + 1
    BY <2>1, FS_Interval
  <2> QED
    BY <1>2, <2>2
<1> HIDE DEF I, h
<1>10. h \in Injection(I, Cells(p))
  BY <1>8 DEF Injection, IsInjective
<1>11. Cardinality(I) <= Cardinality(Cells(p))
  BY <1>4, <1>10, FS_Injection
<1> QED
  BY <1>1, <1>2, <1>4, <1>9, <1>11 DEF n

\* A rate between the first and the last of a run of samples is a natural number,
\* and over the time it covers is no more than what the run generated: a counter
\* that did not fall over the whole rose by at most the sum of what its steps made.
LEMMA RateBounded ==
    ASSUME NEW s \in Seq(Samples), s # <<>>, NEW rate \in CounterRate(s[1], s[Len(s)])
    PROVE  LET total == Total([i \in 1 .. Len(s) - 1 |-> Produced(s[i], s[i + 1])])
           IN  rate \in Nat /\ rate * (s[Len(s)].at - s[1].at) <= total * RateScale
<1> USE SizeAssumption
<1> DEFINE p == [i \in 1 .. Len(s) - 1 |-> Produced(s[i], s[i + 1])]
           total == Total(p)
           diff == s[Len(s)].tokens - s[1].tokens
           dt == s[Len(s)].at - s[1].at
<1>1. /\ Len(s) \in Nat \ {0}
      /\ \A i \in 1 .. Len(s) : s[i].tokens \in Nat /\ s[i].at \in Int
  <2>1. \A i \in 1 .. Len(s) : s[i] \in Samples
    BY ElementOfSeq
  <2> QED
    BY <2>1, EmptySeq DEF Samples
<1>2. /\ s[Len(s)].at > s[1].at /\ s[Len(s)].tokens >= s[1].tokens
      /\ rate = (diff * RateScale) \div dt
  BY DEF CounterRate
<1>3. p \in [1 .. Len(s) - 1 -> Nat]
  <2>1. \A i \in 1 .. Len(s) - 1 : i \in 1 .. Len(s) /\ i + 1 \in 1 .. Len(s)
    BY <1>1
  <2> QED
    BY <1>1, <2>1 DEF Produced
<1>4. total \in Nat /\ diff <= total
  <2>1. \A i \in 1 .. Len(s) - 1 : p[i] = Produced(s[i], s[i + 1])
    OBVIOUS
  <2> HIDE DEF p
  <2> QED
    BY <1>2, <1>3, <2>1, ProducedAtLeast
<1>5. diff \in Nat /\ dt \in Nat \ {0}
  BY <1>1, <1>2
<1> HIDE DEF diff, dt, total
<1>6. diff * RateScale \in Nat /\ diff * RateScale <= total * RateScale
  BY <1>4, <1>5
<1> DEFINE a == diff * RateScale
<1> HIDE DEF a
<1>7. rate \in Nat /\ dt * rate <= a
  BY <1>2, <1>5, <1>6, NaturalQuotients DEF a
<1>8. rate * dt = dt * rate
  BY <1>5, <1>7
<1>9. rate \in Nat /\ rate * dt <= total * RateScale
  BY <1>4, <1>5, <1>6, <1>7, <1>8 DEF a
<1> QED
  BY <1>9 DEF dt, total

(***************************************************************************)
(* Buckets.                                                                *)
(***************************************************************************)
\* What History.buckets holds: a bucket has counted at least one sample.
Accs == [count : Nat, min : Int, max : Int, sum : Int, last : Int]
Buckets == [start : Int, samples : Nat \ {0}, acc : [Names -> Accs]]

\* The start of the bucket a moment falls into.
Truncated(at) == at - (at % BucketWidth)

\* A moment falls into its bucket, whose start is a multiple of the width.
LEMMA TruncatedIs ==
    ASSUME NEW at \in Int
    PROVE  /\ Truncated(at) \in Int /\ Truncated(at) % BucketWidth = 0
           /\ Truncated(at) <= at /\ at < Truncated(at) + BucketWidth
           /\ Truncated(at) = BucketWidth * (at \div BucketWidth)
           /\ at \div BucketWidth \in Int
<1> DEFINE d == BucketWidth
           q == at \div d
           r == at % d
<1>1. d \in Nat \ {0}
  BY SizeAssumption
<1> HIDE DEF d
<1>2. q \in Int /\ r \in 0 .. d - 1 /\ at = d * q + r
  BY <1>1, Quotients
<1>3. (d * q) % d = 0 /\ d * q \in Int
  BY <1>1, <1>2, MultiplesLeaveNothing
<1> HIDE DEF q, r
<1>4. at - r = d * q /\ at - r <= at /\ at < at - r + d
  BY <1>1, <1>2, <1>3
<1>5. Truncated(at) = at - r
  BY DEF Truncated, r, d
<1> QED
  BY <1>2, <1>3, <1>4, <1>5 DEF q, d

\* A later moment does not fall into an earlier bucket.
LEMMA TruncatedMonotone ==
    ASSUME NEW a \in Int, NEW b \in Int, a <= b
    PROVE  Truncated(a) <= Truncated(b)
<1> DEFINE p == a \div BucketWidth
           q == b \div BucketWidth
           w == BucketWidth
<1>1. w \in Nat \ {0}
  BY SizeAssumption
<1>2. /\ p \in Int /\ Truncated(a) = w * p /\ Truncated(a) <= a
      /\ q \in Int /\ Truncated(b) = w * q /\ b < Truncated(b) + w
  BY TruncatedIs
<1> HIDE DEF p, q, w
<1>3. p <= q
  <2>1. SUFFICES ASSUME q + 1 <= p PROVE FALSE
    BY <1>2
  <2>2. w * (q + 1) <= w * p
    BY <1>1, <1>2, <2>1
  <2>3. w * (q + 1) = w * q + w
    BY <1>1, <1>2
  <2> QED
    BY <1>1, <1>2, <2>2, <2>3
<1>4. w * p <= w * q
  BY <1>1, <1>2, <1>3
<1> QED
  BY <1>2, <1>4

\* One sample more: counted by the newest bucket if that is the bucket of its
\* moment, by a bucket of its own behind the others if not.
Added(out, bs, at) ==
    /\ out \in Seq(Buckets) /\ Len(out) \in 1 .. Len(bs) + 1 /\ Len(out) >= Len(bs)
    /\ \A i \in 1 .. Len(out) - 1 : out[i] = bs[i]
    /\ out[Len(out)].start = Truncated(at)
    /\ Len(out) = Len(bs) =>
         /\ bs[Len(bs)].start = Truncated(at)
         /\ out[Len(out)].samples = bs[Len(bs)].samples + 1
    /\ Len(out) = Len(bs) + 1 =>
         /\ out[Len(out)].samples = 1
         /\ Len(bs) # 0 => bs[Len(bs)].start # Truncated(at)

\* The newest bucket's accumulator of levels goes on, or begins, with the level that
\* the sample carries, if it carries one.
AccAdded(out, bs, metrics) ==
    LET was == IF Len(out) = Len(bs) THEN bs[Len(bs)].acc["level"] ELSE EmptyAcc
    IN  out[Len(out)].acc["level"] = IF "level" \in DOMAIN metrics
                                       THEN AddValue(was, metrics["level"]) ELSE was

\* AddToBucket counts the sample once and leaves the older buckets alone.
LEMMA AddedIs ==
    ASSUME NEW bs \in Seq(Buckets), NEW at \in Int, NEW metrics \in Metrics
    PROVE  /\ Added(AddToBucket(bs, at, metrics), bs, at)
           /\ AccAdded(AddToBucket(bs, at, metrics), bs, metrics)
<1> DEFINE open == BucketFor(bs, at)
           new == [start |-> Truncated(at), samples |-> 0,
                   acc |-> [x \in Names |-> EmptyAcc]]
           n == Len(bs)
           m == Len(open)
           last == open[m]
           acc == [x \in Names |-> IF x \in DOMAIN metrics
                                    THEN AddValue(last.acc[x], metrics[x])
                                    ELSE last.acc[x]]
           filled == Filled(last, metrics)
           out == AddToBucket(bs, at, metrics)
           Open == [start : Int, samples : Nat, acc : [Names -> Accs]]
<1>1. n \in Nat /\ bs \in Seq(Open) /\ new \in Open
  <2>1. EmptyAcc \in Accs
    BY DEF EmptyAcc, Accs
  <2>2. Truncated(at) \in Int
    BY TruncatedIs
  <2>3. Buckets \subseteq Open
    BY DEF Buckets
  <2>4. bs \in Seq(Open)
    BY <2>3, SeqMonotonic
  <2> QED
    BY <2>1, <2>2, <2>4, LenProperties
<1>2. open = IF bs # <<>> /\ bs[n].start = Truncated(at) THEN bs ELSE Append(bs, new)
  BY DEF BucketFor, Truncated, Last
<1> HIDE DEF new, open, Open
<1>3. /\ open \in Seq(Open) /\ m \in Nat \ {0}
      /\ m = n \/ m = n + 1
      /\ \A i \in 1 .. n : open[i] = bs[i]
      /\ m = n => bs[n].start = Truncated(at)
      /\ m = n + 1 => open[m] = new /\ (n # 0 => bs[n].start # Truncated(at))
  <2>1. CASE bs # <<>> /\ bs[n].start = Truncated(at)
    <3>1. open = bs /\ n # 0
      BY <1>1, <1>2, <2>1, EmptySeq
    <3> QED
      BY <1>1, <2>1, <3>1
  <2>2. CASE ~ (bs # <<>> /\ bs[n].start = Truncated(at))
    <3>1. open = Append(bs, new)
      BY <1>2, <2>2
    <3>2. /\ open \in Seq(Open) /\ m = n + 1 /\ open[n + 1] = new
          /\ \A i \in 1 .. n : open[i] = bs[i]
      BY <1>1, <3>1
    <3>3. n # 0 => bs # <<>>
      BY EmptySeq
    <3> QED
      BY <1>1, <2>2, <3>2, <3>3
  <2> QED
    BY <2>1, <2>2
<1>4. last \in Open
  BY <1>3, ElementOfSeq
<1>5. acc \in [Names -> Accs]
  <2>1. \A x \in Names : last.acc[x] \in Accs
    BY <1>4 DEF Open
  <2>2. \A x \in DOMAIN metrics : metrics[x] \in Int
    BY DEF Metrics
  <2>3. ASSUME NEW a \in Accs, NEW v \in Int PROVE AddValue(a, v) \in Accs
    BY DEF AddValue, Accs
  <2> QED
    BY <2>1, <2>2, <2>3
<1>6. out = [open EXCEPT ![m] = filled]
  BY DEF AddToBucket, open
<1>7. /\ filled \in Buckets /\ filled.start = last.start
      /\ filled.samples = last.samples + 1
  <2>1. filled = [start |-> last.start, samples |-> last.samples + 1, acc |-> acc]
    BY DEF Filled
  <2>2. last.start \in Int /\ last.samples + 1 \in Nat \ {0}
    BY <1>4 DEF Open
  <2> HIDE DEF acc, last, filled
  <2> QED
    BY <1>5, <2>1, <2>2 DEF Buckets
<1>8. filled.acc["level"] = IF "level" \in DOMAIN metrics
                             THEN AddValue(last.acc["level"], metrics["level"])
                             ELSE last.acc["level"]
  BY DEF Filled, Names
<1> HIDE DEF acc, last
<1>9. /\ m = n => last.start = bs[n].start /\ last.samples = bs[n].samples
      /\ m = n => last.acc["level"] = bs[n].acc["level"]
      /\ m = n + 1 => last.start = Truncated(at) /\ last.samples = 0
      /\ m = n + 1 => last.acc["level"] = EmptyAcc
  BY <1>1, <1>3 DEF last, new, Names
<1>10. DOMAIN open = 1 .. m
  BY <1>3, LenProperties
<1> HIDE DEF filled, out, m, n
<1>11. \A i \in 1 .. m - 1 : i \in 1 .. m /\ i \in 1 .. n /\ i # m
  BY <1>1, <1>3
<1>12. out = [i \in 1 .. m |-> IF i = m THEN filled ELSE open[i]]
  BY <1>6, <1>10
<1>13. \A i \in 1 .. m - 1 : out[i] = bs[i]
  BY <1>3, <1>11, <1>12
<1>14. out[m] = filled
  BY <1>3, <1>12
<1>15. out \in [1 .. m -> Buckets]
  <2>1. \A i \in 1 .. n : bs[i] \in Buckets
    BY ElementOfSeq DEF n
  <2>2. \A i \in 1 .. m : i = m \/ i \in 1 .. m - 1
    BY <1>3
  <2>3. \A i \in 1 .. m : out[i] \in Buckets
    BY <1>7, <1>11, <1>13, <1>14, <2>1, <2>2
  <2> QED
    BY <1>12, <2>3
<1>16. out \in Seq(Buckets) /\ Len(out) = m
  BY <1>3, <1>15, FunctionIsSeq
<1>17. m \in 1 .. n + 1 /\ m >= n
  BY <1>1, <1>3
<1>18. Added(out, bs, at)
  BY <1>1, <1>3, <1>7, <1>9, <1>13, <1>14, <1>16, <1>17 DEF Added, n
<1>19. AccAdded(out, bs, metrics)
  <2>1. m = n \/ m = n + 1
    BY <1>3
  <2>2. m = n + 1 => m # n
    BY <1>1
  <2> QED
    BY <1>8, <1>9, <1>14, <1>16, <2>1, <2>2 DEF AccAdded, n
<1> QED
  BY <1>18, <1>19 DEF out

(***************************************************************************)
(* The samples that the buckets from index i on count.                     *)
(***************************************************************************)
Held(bs, i) == [j \in i .. Len(bs) |-> bs[j].samples]
\* How many that is.
From(bs, i) == Total(Held(bs, i))

\* From is a natural number, and zero only behind the last bucket.
LEMMA HeldIs ==
    ASSUME NEW bs \in Seq(Buckets), NEW i \in Nat \ {0}
    PROVE  /\ IsFiniteSet(i .. Len(bs)) /\ Held(bs, i) \in [i .. Len(bs) -> Nat]
           /\ From(bs, i) \in Nat
           /\ i > Len(bs) => From(bs, i) = 0
           /\ i <= Len(bs) => From(bs, i) > 0
<1> DEFINE f == Held(bs, i)
           D == i .. Len(bs)
<1>1. Len(bs) \in Nat /\ i \in Int /\ Len(bs) \in Int
  BY LenProperties
<1>2. IsFiniteSet(D)
  BY <1>1, FS_Interval
<1>3. \A j \in D : bs[j].samples \in Nat \ {0}
  <2>1. \A j \in D : j \in 1 .. Len(bs)
    BY <1>1
  <2>2. \A j \in 1 .. Len(bs) : bs[j] \in Buckets
    BY ElementOfSeq
  <2> QED
    BY <2>1, <2>2 DEF Buckets
<1>4. f \in [D -> Nat] /\ \A j \in D : f[j] = bs[j].samples
  BY <1>3 DEF Held
<1>5. i > Len(bs) => D = {}
  BY <1>1
<1>6. i <= Len(bs) => i \in D /\ 1 \in 1 .. f[i]
  BY <1>1, <1>3, <1>4
<1> HIDE DEF D, f
<1>7. /\ IsFiniteSet(Cells(f)) /\ Total(f) \in Nat /\ Total(f) = Cardinality(Cells(f))
      /\ \A x : x \in Cells(f) <=> \E j \in D : \E k \in 1 .. f[j] : x = <<j, k>>
  BY <1>2, <1>4, TotalFinite DEF TotalCounts
<1>8. i > Len(bs) => Cells(f) = {}
  BY <1>5, <1>7
<1>9. i <= Len(bs) => <<i, 1>> \in Cells(f)
  BY <1>6, <1>7
<1>10. /\ i > Len(bs) => Total(f) = 0
       /\ i <= Len(bs) => Total(f) # 0
  BY <1>7, <1>8, <1>9, FS_EmptySet
<1> QED
  BY <1>1, <1>2, <1>4, <1>7, <1>10 DEF From, D, f

\* A sample that is added counts in every bucket up to the one it falls into.
LEMMA AddedTotals ==
    ASSUME NEW bs \in Seq(Buckets), NEW at \in Int, NEW metrics \in Metrics,
           NEW i \in 1 .. Len(AddToBucket(bs, at, metrics))
    PROVE  From(AddToBucket(bs, at, metrics), i) = From(bs, i) + 1
<1> DEFINE out == AddToBucket(bs, at, metrics)
           n == Len(bs)
           m == Len(out)
<1>1. /\ out \in Seq(Buckets) /\ m \in 1 .. n + 1 /\ m >= n /\ i \in 1 .. m
      /\ \A j \in 1 .. m - 1 : out[j] = bs[j]
      /\ m = n => out[m].samples = bs[n].samples + 1
      /\ m = n + 1 => out[m].samples = 1
  BY AddedIs DEF Added
<1> HIDE DEF out
<1>2. n \in Nat /\ m \in Nat
  BY <1>1, LenProperties
<1> DEFINE D == i .. n
           E == i .. m
           f == Held(bs, i)
           g == Held(out, i)
<1>3. /\ IsFiniteSet(D) /\ f \in [D -> Nat]
      /\ IsFiniteSet(E) /\ g \in [E -> Nat]
  <2>1. i \in Nat \ {0}
    BY <1>1
  <2> QED
    BY <1>1, <2>1, HeldIs
<1>4. m \in E /\ \A j : j \in E <=> j \in D \/ j = m
  BY <1>1, <1>2
<1>5. \A j \in D : j # m => j \in E /\ j \in 1 .. m - 1
  BY <1>1, <1>2
<1>6. \A j \in D : j # m => g[j] = f[j]
  BY <1>1, <1>5 DEF Held
<1>7. (m \in D => g[m] = f[m] + 1) /\ (m \notin D => g[m] = 1)
  <2>1. g[m] = out[m].samples
    BY <1>4 DEF Held
  <2>2. CASE m = n
    <3>1. m \in D
      BY <1>1, <2>2
    <3> QED
      BY <1>1, <1>2, <2>1, <2>2, <3>1 DEF Held
  <2>3. CASE m = n + 1
    <3>1. m \notin D
      BY <1>2, <2>3
    <3> QED
      BY <1>1, <2>1, <2>3, <3>1
  <2> QED
    BY <1>1, <1>2, <2>2, <2>3
<1> HIDE DEF D, E, f, g, m
<1>8. Total(g) = Total(f) + 1
  <2>1. OneMore(g, E, f, D, m)
    BY <1>3, <1>4, <1>6, <1>7 DEF OneMore
  <2> QED
    BY <2>1, TotalPlusOne
<1> QED
  BY <1>8 DEF From, f, g, out

\* Buckets that are dropped take their samples along, and no others.
LEMMA DroppedTotals ==
    ASSUME NEW bs \in Seq(Buckets), NEW d \in 1 .. Len(bs),
           NEW i \in 1 .. Len(bs) - d + 2
    PROVE  From(SubSeq(bs, d, Len(bs)), i) = From(bs, d + i - 1)
<1> DEFINE out == SubSeq(bs, d, Len(bs))
<1>1. Len(bs) \in Nat /\ d \in Nat \ {0} /\ i \in Nat \ {0} /\ d + i - 1 \in Nat \ {0}
  BY LenProperties
<1>2. /\ out \in Seq(Buckets) /\ Len(out) = Len(bs) - d + 1
      /\ DOMAIN out = 1 .. Len(out)
      /\ \A k \in DOMAIN out : out[k] = bs[d + k - 1]
  BY SuffixIs
<1> HIDE DEF out
<1> DEFINE n == d - 1
           A == i .. Len(out)
           B == d + i - 1 .. Len(bs)
           f == Held(out, i)
           g == Held(bs, d + i - 1)
<1>3. /\ IsFiniteSet(A) /\ f \in [A -> Nat] /\ A \subseteq Int
      /\ IsFiniteSet(B) /\ g \in [B -> Nat] /\ B \subseteq Int
      /\ n \in Int
  <2>1. /\ IsFiniteSet(A) /\ f \in [A -> Nat]
        /\ IsFiniteSet(B) /\ g \in [B -> Nat]
    BY <1>1, <1>2, HeldIs
  <2>2. A \subseteq Int /\ B \subseteq Int /\ n \in Int
    BY <1>1
  <2> QED
    BY <2>1, <2>2
<1>4. \A j \in A : j + n \in B /\ g[j + n] = f[j]
  <2>1. TAKE j \in A
  <2>2. j \in DOMAIN out /\ j + n \in B /\ j + n = d + j - 1
    BY <1>1, <1>2
  <2>3. f[j] = out[j].samples /\ g[j + n] = bs[j + n].samples
    BY <2>2 DEF Held
  <2> QED
    BY <1>2, <2>2, <2>3
<1>5. \A j \in B : j - n \in A
  BY <1>1, <1>2
<1> HIDE DEF n, A, B, f, g
<1>6. Total(f) = Total(g)
  <2>1. Shifted(g, B, f, A, n)
    BY <1>3, <1>4, <1>5 DEF Shifted
  <2> QED
    BY <2>1, TotalShifted
<1> QED
  BY <1>6 DEF From, f, g, out

\* The later buckets count no more than the earlier ones on.
LEMMA FromMonotone ==
    ASSUME NEW bs \in Seq(Buckets), NEW c \in Nat \ {0}, NEW d \in Nat \ {0}, c <= d
    PROVE  From(bs, d) <= From(bs, c)
<1> DEFINE D == d .. Len(bs)
           E == c .. Len(bs)
           f == Held(bs, d)
           g == Held(bs, c)
<1>1. IsFiniteSet(E) /\ f \in [D -> Nat] /\ g \in [E -> Nat]
  BY HeldIs
<1>2. D \subseteq E
  BY LenProperties
<1>3. \A i \in D : f[i] = g[i]
  BY <1>2 DEF Held
<1>4. \A i \in D : f[i] <= g[i]
  BY <1>1, <1>2, <1>3
<1> HIDE DEF D, E, f, g
<1>5. Total(f) <= Total(g)
  BY <1>1, <1>2, <1>4, TotalMonotone
<1> QED
  BY <1>5 DEF From, f, g

(***************************************************************************)
(* Accumulators.                                                           *)
(***************************************************************************)
\* The accumulator is that of the values of F on D: how many, their sum, the least,
\* the greatest and the last of them.
Describes(a, F, D) ==
    /\ a.count = Cardinality(D)
    /\ a.sum = Total([k \in D |-> F[k]])
    /\ D # {} =>
         /\ \E k \in D : a.min = F[k]
         /\ \E k \in D : a.max = F[k]
         /\ \A k \in D : a.min <= F[k] /\ F[k] <= a.max
         /\ \E k \in D : a.last = F[k] /\ \A j \in D : j <= k

\* D is a finite set of moments for which F has a value.
Valued(F, D) == IsFiniteSet(D) /\ D \subseteq Int /\ \A k \in D : F[k] \in Nat

\* The total over two sets that share nothing is the sum of their totals.
LEMMA TotalOfUnion ==
    ASSUME NEW F, NEW D, NEW E, Valued(F, D), Valued(F, E), D \cap E = {}
    PROVE  Total([k \in D \cup E |-> F[k]]) =
             Total([k \in D |-> F[k]]) + Total([k \in E |-> F[k]])
<1> DEFINE U == D \cup E
           f == [k \in D |-> F[k]]
           g == [k \in E |-> F[k]]
           h == [k \in U |-> F[k]]
<1>1. /\ IsFiniteSet(D) /\ f \in [D -> Nat] /\ IsFiniteSet(E) /\ g \in [E -> Nat]
  BY DEF Valued
<1>2. IsFiniteSet(U) /\ h \in [U -> Nat]
  <2>1. IsFiniteSet(U)
    BY <1>1, FS_Union
  <2> QED
    BY <2>1 DEF Valued
<1>3. /\ \A k \in D : k \in U /\ h[k] = f[k]
      /\ \A k \in E : k \in U /\ h[k] = g[k]
      /\ \A k \in U : k \in D \/ k \in E
      /\ \A k \in D : k \notin E
  OBVIOUS
<1> HIDE DEF U, f, g, h
<1>4. TotalCounts(f, D) /\ TotalCounts(g, E) /\ TotalCounts(h, U)
  BY <1>1, <1>2, TotalFinite
<1>5. Cells(h) = Cells(f) \cup Cells(g)
  <2>1. ASSUME NEW x \in Cells(h) PROVE x \in Cells(f) \cup Cells(g)
    <3>1. PICK i \in U : \E k \in 1 .. h[i] : x = <<i, k>>
      BY <1>4, <2>1 DEF TotalCounts
    <3>2. CASE i \in D
      BY <1>3, <1>4, <3>1, <3>2 DEF TotalCounts
    <3>3. CASE i \in E
      BY <1>3, <1>4, <3>1, <3>3 DEF TotalCounts
    <3> QED
      BY <1>3, <3>2, <3>3
  <2>2. ASSUME NEW x \in Cells(f) PROVE x \in Cells(h)
    <3>1. PICK i \in D : \E k \in 1 .. f[i] : x = <<i, k>>
      BY <1>4, <2>2 DEF TotalCounts
    <3> QED
      BY <1>3, <1>4, <3>1 DEF TotalCounts
  <2>3. ASSUME NEW x \in Cells(g) PROVE x \in Cells(h)
    <3>1. PICK i \in E : \E k \in 1 .. g[i] : x = <<i, k>>
      BY <1>4, <2>3 DEF TotalCounts
    <3> QED
      BY <1>3, <1>4, <3>1 DEF TotalCounts
  <2> QED
    BY <2>1, <2>2, <2>3
<1>6. Cells(f) \cap Cells(g) = {}
  <2>1. SUFFICES ASSUME NEW x \in Cells(f), x \in Cells(g) PROVE FALSE
    OBVIOUS
  <2>2. PICK i \in D : \E k \in 1 .. f[i] : x = <<i, k>>
    BY <1>4, <2>1 DEF TotalCounts
  <2>3. PICK j \in E : \E l \in 1 .. g[j] : x = <<j, l>>
    BY <1>4, <2>1 DEF TotalCounts
  <2>4. i = j
    BY <2>2, <2>3
  <2> QED
    BY <1>3, <2>4
<1>7. Cardinality(Cells(h)) = Cardinality(Cells(f)) + Cardinality(Cells(g))
  <2>1. IsFiniteSet(Cells(f)) /\ IsFiniteSet(Cells(g))
    BY <1>4 DEF TotalCounts
  <2>2. Cardinality(Cells(f) \cup Cells(g)) =
          Cardinality(Cells(f)) + Cardinality(Cells(g))
            - Cardinality(Cells(f) \cap Cells(g))
    BY <2>1, FS_Union
  <2>3. Cardinality(Cells(f)) \in Nat /\ Cardinality(Cells(g)) \in Nat
    BY <2>1, FS_CardinalityType
  <2>4. Cardinality(Cells(f) \cap Cells(g)) = 0
    BY <1>6, FS_EmptySet
  <2> QED
    BY <1>5, <2>2, <2>3, <2>4
<1> QED
  BY <1>4, <1>7 DEF TotalCounts, f, g, h, U

\* The empty accumulator is that of no values.
LEMMA EmptyDescribes ==
    ASSUME NEW F
    PROVE  Describes(EmptyAcc, F, {}) /\ EmptyAcc \in Accs
<1> DEFINE f == [k \in {} |-> F[k]]
<1>1. Cells(f) = {}
  BY DEF Cells
<1>2. Total(f) = 0 /\ Cardinality({}) = 0
  BY <1>1, FS_EmptySet DEF Total, Cells
<1> QED
  BY <1>2 DEF Describes, EmptyAcc, Accs

\* Merging the accumulators of earlier and of later values gives that of all of them.
LEMMA MergeDescribes ==
    ASSUME NEW F, NEW D, NEW E, Valued(F, D), Valued(F, E),
           \A j \in D, k \in E : j < k,
           NEW a \in Accs, Describes(a, F, D), NEW b \in Accs, Describes(b, F, E)
    PROVE  Merge(a, b) \in Accs /\ Describes(Merge(a, b), F, D \cup E)
<1> DEFINE m == Merge(a, b)
           U == D \cup E
<1>1. D \cap E = {}
  BY DEF Valued
<1>2. /\ a.count \in Nat /\ b.count \in Nat
      /\ a.min \in Int /\ a.max \in Int /\ a.sum \in Int
      /\ b.min \in Int /\ b.max \in Int /\ b.sum \in Int /\ b.last \in Int
  BY DEF Accs
<1>3. (a.count = 0 <=> D = {}) /\ (b.count = 0 <=> E = {})
  BY FS_EmptySet DEF Describes, Valued
<1>4. m \in Accs
  BY <1>2 DEF Merge, Accs
<1>5. CASE E = {}
  <2>1. m = a /\ U = D
    BY <1>3, <1>5 DEF Merge
  <2> QED
    BY <1>4, <2>1
<1>6. CASE E # {}
  <2>1. /\ m.count = a.count + b.count /\ m.sum = a.sum + b.sum /\ m.last = b.last
        /\ m.min = IF D = {} \/ b.min < a.min THEN b.min ELSE a.min
        /\ m.max = IF D = {} \/ b.max > a.max THEN b.max ELSE a.max
    BY <1>3, <1>6 DEF Merge
  <2> HIDE DEF m
  <2>2. m.count = Cardinality(U)
    <3>1. Cardinality(U) = Cardinality(D) + Cardinality(E) - Cardinality(D \cap E)
      BY FS_Union DEF Valued
    <3>2. Cardinality(D \cap E) = 0
      BY <1>1, FS_EmptySet
    <3> QED
      BY <1>2, <2>1, <3>1, <3>2 DEF Describes
  <2>3. m.sum = Total([k \in U |-> F[k]])
    <3>1. a.sum = Total([k \in D |-> F[k]]) /\ b.sum = Total([k \in E |-> F[k]])
      BY DEF Describes
    <3>2. Total([k \in U |-> F[k]]) =
            Total([k \in D |-> F[k]]) + Total([k \in E |-> F[k]])
      BY <1>1, TotalOfUnion
    <3> QED
      BY <2>1, <3>1, <3>2
  <2>4. /\ \A k \in D : F[k] \in Int
        /\ \A k \in E : F[k] \in Int
    BY DEF Valued
  <2>5. PICK e \in E : b.min = F[e] /\ \A k \in E : b.min <= F[k]
    BY <1>6 DEF Describes
  <2>6. PICK x \in E : b.max = F[x] /\ \A k \in E : F[k] <= b.max
    BY <1>6 DEF Describes
  <2>7. PICK l \in E : b.last = F[l] /\ \A j \in E : j <= l
    BY <1>6 DEF Describes
  <2>8. D # {} => /\ \E k \in D : a.min = F[k]
                  /\ \E k \in D : a.max = F[k]
                  /\ \A k \in D : a.min <= F[k] /\ F[k] <= a.max
    BY DEF Describes
  <2>9. \E k \in U : m.min = F[k]
    BY <2>1, <2>5, <2>8
  <2>10. \E k \in U : m.max = F[k]
    BY <2>1, <2>6, <2>8
  <2>11. \A k \in U : m.min <= F[k]
    <3>1. \A k \in E : m.min <= F[k]
      BY <1>2, <2>1, <2>4, <2>5
    <3>2. \A k \in D : m.min <= F[k]
      BY <1>2, <2>1, <2>4, <2>8
    <3> QED
      BY <3>1, <3>2
  <2>12. \A k \in U : F[k] <= m.max
    <3>1. \A k \in E : F[k] <= m.max
      BY <1>2, <2>1, <2>4, <2>6
    <3>2. \A k \in D : F[k] <= m.max
      BY <1>2, <2>1, <2>4, <2>8
    <3> QED
      BY <3>1, <3>2
  <2>13. \E k \in U : m.last = F[k] /\ \A j \in U : j <= k
    <3>1. l \in U /\ m.last = F[l]
      BY <2>1, <2>7
    <3>2. \A j \in U : j <= l
      BY <2>7 DEF Valued
    <3> QED
      BY <3>1, <3>2
  <2> HIDE DEF U
  <2>14. Describes(m, F, U)
    BY <2>2, <2>3, <2>9, <2>10, <2>11, <2>12, <2>13 DEF Describes
  <2> QED
    BY <1>4, <2>14 DEF m, U
<1> QED
  BY <1>5, <1>6

\* Adding a later value to an accumulator is merging its own accumulator into it.
LEMMA AddDescribes ==
    ASSUME NEW F, NEW D, Valued(F, D), NEW k \in Int, F[k] \in Nat,
           \A j \in D : j < k, NEW a \in Accs, Describes(a, F, D)
    PROVE  AddValue(a, F[k]) \in Accs /\ Describes(AddValue(a, F[k]), F, D \cup {k})
<1> DEFINE v == F[k]
           one == [count |-> 1, min |-> v, max |-> v, sum |-> v, last |-> v]
           E == {k}
           f == [j \in E |-> F[j]]
<1>1. one \in Accs /\ v \in Nat
  BY DEF Accs
<1>2. AddValue(a, v) = Merge(a, one)
  BY DEF AddValue, Merge
<1>3. Valued(F, E) /\ Cardinality(E) = 1
  BY FS_Singleton DEF Valued
<1>4. Total(f) = v
  <2> DEFINE row == 1 .. v
             g == [i \in row |-> <<k, i>>]
  <2>1. Cells(f) = {<<k, i>> : i \in row}
    BY DEF Cells
  <2>2. g \in Bijection(row, Cells(f))
    BY <2>1 DEF Bijection, Injection, Surjection, IsInjective
  <2>3. IsFiniteSet(row) /\ Cardinality(row) = v
    BY <1>1, SizeOfUpTo
  <2>4. Total(f) = Cardinality(Cells(f))
    BY DEF Total, Cells
  <2> HIDE DEF row, f, v
  <2> QED
    BY <1>1, <2>2, <2>3, <2>4, FS_Bijection DEF ExistsBijection
<1>5. Describes(one, F, E)
  <2>1. one.count = 1 /\ one.sum = v /\ one.min = v /\ one.max = v /\ one.last = v
    OBVIOUS
  <2> HIDE DEF one
  <2> QED
    BY <1>1, <1>3, <1>4, <2>1 DEF Describes
<1>6. \A j \in D, l \in E : j < l
  OBVIOUS
<1> HIDE DEF one, E
<1>7. Merge(a, one) \in Accs /\ Describes(Merge(a, one), F, D \cup E)
  BY <1>1, <1>3, <1>5, <1>6, MergeDescribes
<1> QED
  BY <1>2, <1>7 DEF E

\* What describes F on D describes whatever agrees with F there.
LEMMA SameDescribes ==
    ASSUME NEW F, NEW G, NEW D, \A k \in D : F[k] = G[k], NEW a, Describes(a, F, D)
    PROVE  Describes(a, G, D)
<1>1. [k \in D |-> F[k]] = [k \in D |-> G[k]]
  OBVIOUS
<1> QED
  BY <1>1 DEF Describes

\* What History.Stats() has merged after each of the first n accumulators of s.
Merges(s, n, g) ==
    g = [i \in 0 .. n |-> IF i = 0 THEN EmptyAcc ELSE Merge(g[i - 1], s[i])]

\* There is such a function: the recursion of Stats defines one.
LEMMA MergesExist ==
    ASSUME NEW s, NEW n \in Nat
    PROVE  \E g : Merges(s, n, g)
<1> DEFINE Missing == {k \in Nat : ~ \E g : Merges(s, k, g)}
           k == Min(Missing)
<1>1. SUFFICES ASSUME n \in Missing PROVE FALSE
  OBVIOUS
<1>2. k \in Missing /\ \A j \in Missing : k <= j
  <2>1. Missing \in SUBSET Nat /\ Missing # {}
    BY <1>1
  <2> HIDE DEF Missing
  <2> QED
    BY <2>1, MinIsLeast
<1> HIDE DEF k
<1>3. CASE k = 0
  <2> DEFINE g == [i \in 0 .. 0 |-> EmptyAcc]
  <2>1. g = [i \in 0 .. 0 |-> IF i = 0 THEN EmptyAcc ELSE Merge(g[i - 1], s[i])]
    OBVIOUS
  <2> QED
    BY <1>2, <1>3, <2>1 DEF Merges
<1>4. CASE k # 0
  <2>1. k - 1 \in Nat /\ k \in Nat /\ k - 1 \notin Missing
    BY <1>2, <1>4
  <2>2. PICK g : Merges(s, k - 1, g)
    BY <2>1
  <2> DEFINE h == [i \in 0 .. k |-> IF i = k THEN Merge(g[k - 1], s[k]) ELSE g[i]]
  <2>3. \A i \in 0 .. k - 1 : g[i] = IF i = 0 THEN EmptyAcc ELSE Merge(g[i - 1], s[i])
    BY <2>2 DEF Merges
  <2>4. /\ h[k] = Merge(g[k - 1], s[k])
        /\ \A i \in 0 .. k - 1 : h[i] = g[i]
    BY <2>1
  <2>5. ASSUME NEW i \in 0 .. k
        PROVE  h[i] = IF i = 0 THEN EmptyAcc ELSE Merge(h[i - 1], s[i])
    <3>1. CASE i = k
      <4>1. h[k - 1] = g[k - 1]
        BY <1>4, <2>1, <2>4
      <4> QED
        BY <1>4, <2>4, <3>1, <4>1
    <3>2. CASE i # k
      <4>1. i \in 0 .. k - 1 /\ (i # 0 => i - 1 \in 0 .. k - 1)
        BY <2>1, <2>5, <3>2
      <4> QED
        BY <2>3, <2>4, <4>1
    <3> QED
      BY <3>1, <3>2
  <2>6. h = [i \in 0 .. k |-> IF i = 0 THEN EmptyAcc ELSE Merge(h[i - 1], s[i])]
    <3>1. h = [i \in 0 .. k |-> h[i]]
      OBVIOUS
    <3> HIDE DEF h
    <3> QED
      BY <2>5, <3>1
  <2> QED
    BY <1>2, <2>6 DEF Merges
<1> QED
  BY <1>3, <1>4

\* Stats merges the accumulators of the buckets in their order.
LEMMA StatsMerges ==
    ASSUME NEW x, Len(buckets) \in Nat
    PROVE  \E g :
             /\ Merges([i \in 1 .. Len(buckets) |-> buckets[i].acc[x]], Len(buckets), g)
             /\ Stats(x) = g[Len(buckets)]
<1> DEFINE n == Len(buckets)
           s == [i \in 1 .. n |-> buckets[i].acc[x]]
           merged[i \in 0 .. Len(buckets)] ==
             IF i = 0 THEN EmptyAcc ELSE Merge(merged[i - 1], buckets[i].acc[x])
<1>1. Stats(x) = merged[n]
  BY DEF Stats
<1>2. PICK g : Merges(s, n, g)
  BY MergesExist
<1>3. \A i \in 0 .. n : i # 0 => s[i] = buckets[i].acc[x]
  OBVIOUS
<1>4. g = [i \in 0 .. n |-> IF i = 0 THEN EmptyAcc ELSE Merge(g[i - 1], buckets[i].acc[x])]
  BY <1>2, <1>3 DEF Merges
<1>5. merged = [i \in 0 .. n |->
                  IF i = 0 THEN EmptyAcc ELSE Merge(merged[i - 1], buckets[i].acc[x])]
  BY <1>4
<1> HIDE DEF merged
<1>6. merged = [i \in 0 .. n |-> IF i = 0 THEN EmptyAcc ELSE Merge(merged[i - 1], s[i])]
  BY <1>3, <1>5
<1>7. Merges(s, n, merged)
  BY <1>6 DEF Merges
<1> QED
  BY <1>1, <1>7

(***************************************************************************)
(* The inductive invariant.                                                *)
(***************************************************************************)
Types ==
    /\ clock \in Int /\ stepped \in BOOLEAN
    /\ log \in Seq(Samples) /\ window \in Seq(Samples) /\ previous \in SUBSET Samples
    /\ buckets \in Seq(Buckets) /\ points \in Seq(Points) /\ dropped \in Nat
    /\ \A i \in DOMAIN buckets : buckets[i].start % BucketWidth = 0

\* The clock shows when the newest sample was taken, and no earlier one is newer
\* unless the clock stepped back.
LogInv ==
    /\ log # <<>> => log[Len(log)].at = clock
    /\ ~stepped => \A k \in DOMAIN log : log[k].at <= clock

\* The trend ends with the newest sample, stays within --trend-points and in order,
\* and accounts for what it dropped.
TrendInv ==
    /\ log # <<>> => Trend(points, clock)
    /\ log = <<>> => points = <<>>
    /\ Len(points) <= MaxPoints
    /\ ~stepped => Ordered(points)
    /\ DropsCounted

\* The buckets ascend; every sample up to the last one a bucket counts is older
\* than the bucket's end, and every sample that no bucket counts is older than the
\* retention.
BucketsFit(bs, samples, now) ==
    /\ \A i, j \in DOMAIN bs : i < j => bs[i].start < bs[j].start
    /\ \A i \in DOMAIN bs, k \in DOMAIN samples :
         k <= Len(samples) - From(bs, i + 1) => samples[k].at < bs[i].start + BucketWidth
    /\ \A k \in DOMAIN samples :
         k <= Len(samples) - From(bs, 1) => samples[k].at < now - Retention

\* The buckets count no more than was observed and end with the bucket of the
\* newest sample; unless the clock stepped back they fit the log, and the first of
\* them reaches into the retention.
BucketInv ==
    /\ From(buckets, 1) <= Len(log)
    /\ log # <<>> => /\ buckets # <<>>
                     /\ buckets[Len(buckets)].start = Truncated(clock)
    /\ ~stepped => /\ BucketsFit(buckets, log, clock)
                   /\ log # <<>> => buckets[1].start + BucketWidth >= clock - Retention

\* The samples that show a level, and the level they show.
Shown(samples) == {k \in DOMAIN samples : samples[k].level # {}}
Levels(samples) == [k \in Shown(samples) |-> CHOOSE v \in samples[k].level : TRUE]

\* Those of them that bucket i counts.
ShownIn(bs, i, samples) ==
    Shown(samples) \cap (Len(samples) - From(bs, i) + 1 .. Len(samples) - From(bs, i + 1))

\* Every bucket has accumulated the levels of the samples it counts.
AccsFit(bs, samples) ==
    \A i \in DOMAIN bs :
      Describes(bs[i].acc["level"], Levels(samples), ShownIn(bs, i, samples))

\* The inductive invariant.
IInv == Types /\ LogInv /\ TrendInv /\ BucketInv /\ AccsFit(buckets, log)

(***************************************************************************)
(* A turn of the poller.                                                   *)
(***************************************************************************)
\* A turn of the poller that observed `sample`: unless the clock stepped back, it is
\* later than every earlier one.
Polled(sample) ==
    /\ sample \in Samples /\ sample.at = clock' /\ clock' \in Int
    /\ Observe(sample)
    /\ stepped' \in BOOLEAN
    /\ ~stepped' => ~stepped /\ clock' > clock

\* Every step is such a turn.
LEMMA NextPolls ==
    ASSUME Types, Next
    PROVE  \E sample : Polled(sample)
<1> USE DEF Types
<1>1. ASSUME NEW t \in Int, PollAt(t)
      PROVE  \E sample : /\ sample \in Samples /\ sample.at = clock' /\ clock' \in Int
                         /\ Observe(sample)
  <2>1. PICK reading \in Readings :
          Observe([at |-> t, tokens |-> TokensAfter(reading), level |-> reading.level])
    BY <1>1 DEF PollAt
  <2>2. reading.growth \in Nat /\ reading.level \in SUBSET Nat
    BY ReadingsAssumption
  <2>3. log # <<>> => Last(log).tokens \in Nat
    <3>1. SUFFICES ASSUME log # <<>> PROVE log[Len(log)] \in Samples
      BY DEF Last, Samples
    <3>2. Len(log) \in 1 .. Len(log)
      BY <3>1, EmptySeq
    <3> QED
      BY <3>2, ElementOfSeq
  <2>4. TokensAfter(reading) \in Nat
    BY <2>2, <2>3 DEF TokensAfter
  <2> DEFINE sample == [at |-> t, tokens |-> TokensAfter(reading), level |-> reading.level]
  <2>5. sample \in Samples /\ sample.at = t /\ clock' = t
    BY <1>1, <2>2, <2>4 DEF Samples, PollAt
  <2> QED
    BY <2>1, <2>5
<1>2. CASE Poll
  <2>1. PICK dt \in Intervals : PollAt(clock + dt)
    BY <1>2 DEF Poll
  <2>2. clock + dt \in Int /\ clock + dt > clock
    BY TimeAssumption
  <2>3. clock' = clock + dt /\ stepped' = stepped
    BY <1>2, <2>1 DEF Poll, PollAt
  <2> QED
    BY <1>1, <2>1, <2>2, <2>3 DEF Polled
<1>3. CASE PollAfterSetback
  <2>1. PICK back \in Setbacks : PollAt(clock - back)
    BY <1>3 DEF PollAfterSetback
  <2>2. clock - back \in Int
    BY TimeAssumption
  <2>3. stepped' = TRUE
    BY <1>3 DEF PollAfterSetback
  <2> QED
    BY <1>1, <2>1, <2>2, <2>3 DEF Polled
<1> QED
  BY <1>2, <1>3 DEF Next

\* A sample carries integer values of the known metrics.
LEMMA MetricsType ==
    ASSUME Types, NEW sample \in Samples
    PROVE  /\ MetricsOf(sample) \in Metrics
           /\ "level" \in DOMAIN MetricsOf(sample) <=> sample.level # {}
           /\ sample.level # {} =>
                MetricsOf(sample)["level"] = CHOOSE v \in sample.level : TRUE
<1> DEFINE rate == UNION {CounterRate(p, sample) : p \in previous}
           D == {m \in Names : IF m = "rate" THEN rate # {} ELSE sample.level # {}}
           value(n) == IF n = "rate" THEN CHOOSE v \in rate : TRUE
                                     ELSE CHOOSE v \in sample.level : TRUE
<1>1. rate \subseteq Int
  <2>1. ASSUME NEW p \in Samples PROVE CounterRate(p, sample) \subseteq Int
    <3> DEFINE a == (sample.tokens - p.tokens) * RateScale
               d == sample.at - p.at
    <3>1. sample.at \in Int /\ p.at \in Int /\ sample.tokens \in Nat /\ p.tokens \in Nat
      BY DEF Samples
    <3>2. a \in Int /\ d \in Int
      BY <3>1, SizeAssumption
    <3>3. CASE sample.at > p.at
      <4>1. d \in Nat \ {0}
        BY <3>1, <3>3
      <4> HIDE DEF a, d
      <4>2. a \div d \in Int
        BY <3>2, <4>1, Quotients
      <4> QED
        BY <4>2 DEF CounterRate, a, d
    <3>4. CASE ~ (sample.at > p.at)
      BY <3>4 DEF CounterRate
    <3> QED
      BY <3>3, <3>4
  <2> QED
    BY <2>1 DEF Types
<1>2. sample.level \subseteq Int
  BY DEF Samples
<1> HIDE DEF rate
<1>3. \A n \in D : value(n) \in Int
  BY <1>1, <1>2
<1>4. MetricsOf(sample) = [n \in D |-> value(n)]
  BY DEF MetricsOf, rate
<1>5. /\ "level" \in D <=> sample.level # {}
      /\ value("level") = CHOOSE v \in sample.level : TRUE
  BY DEF Names
<1> HIDE DEF value
<1>6. D \in SUBSET Names
  OBVIOUS
<1> HIDE DEF D
<1>7. [n \in D |-> value(n)] \in [D -> Int]
  BY <1>3
<1> QED
  BY <1>4, <1>5, <1>6, <1>7 DEF Metrics

\* Trimming leaves a suffix.
LEMMA WindowType ==
    ASSUME Types, NEW sample, Polled(sample)
    PROVE  window' \in Seq(Samples)
<1> DEFINE s == Append(window, sample)
           fresh == {i \in DOMAIN s : ~ (s[i].at < sample.at - Window)}
<1>1. s \in Seq(Samples)
  BY DEF Types, Polled
<1>2. window' = IF fresh = {} THEN <<>> ELSE SubSeq(s, Min(fresh), Len(s))
  BY DEF Polled, Observe, TrimWindow, DropWhile
<1> HIDE DEF s
<1>3. CASE fresh = {}
  BY <1>2, <1>3, EmptySeq
<1>4. CASE fresh # {}
  <2>1. DOMAIN s = 1 .. Len(s) /\ fresh \in SUBSET Nat
    BY <1>1, LenProperties
  <2>2. Min(fresh) \in 1 .. Len(s)
    BY <1>4, <2>1, MinIsLeast
  <2> QED
    BY <1>1, <1>2, <1>4, <2>2, SuffixIs
<1> QED
  BY <1>3, <1>4

\* A turn adds its sample behind the log and keeps LogInv.
LEMMA LogStep ==
    ASSUME Types, LogInv, NEW sample, Polled(sample)
    PROVE  /\ log' \in Seq(Samples) /\ Len(log') = Len(log) + 1 /\ log' # <<>>
           /\ Len(log) \in Nat
           /\ DOMAIN log = 1 .. Len(log) /\ DOMAIN log' = 1 .. Len(log) + 1
           /\ \A k \in DOMAIN log : log'[k] = log[k] /\ log[k].at \in Int
           /\ log'[Len(log) + 1] = sample
           /\ LogInv'
<1>1. log' = Append(log, sample) /\ sample \in Samples /\ log \in Seq(Samples)
  BY DEF Polled, Observe, Types
<1>2. Len(log) \in Nat /\ DOMAIN log = 1 .. Len(log)
  BY <1>1, LenProperties
<1>3. /\ log' \in Seq(Samples) /\ Len(log') = Len(log) + 1
      /\ \A k \in 1 .. Len(log) : log'[k] = log[k]
      /\ log'[Len(log) + 1] = sample
  BY <1>1, <1>2
<1>4. DOMAIN log' = 1 .. Len(log) + 1 /\ log' # <<>>
  BY <1>2, <1>3, EmptySeq, LenProperties
<1>5. \A k \in 1 .. Len(log) : log[k].at \in Int
  <2>1. \A k \in 1 .. Len(log) : log[k] \in Samples
    BY <1>1, ElementOfSeq
  <2> QED
    BY <2>1 DEF Samples
<1>6. LogInv'
  <2>1. log'[Len(log')].at = clock'
    BY <1>3 DEF Polled
  <2>2. ASSUME ~stepped', NEW k \in DOMAIN log' PROVE log'[k].at <= clock'
    <3>1. clock \in Int /\ clock' \in Int /\ clock' > clock /\ ~stepped
      BY <2>2 DEF Polled, Types
    <3>2. CASE k \in DOMAIN log
      <4>1. log[k].at <= clock
        BY <3>1, <3>2 DEF LogInv
      <4> QED
        BY <1>2, <1>3, <1>5, <3>1, <3>2, <4>1
    <3>3. CASE k = Len(log) + 1
      BY <1>3, <3>1, <3>3 DEF Polled
    <3> QED
      BY <1>2, <1>4, <2>2, <3>2, <3>3
  <2> QED
    BY <2>1, <2>2 DEF LogInv
<1> QED
  BY <1>2, <1>3, <1>4, <1>5, <1>6

\* A turn keeps TrendInv: Append, then compress(), then trim().
LEMMA TrendStep ==
    ASSUME Types, LogInv, TrendInv, NEW sample, Polled(sample)
    PROVE  points' \in Seq(Points) /\ dropped' \in Nat /\ TrendInv'
<1> USE SizeAssumption
<1> DEFINE p == [at |-> sample.at, metrics |-> MetricsOf(sample)]
           now == sample.at
           pts == Append(points, p)
           c == Compress(pts, now)
           t == TrimTrend(c, now)
<1>1. points' = t.points /\ dropped' = dropped + t.dropped
  BY DEF Polled, Observe
<1>2. p \in Points /\ p.at = now /\ now \in Int /\ now = clock'
  BY MetricsType DEF Polled, Points, Samples
<1> HIDE DEF p
<1>3. /\ points \in Seq(Points) /\ Len(points) \in Nat /\ DOMAIN points = 1 .. Len(points)
      /\ \A i \in 1 .. Len(points) : points[i].at \in Int
  <2>1. \A i \in 1 .. Len(points) : points[i] \in Points
    BY ElementOfSeq DEF Types
  <2> QED
    BY <2>1, LenProperties DEF Types, Points
<1>4. /\ pts \in Seq(Points) /\ Len(pts) = Len(points) + 1
      /\ \A i \in 1 .. Len(points) : pts[i] = points[i]
      /\ pts[Len(points) + 1] = p
  BY <1>2, <1>3
<1> HIDE DEF pts
<1>5. DOMAIN pts = 1 .. Len(points) + 1 /\ Trend(pts, now)
  BY <1>2, <1>3, <1>4, EmptySeq, LenProperties DEF Trend
<1>6. ASSUME ~stepped' PROVE Ordered(pts)
  <2>1. clock \in Int /\ now > clock /\ ~stepped /\ Ordered(points)
    BY <1>2, <1>6 DEF Polled, Types, TrendInv
  <2>2. \A i \in 1 .. Len(points) : points[i].at <= clock
    <3>1. TAKE i \in 1 .. Len(points)
    <3>2. Trend(points, clock)
      BY <1>3, <3>1 DEF TrendInv
    <3>3. points[Len(points)].at = clock /\ Len(points) \in 1 .. Len(points)
      BY <1>3, <3>1, <3>2 DEF Trend
    <3> QED
      BY <1>3, <2>1, <3>1, <3>3 DEF Ordered
  <2>3. SUFFICES ASSUME NEW i \in 1 .. Len(points) + 1,
                        NEW j \in 1 .. Len(points) + 1, i < j
                 PROVE  pts[i].at < pts[j].at
    BY <1>5 DEF Ordered
  <2>4. i \in 1 .. Len(points)
    BY <1>3, <2>3
  <2>5. CASE j \in 1 .. Len(points)
    BY <1>3, <1>4, <2>1, <2>3, <2>4, <2>5 DEF Ordered
  <2>6. CASE j = Len(points) + 1
    BY <1>2, <1>3, <1>4, <2>1, <2>2, <2>4, <2>6
  <2> QED
    BY <1>3, <2>3, <2>5, <2>6
<1>7. /\ Trend(c.points, now) /\ Len(c.points) <= MaxPoints
      /\ Ordered(pts) => Ordered(c.points)
      /\ c.dropped \in Nat /\ c.dropped >= Len(pts) - Len(c.points)
      /\ Ordered(pts) /\ Recent + 3 <= MaxPoints =>
           /\ c.dropped = Len(pts) - Len(c.points)
           /\ KeepsSince(c.points, pts, now - Recent)
  BY <1>2, <1>5, CompressIs
<1> HIDE DEF c
<1>8. /\ Trend(t.points, now) /\ Len(t.points) <= Len(c.points)
      /\ Ordered(c.points) => Ordered(t.points)
      /\ t.dropped = c.dropped + (Len(c.points) - Len(t.points))
      /\ KeepsSince(t.points, c.points, now - Retention)
  <2>1. c.dropped \in Int
    BY <1>7
  <2> QED
    BY <1>2, <1>7, <2>1, TrimTrendIs
<1> HIDE DEF t
<1>9. /\ Len(c.points) \in Nat /\ Len(t.points) \in Nat
      /\ t.points \in Seq(Points) /\ dropped \in Nat
  BY <1>7, <1>8, LenProperties DEF Trend, Types
<1> DEFINE added == t.dropped
           kept == Len(t.points)
<1>10. /\ points' \in Seq(Points) /\ dropped' = dropped + added
       /\ kept \in Nat /\ kept = Len(points') /\ kept <= MaxPoints
       /\ added \in Nat /\ added >= Len(points) + 1 - kept
  <2> DEFINE cut == c.dropped
             left == Len(c.points)
  <2>1. added = cut + (left - kept) /\ kept <= left
    BY <1>8
  <2>2. left <= MaxPoints /\ cut \in Nat /\ cut >= Len(pts) - left
    BY <1>7
  <2>3. left \in Nat /\ kept \in Nat
    BY <1>9
  <2> HIDE DEF added, kept, cut, left
  <2>4. added \in Nat /\ added >= Len(points) + 1 - kept /\ kept <= MaxPoints
    BY <1>3, <1>4, <2>1, <2>2, <2>3
  <2> QED
    BY <1>1, <1>9, <2>4 DEF added, kept
<1> HIDE DEF added, kept
<1>11. /\ Len(log) \in Nat /\ Len(log') = Len(log) + 1 /\ log' # <<>>
       /\ DOMAIN log = 1 .. Len(log) /\ DOMAIN log' = 1 .. Len(log) + 1
       /\ \A k \in DOMAIN log : log'[k] = log[k] /\ log[k].at \in Int
       /\ log'[Len(log) + 1] = sample
  BY LogStep
<1>12. dropped' >= Len(log') - Len(points')
  <2>1. dropped >= Len(log) - Len(points)
    BY DEF TrendInv, DropsCounted
  <2> QED
    BY <1>3, <1>9, <1>10, <1>11, <2>1
<1>13. ASSUME ~stepped', Recent + 3 <= MaxPoints
       PROVE  /\ dropped' = Len(log') - Len(points')
              /\ Recent <= Retention => RecentKeptRaw'
  <2>1. ~stepped /\ clock \in Int /\ now > clock
    BY <1>2, <1>13 DEF Polled, Types
  <2>2. /\ dropped = Len(log) - Len(points)
        /\ Recent <= Retention => RecentKeptRaw
    BY <1>13, <2>1 DEF TrendInv, DropsCounted
  <2>3. /\ c.dropped = Len(pts) - Len(c.points)
        /\ KeepsSince(c.points, pts, now - Recent)
    BY <1>6, <1>7, <1>13
  <2>4. dropped' = Len(log') - Len(points')
    BY <1>1, <1>3, <1>4, <1>8, <1>9, <1>11, <2>2, <2>3
  <2>5. ASSUME Recent <= Retention, NEW k \in DOMAIN log', log'[k].at >= now - Recent
        PROVE  \E i \in DOMAIN points' : points'[i].at = log'[k].at
    <3>1. CASE k = Len(log) + 1
      <4>1. Len(t.points) \in DOMAIN t.points /\ t.points[Len(t.points)].at = now
        BY <1>8, <1>9, EmptySeq, LenProperties DEF Trend
      <4> QED
        BY <1>1, <1>11, <3>1, <4>1
    <3>2. CASE k \in DOMAIN log
      <4>1. log[k].at >= clock - Recent /\ log[Len(log)].at = clock
        <5>1. log'[k] = log[k] /\ log[k].at \in Int
          BY <1>11, <3>2
        <5>2. log # <<>>
          BY <1>11, <3>2, EmptySeq
        <5> QED
          BY <1>2, <2>1, <2>5, <5>1, <5>2 DEF LogInv
      <4>2. PICK i \in DOMAIN points : points[i].at = log[k].at
        BY <2>1, <2>2, <2>5, <3>2, <4>1 DEF RecentKeptRaw, Last
      <4>3. i \in DOMAIN pts /\ pts[i] = points[i]
        BY <1>3, <1>4, <1>5, <4>2
      <4>4. pts[i].at = log'[k].at /\ pts[i].at >= now - Recent
        BY <1>11, <2>5, <3>2, <4>2, <4>3
      <4>5. PICK j \in DOMAIN c.points : c.points[j] = pts[i]
        BY <2>3, <4>3, <4>4 DEF KeepsSince
      <4>6. c.points[j].at >= now - Retention
        <5>1. pts[i].at \in Int
          BY <1>3, <4>2, <4>3
        <5> QED
          BY <1>2, <2>5, <4>4, <4>5, <5>1
      <4>7. PICK l \in DOMAIN t.points : t.points[l] = c.points[j]
        BY <1>8, <4>6 DEF KeepsSince
      <4> QED
        BY <1>1, <4>4, <4>5, <4>7
    <3> QED
      BY <1>11, <2>5, <3>1, <3>2
  <2>6. Last(log)' = sample
    BY <1>11 DEF Last
  <2> QED
    BY <2>4, <2>5, <2>6 DEF RecentKeptRaw
<1>14. DropsCounted'
  BY <1>12, <1>13 DEF DropsCounted
<1>15. Trend(points, clock)' /\ (~stepped' => Ordered(points)')
  BY <1>1, <1>2, <1>6, <1>7, <1>8 DEF Trend, Ordered
<1>16. points' \in Seq(Points) /\ dropped' \in Nat /\ Len(points') <= MaxPoints
  BY <1>9, <1>10
<1> QED
  BY <1>11, <1>14, <1>15, <1>16 DEF TrendInv

\* Adding a sample to its bucket.
LEMMA BucketGrows ==
    ASSUME Types, LogInv, BucketInv, NEW sample, Polled(sample)
    PROVE  LET bs == AddToBucket(buckets, sample.at, MetricsOf(sample)) IN
           /\ Added(bs, buckets, sample.at)
           /\ From(bs, 1) <= Len(log')
           /\ ~stepped' => BucketsFit(bs, log', sample.at)
<1> USE SizeAssumption
<1> DEFINE now == sample.at
           metrics == MetricsOf(sample)
           bs == AddToBucket(buckets, now, metrics)
           n == Len(buckets)
           m == Len(bs)
<1>1. now \in Int /\ now = clock' /\ metrics \in Metrics /\ buckets \in Seq(Buckets)
  BY MetricsType DEF Polled, Samples, Types
<1> HIDE DEF metrics
<1>2. Added(bs, buckets, now)
  BY <1>1, AddedIs
<1>3. \A i \in 1 .. m : From(bs, i) = From(buckets, i) + 1
  BY <1>1, AddedTotals
<1> HIDE DEF bs
<1>4. /\ n \in Nat /\ m \in Nat \ {0} /\ m <= n + 1 /\ n <= m
      /\ bs \in Seq(Buckets) /\ DOMAIN bs = 1 .. m /\ DOMAIN buckets = 1 .. n
      /\ \A i \in 1 .. m - 1 : bs[i] = buckets[i] /\ i \in 1 .. n
      /\ bs[m].start = Truncated(now)
  <2>1. /\ bs \in Seq(Buckets) /\ n \in Nat /\ m \in 1 .. n + 1 /\ m >= n
        /\ DOMAIN bs = 1 .. m /\ DOMAIN buckets = 1 .. n
        /\ \A i \in 1 .. m - 1 : bs[i] = buckets[i]
        /\ bs[m].start = Truncated(now)
    BY <1>1, <1>2, LenProperties DEF Added
  <2> HIDE DEF m, n
  <2> QED
    BY <2>1
<1>5. /\ m = n => bs[m].start = buckets[n].start
      /\ m = n + 1 /\ n # 0 => buckets[n].start # Truncated(now)
  BY <1>2 DEF Added
<1> HIDE DEF m, n
<1>6. /\ Len(log) \in Nat /\ Len(log') = Len(log) + 1 /\ log' # <<>>
      /\ DOMAIN log = 1 .. Len(log) /\ DOMAIN log' = 1 .. Len(log) + 1
      /\ \A k \in DOMAIN log : log'[k] = log[k] /\ log[k].at \in Int
      /\ log'[Len(log) + 1] = sample /\ LogInv'
  BY LogStep
<1>7. \A i \in Nat \ {0} : From(buckets, i) \in Nat
  BY <1>1, HeldIs
<1>8. From(bs, 1) <= Len(log')
  <2>1. From(buckets, 1) <= Len(log)
    BY DEF BucketInv
  <2>2. From(bs, 1) = From(buckets, 1) + 1
    BY <1>3, <1>4
  <2> QED
    BY <1>6, <1>7, <2>1, <2>2
<1>9. ASSUME ~stepped' PROVE BucketsFit(bs, log', now)
  <2>1. ~stepped /\ clock \in Int /\ now > clock /\ BucketsFit(buckets, log, clock)
    BY <1>1, <1>9 DEF Polled, Types, BucketInv
  <2>2. \A i \in 1 .. n : buckets[i].start \in Int
    <3>1. \A i \in 1 .. n : buckets[i] \in Buckets
      BY <1>1, ElementOfSeq DEF n
    <3> QED
      BY <3>1 DEF Buckets
  <2>3. ASSUME NEW i \in 1 .. m, NEW j \in 1 .. m, i < j
        PROVE  bs[i].start < bs[j].start
    <3>1. i \in 1 .. m - 1 /\ i \in 1 .. n /\ bs[i] = buckets[i]
      BY <1>4, <2>3
    <3>2. CASE j \in 1 .. m - 1
      BY <1>4, <2>1, <2>3, <3>1, <3>2 DEF BucketsFit
    <3>3. CASE j = m
      <4>1. log # <<>>
        <5>1. From(buckets, 1) > 0
          BY <1>1, <1>4, <3>1, HeldIs DEF n
        <5>2. From(buckets, 1) <= Len(log)
          BY DEF BucketInv
        <5> QED
          BY <1>6, <1>7, <5>1, <5>2, EmptySeq
      <4>2. buckets[n].start = Truncated(clock)
        BY <4>1 DEF BucketInv, n
      <4>3. /\ Truncated(clock) \in Int /\ Truncated(now) \in Int
            /\ Truncated(clock) <= Truncated(now)
        BY <1>1, <2>1, TruncatedMonotone, TruncatedIs
      <4>4. i # n => buckets[i].start < buckets[n].start
        <5>1. n \in DOMAIN buckets /\ i \in DOMAIN buckets /\ (i # n => i < n)
          BY <1>4, <3>1
        <5> QED
          BY <2>1, <5>1 DEF BucketsFit
      <4>5. m = n => i # n
        BY <2>3, <3>3
      <4>6. m = n + 1 => buckets[n].start # Truncated(now)
        BY <1>4, <1>5, <3>1
      <4> QED
        BY <1>4, <1>5, <2>2, <3>1, <3>3, <4>2, <4>3, <4>4, <4>5, <4>6
    <3> QED
      BY <1>4, <2>3, <3>2, <3>3
  <2>4. ASSUME NEW i \in 1 .. m, NEW k \in 1 .. Len(log) + 1,
               k <= Len(log') - From(bs, i + 1)
        PROVE  log'[k].at < bs[i].start + BucketWidth
    <3>1. CASE i = m
      <4>1. log'[k].at <= now /\ log'[k].at \in Int
        <5>1. log'[k].at <= now
          BY <1>1, <1>6, <1>9, <2>4 DEF LogInv
        <5>2. log'[k].at \in Int
          BY <1>1, <1>6, <2>4
        <5> QED
          BY <5>1, <5>2
      <4>2. now < Truncated(now) + BucketWidth /\ Truncated(now) \in Int
        BY <1>1, TruncatedIs
      <4> QED
        BY <1>1, <1>4, <3>1, <4>1, <4>2
    <3>2. CASE i # m
      <4>1. /\ i \in 1 .. m - 1 /\ i + 1 \in 1 .. m
            /\ i \in DOMAIN buckets /\ bs[i] = buckets[i]
        BY <1>4, <2>4, <3>2
      <4>2. From(bs, i + 1) = From(buckets, i + 1) + 1 /\ From(buckets, i + 1) \in Nat
        BY <1>3, <1>7, <4>1
      <4>3. k \in DOMAIN log /\ k <= Len(log) - From(buckets, i + 1)
        BY <1>6, <2>4, <4>2
      <4>4. log[k].at < buckets[i].start + BucketWidth
        BY <2>1, <4>1, <4>3 DEF BucketsFit
      <4> QED
        BY <1>6, <4>1, <4>3, <4>4
    <3> QED
      BY <3>1, <3>2
  <2>5. ASSUME NEW k \in 1 .. Len(log) + 1, k <= Len(log') - From(bs, 1)
        PROVE  log'[k].at < now - Retention
    <3>1. From(bs, 1) = From(buckets, 1) + 1 /\ From(buckets, 1) \in Nat
      BY <1>3, <1>4, <1>7
    <3>2. k \in DOMAIN log /\ k <= Len(log) - From(buckets, 1)
      BY <1>6, <2>5, <3>1
    <3>3. log[k].at < clock - Retention
      BY <2>1, <3>2 DEF BucketsFit
    <3> QED
      BY <1>1, <1>6, <2>1, <3>2, <3>3
  <2> QED
    BY <1>4, <1>6, <2>3, <2>4, <2>5 DEF BucketsFit
<1> QED
  BY <1>2, <1>8, <1>9 DEF bs, metrics

\* The buckets up to the d-th are dropped; the others count what they did.
Dropped(out, bs, d) ==
    /\ DOMAIN out = 1 .. Len(bs) - d + 1
    /\ \A i \in 1 .. Len(bs) - d + 1 : out[i] = bs[d + i - 1]
    /\ \A i \in 1 .. Len(bs) - d + 2 : From(out, i) = From(bs, d + i - 1)

\* Trimming the buckets: only what is older than the retention goes.
LEMMA BucketStep ==
    ASSUME Types, LogInv, BucketInv, NEW sample, Polled(sample)
    PROVE  /\ buckets' \in Seq(Buckets)
           /\ \A i \in DOMAIN buckets' : buckets'[i].start % BucketWidth = 0
           /\ BucketInv'
           /\ LET bs == AddToBucket(buckets, sample.at, MetricsOf(sample))
              IN  \E d \in 1 .. Len(bs) : Dropped(buckets', bs, d)
<1> USE SizeAssumption
<1> DEFINE now == sample.at
           bs == AddToBucket(buckets, now, MetricsOf(sample))
           m == Len(bs)
           fresh == {i \in DOMAIN bs : ~ BucketExpired(bs[i], now)}
           d == Min(fresh)
           out == SubSeq(bs, d, m)
           old(i) == bs[d + i - 1]
<1>1. /\ Added(bs, buckets, now) /\ From(bs, 1) <= Len(log')
      /\ ~stepped' => BucketsFit(bs, log', now)
  BY BucketGrows
<1>2. buckets' = IF fresh = {} THEN <<>> ELSE out
  BY DEF Polled, Observe, DropWhile
<1> HIDE DEF bs
<1>3. now \in Int /\ now = clock' /\ buckets \in Seq(Buckets)
  BY DEF Polled, Samples, Types
<1>4. /\ bs \in Seq(Buckets) /\ m \in Nat \ {0} /\ DOMAIN bs = 1 .. m
      /\ bs[m].start = Truncated(now)
      /\ \A i \in 1 .. m - 1 : bs[i] = buckets[i] /\ i \in DOMAIN buckets
  <2>1. /\ bs \in Seq(Buckets) /\ m \in 1 .. Len(buckets) + 1
        /\ Len(buckets) \in Nat /\ DOMAIN buckets = 1 .. Len(buckets)
    BY <1>1, <1>3, LenProperties DEF Added
  <2>2. \A i \in 1 .. m - 1 : i \in 1 .. Len(buckets)
    BY <2>1
  <2> QED
    BY <1>1, <2>1, <2>2, LenProperties DEF Added
<1> HIDE DEF m
<1>5. /\ Truncated(now) \in Int /\ Truncated(now) % BucketWidth = 0
      /\ now < Truncated(now) + BucketWidth
  BY <1>3, TruncatedIs
<1>6. m \in fresh
  BY <1>3, <1>4, <1>5 DEF BucketExpired
<1>7. d \in fresh /\ \A i \in fresh : d <= i
  <2>1. fresh \in SUBSET Nat
    BY <1>4
  <2> HIDE DEF fresh
  <2> QED
    BY <1>6, <2>1, MinIsLeast
<1>8. buckets' = out
  BY <1>2, <1>6
<1> HIDE DEF d
<1>9. d \in 1 .. m
  BY <1>4, <1>7
<1>10. /\ out \in Seq(Buckets) /\ out # <<>> /\ Len(out) = m - d + 1
       /\ DOMAIN out = 1 .. m - d + 1
       /\ \A i \in 1 .. m - d + 1 : out[i] = old(i)
  <2> HIDE DEF old
  <2>1. /\ out \in Seq(Buckets) /\ out # <<>> /\ Len(out) = m - d + 1
        /\ DOMAIN out = 1 .. Len(out)
        /\ \A i \in DOMAIN out : out[i] = bs[d + i - 1]
    BY <1>4, <1>9, SuffixIs DEF m
  <2> HIDE DEF out
  <2> QED
    BY <2>1 DEF old
<1>11. \A i \in 1 .. m - d + 2 : From(out, i) = From(bs, d + i - 1)
  BY <1>4, <1>9, DroppedTotals DEF m
<1> HIDE DEF out
<1>12. \A i \in 1 .. m - d + 1 : d + i - 1 \in 1 .. m
  BY <1>4, <1>9
<1>13. From(out, 1) = From(bs, d)
  <2>1. 1 \in 1 .. m - d + 2 /\ d + 1 - 1 = d
    BY <1>4, <1>9
  <2> QED
    BY <1>11, <2>1
<1>14. /\ Len(log') \in Nat /\ log' # <<>> /\ DOMAIN log' = 1 .. Len(log')
       /\ \A k \in DOMAIN log' : log'[k].at \in Int
  <2>1. log' \in Seq(Samples) /\ log' # <<>>
    BY LogStep
  <2>2. \A k \in 1 .. Len(log') : log'[k] \in Samples
    BY <2>1, ElementOfSeq
  <2> QED
    BY <2>1, <2>2, LenProperties DEF Samples
<1>15. From(out, 1) <= Len(log')
  <2>1. d \in Nat \ {0}
    BY <1>9
  <2>2. From(bs, d) <= From(bs, 1) /\ From(bs, d) \in Nat /\ From(bs, 1) \in Nat
    <3>1. 1 <= d
      BY <1>9
    <3> QED
      BY <1>4, <2>1, <3>1, FromMonotone, HeldIs
  <2> QED
    BY <1>1, <1>13, <1>14, <2>2
<1>16. out[Len(out)].start = Truncated(now)
  <2>1. m - d + 1 \in 1 .. m - d + 1 /\ d + (m - d + 1) - 1 = m
    BY <1>4, <1>9
  <2> QED
    BY <1>4, <1>10, <2>1
<1>17. \A i \in 1 .. m : bs[i].start % BucketWidth = 0 /\ bs[i].start \in Int
  <2>1. TAKE i \in 1 .. m
  <2>2. bs[i].start \in Int
    <3>1. bs[i] \in Buckets
      BY <1>4, ElementOfSeq DEF m
    <3> QED
      BY <3>1 DEF Buckets
  <2>3. CASE i = m
    BY <1>4, <1>5, <2>2, <2>3
  <2>4. CASE i # m
    <3>1. i \in 1 .. m - 1
      BY <1>4, <2>4
    <3> QED
      BY <1>4, <2>2, <3>1 DEF Types
  <2> QED
    BY <2>3, <2>4
<1>18. \A i \in DOMAIN out : out[i].start % BucketWidth = 0
  BY <1>10, <1>12, <1>17
<1>19. ASSUME ~stepped' PROVE BucketsFit(out, log', now)
  <2>1. BucketsFit(bs, log', now)
    BY <1>1, <1>19
  <2>2. ASSUME NEW i \in 1 .. m - d + 1, NEW j \in 1 .. m - d + 1, i < j
        PROVE  out[i].start < out[j].start
    <3>1. d + i - 1 < d + j - 1 /\ d + i - 1 \in DOMAIN bs /\ d + j - 1 \in DOMAIN bs
      BY <1>4, <1>9, <2>2
    <3> QED
      BY <1>10, <2>1, <2>2, <3>1 DEF BucketsFit
  <2>3. ASSUME NEW i \in 1 .. m - d + 1, NEW k \in DOMAIN log',
               k <= Len(log') - From(out, i + 1)
        PROVE  log'[k].at < out[i].start + BucketWidth
    <3>1. /\ i + 1 \in 1 .. m - d + 2 /\ d + (i + 1) - 1 = (d + i - 1) + 1
          /\ d + i - 1 \in 1 .. m
      BY <1>4, <1>9, <2>3
    <3>2. d + i - 1 \in DOMAIN bs
      BY <1>4, <3>1
    <3>3. From(out, i + 1) = From(bs, (d + i - 1) + 1)
      BY <1>11, <3>1
    <3> QED
      BY <1>10, <2>1, <2>3, <3>2, <3>3 DEF BucketsFit
  <2>4. ASSUME NEW k \in DOMAIN log', k <= Len(log') - From(out, 1)
        PROVE  log'[k].at < now - Retention
    <3>1. CASE d = 1
      BY <1>13, <2>1, <2>4, <3>1 DEF BucketsFit
    <3>2. CASE d # 1
      <4>1. d - 1 \in 1 .. m /\ d - 1 \in DOMAIN bs /\ (d - 1) + 1 = d /\ ~ (d <= d - 1)
        BY <1>4, <1>9, <3>2
      <4>2. BucketExpired(bs[d - 1], now)
        BY <1>7, <4>1
      <4>3. bs[d - 1].start + BucketWidth < now - Retention
        BY <4>2 DEF BucketExpired
      <4>4. log'[k].at < bs[d - 1].start + BucketWidth
        BY <1>13, <2>1, <2>4, <4>1 DEF BucketsFit
      <4> QED
        BY <1>3, <1>14, <1>17, <4>1, <4>3, <4>4
    <3> QED
      BY <3>1, <3>2
  <2> QED
    BY <1>10, <2>2, <2>3, <2>4 DEF BucketsFit
<1>20. out[1].start + BucketWidth >= now - Retention
  <2>1. 1 \in 1 .. m - d + 1 /\ d + 1 - 1 = d
    BY <1>4, <1>9
  <2>2. out[1] = bs[d]
    BY <1>10, <2>1
  <2>3. ~ (bs[d].start + BucketWidth < now - Retention)
    BY <1>7 DEF BucketExpired
  <2> QED
    BY <1>3, <1>9, <1>17, <2>2, <2>3
<1>21. BucketInv'
  BY <1>3, <1>8, <1>10, <1>15, <1>16, <1>19, <1>20
     DEF BucketInv, From, Held, BucketsFit, Truncated
<1>22. Dropped(buckets', bs, d)
  BY <1>8, <1>10, <1>11 DEF Dropped, m
<1> QED
  BY <1>8, <1>9, <1>10, <1>18, <1>21, <1>22 DEF m, bs

\* Levels are natural numbers, and the samples that show one are finitely many.
LEMMA LevelsAre ==
    ASSUME NEW samples \in Seq(Samples), NEW D \in SUBSET Shown(samples)
    PROVE  Valued(Levels(samples), D)
<1>1. Len(samples) \in Nat /\ DOMAIN samples = 1 .. Len(samples)
  BY LenProperties
<1>2. IsFiniteSet(1 .. Len(samples)) /\ D \subseteq 1 .. Len(samples) /\ D \subseteq Int
  BY <1>1, SizeOfUpTo DEF Shown
<1>3. IsFiniteSet(D)
  BY <1>2, FS_Subset
<1>4. ASSUME NEW k \in D PROVE Levels(samples)[k] \in Nat
  <2>1. samples[k].level # {} /\ samples[k] \in Samples
    BY <1>1, ElementOfSeq DEF Shown
  <2>2. samples[k].level \subseteq Nat
    BY <2>1 DEF Samples
  <2>3. (CHOOSE v \in samples[k].level : TRUE) \in samples[k].level
    BY <2>1
  <2> QED
    BY <2>2, <2>3 DEF Levels
<1> QED
  BY <1>2, <1>3, <1>4 DEF Valued

\* A new sample shows its level, and the others show what they did.
LEMMA ShownStep ==
    ASSUME Types, LogInv, NEW sample, Polled(sample)
    PROVE  LET new == Len(log) + 1 IN
           /\ Len(log) \in Nat /\ log \in Seq(Samples) /\ log' \in Seq(Samples)
           /\ Len(log') = new
           /\ \A k \in 1 .. Len(log) : k \in Shown(log') <=> k \in Shown(log)
           /\ \A k \in Shown(log) : k \in 1 .. Len(log) /\ Levels(log')[k] = Levels(log)[k]
           /\ \A k \in Shown(log') : k \in 1 .. new
           /\ new \in Shown(log') <=> sample.level # {}
           /\ sample.level # {} => Levels(log')[new] = CHOOSE v \in sample.level : TRUE
<1>1. /\ log' \in Seq(Samples) /\ Len(log') = Len(log) + 1 /\ Len(log) \in Nat
      /\ DOMAIN log = 1 .. Len(log) /\ DOMAIN log' = 1 .. Len(log) + 1
      /\ \A k \in DOMAIN log : log'[k] = log[k]
      /\ log'[Len(log) + 1] = sample
  BY LogStep
<1>2. \A k \in 1 .. Len(log) : k \in 1 .. Len(log) + 1
  BY <1>1
<1>3. Len(log) + 1 \in 1 .. Len(log) + 1
  BY <1>1
<1>4. log \in Seq(Samples)
  BY DEF Types
<1>5. \A k \in 1 .. Len(log) : k \in Shown(log') <=> k \in Shown(log)
  BY <1>1, <1>2 DEF Shown
<1>6. \A k \in Shown(log) : k \in 1 .. Len(log) /\ Levels(log')[k] = Levels(log)[k]
  <2>1. TAKE k \in Shown(log)
  <2>2. k \in 1 .. Len(log) /\ log'[k] = log[k]
    BY <1>1 DEF Shown
  <2>3. k \in Shown(log')
    BY <1>5, <2>2
  <2> QED
    BY <2>2, <2>3 DEF Levels
<1>7. \A k \in Shown(log') : k \in 1 .. Len(log) + 1
  BY <1>1 DEF Shown
<1>8. Len(log) + 1 \in Shown(log') <=> sample.level # {}
  BY <1>1, <1>3 DEF Shown
<1>9. sample.level # {} =>
        Levels(log')[Len(log) + 1] = CHOOSE v \in sample.level : TRUE
  BY <1>1, <1>8 DEF Levels
<1> QED
  BY <1>1, <1>4, <1>5, <1>6, <1>7, <1>8, <1>9

\* Adding a sample to its bucket adds its level to the levels of that bucket.
LEMMA AccGrows ==
    ASSUME Types, LogInv, BucketInv, AccsFit(buckets, log), NEW sample, Polled(sample)
    PROVE  AccsFit(AddToBucket(buckets, sample.at, MetricsOf(sample)), log')
<1> DEFINE metrics == MetricsOf(sample)
           bs == AddToBucket(buckets, sample.at, metrics)
           n == Len(buckets)
           m == Len(bs)
           L == Len(log)
           F == Levels(log')
<1>1. /\ sample.at \in Int /\ metrics \in Metrics /\ buckets \in Seq(Buckets)
      /\ "level" \in DOMAIN metrics <=> sample.level # {}
      /\ sample.level # {} => metrics["level"] = CHOOSE v \in sample.level : TRUE
  BY MetricsType DEF Polled, Samples, Types
<1> HIDE DEF metrics
<1>2. Added(bs, buckets, sample.at) /\ AccAdded(bs, buckets, metrics)
  BY <1>1, AddedIs
<1>3. \A i \in 1 .. m : From(bs, i) = From(buckets, i) + 1
  BY <1>1, AddedTotals
<1> HIDE DEF bs
<1>4. /\ n \in Nat /\ m \in Nat \ {0} /\ (m = n \/ m = n + 1)
      /\ bs \in Seq(Buckets) /\ DOMAIN bs = 1 .. m /\ DOMAIN buckets = 1 .. n
      /\ \A i \in 1 .. m - 1 : bs[i] = buckets[i]
  <2>1. /\ bs \in Seq(Buckets) /\ n \in Nat /\ m \in 1 .. n + 1 /\ m >= n
        /\ DOMAIN bs = 1 .. m /\ DOMAIN buckets = 1 .. n
        /\ \A i \in 1 .. m - 1 : bs[i] = buckets[i]
    BY <1>1, <1>2, LenProperties DEF Added
  <2> HIDE DEF m, n
  <2> QED
    BY <2>1
<1>5. \A i \in Nat \ {0} : From(buckets, i) \in Nat
  BY <1>1, HeldIs
<1>6. /\ L \in Nat /\ log \in Seq(Samples) /\ log' \in Seq(Samples) /\ Len(log') = L + 1
      /\ \A k \in 1 .. L : k \in Shown(log') <=> k \in Shown(log)
      /\ \A k \in Shown(log) : k \in 1 .. L /\ F[k] = Levels(log)[k]
      /\ \A k \in Shown(log') : k \in 1 .. L + 1
      /\ L + 1 \in Shown(log') <=> sample.level # {}
      /\ sample.level # {} => F[L + 1] = CHOOSE v \in sample.level : TRUE
  BY ShownStep
<1>7. \A i \in 1 .. n : Describes(buckets[i].acc["level"], F, ShownIn(buckets, i, log))
  <2>1. TAKE i \in 1 .. n
  <2>2. Describes(buckets[i].acc["level"], Levels(log), ShownIn(buckets, i, log))
    BY <1>4 DEF AccsFit
  <2>3. \A k \in ShownIn(buckets, i, log) : Levels(log)[k] = F[k]
    BY <1>6 DEF ShownIn
  <2> QED
    BY <2>2, <2>3, SameDescribes
<1> HIDE DEF m, n, L, F
<1>8. ASSUME NEW i \in 1 .. m - 1
      PROVE  Describes(bs[i].acc["level"], F, ShownIn(bs, i, log'))
  <2>1. i \in 1 .. n /\ i \in 1 .. m /\ i + 1 \in 1 .. m
    BY <1>4
  <2>2. /\ From(bs, i) = From(buckets, i) + 1 /\ From(buckets, i) \in Nat
        /\ From(bs, i + 1) = From(buckets, i + 1) + 1 /\ From(buckets, i + 1) \in Nat
    BY <1>3, <1>5, <2>1
  <2>3. Len(log') - From(bs, i) + 1 = L - From(buckets, i) + 1
    BY <1>6, <2>2
  <2>4. Len(log') - From(bs, i + 1) = L - From(buckets, i + 1)
    BY <1>6, <2>2
  <2>5. \A k \in Int : k \in L - From(buckets, i) + 1 .. L - From(buckets, i + 1) => k <= L
    BY <1>6, <2>2
  <2>6. ShownIn(bs, i, log') = ShownIn(buckets, i, log)
    <3> DEFINE I == L - From(buckets, i) + 1 .. L - From(buckets, i + 1)
    <3>1. ShownIn(bs, i, log') = Shown(log') \cap I
      BY <2>3, <2>4 DEF ShownIn
    <3>2. ShownIn(buckets, i, log) = Shown(log) \cap I
      BY DEF ShownIn, L
    <3>3. \A k \in Shown(log') : k \in I => k \in 1 .. L
      BY <1>6, <2>5
    <3> HIDE DEF I
    <3> QED
      BY <1>6, <3>1, <3>2, <3>3
  <2> QED
    BY <1>4, <1>7, <2>1, <2>6
<1>9. Describes(bs[m].acc["level"], F, ShownIn(bs, m, log'))
  <2> DEFINE was == IF m = n THEN buckets[n].acc["level"] ELSE EmptyAcc
             D == IF m = n THEN ShownIn(buckets, n, log) ELSE {}
  <2>1. m \in 1 .. m /\ m \in Nat \ {0} /\ m + 1 \in Nat \ {0}
    BY <1>4
  <2>2. /\ From(bs, m) = From(buckets, m) + 1 /\ From(buckets, m) \in Nat
        /\ From(bs, m + 1) = 0
        /\ m = n => From(buckets, m + 1) = 0
        /\ m = n + 1 => From(buckets, m) = 0
    <3>1. n = Len(buckets) /\ m = Len(bs)
      BY DEF n, m
    <3>2. \A i \in Nat \ {0} : i > m => From(bs, i) = 0
      BY <1>4, <3>1, HeldIs
    <3>3. \A i \in Nat \ {0} : i > n => From(buckets, i) = 0
      BY <1>1, <3>1, HeldIs
    <3>4. From(bs, m) = From(buckets, m) + 1 /\ From(buckets, m) \in Nat
      BY <1>3, <1>5, <2>1
    <3> QED
      BY <1>4, <2>1, <3>2, <3>3, <3>4
  <2>3. was \in Accs /\ Describes(was, F, D)
    <3>1. CASE m = n
      <4>1. n \in 1 .. n /\ was = buckets[n].acc["level"] /\ D = ShownIn(buckets, n, log)
        BY <1>4, <3>1
      <4>2. buckets[n] \in Buckets
        BY <1>1, <4>1, ElementOfSeq DEF n
      <4>3. was \in Accs
        BY <4>1, <4>2 DEF Buckets, Names
      <4> QED
        BY <1>7, <4>1, <4>3
    <3>2. CASE m # n
      BY <3>2, EmptyDescribes
    <3> QED
      BY <3>1, <3>2
  <2>4. D = Shown(log) \cap (L - From(buckets, m) + 1 .. L)
    <3>1. CASE m = n
      <4>1. L - From(buckets, m + 1) = L
        BY <1>6, <2>2, <3>1
      <4> QED
        BY <3>1, <4>1 DEF ShownIn, L
    <3>2. CASE m # n
      <4>1. L - From(buckets, m) + 1 .. L = {}
        BY <1>4, <1>6, <2>2, <3>2
      <4> QED
        BY <3>2, <4>1
    <3> QED
      BY <3>1, <3>2
  <2>5. ShownIn(bs, m, log') = Shown(log') \cap (L - From(buckets, m) + 1 .. L + 1)
    <3>1. /\ Len(log') - From(bs, m) + 1 = L - From(buckets, m) + 1
          /\ Len(log') - From(bs, m + 1) = L + 1
      BY <1>6, <2>2
    <3> QED
      BY <3>1 DEF ShownIn
  <2>6. bs[m].acc["level"] =
          IF sample.level # {} THEN AddValue(was, metrics["level"]) ELSE was
    <3>1. Len(bs) = m /\ Len(buckets) = n
      BY DEF m, n
    <3> QED
      BY <1>1, <1>2, <3>1 DEF AccAdded
  <2> HIDE DEF was, D
  <2>7. Valued(F, D) /\ \A j \in D : j < L + 1
    <3>1. \A k \in D : k \in Shown(log') /\ k \in 1 .. L
      BY <1>6, <2>4
    <3>2. D \in SUBSET Shown(log')
      BY <3>1
    <3>3. Valued(F, D)
      BY <1>6, <3>2, LevelsAre DEF F
    <3>4. \A j \in D : j < L + 1
      BY <1>6, <3>1
    <3> QED
      BY <3>3, <3>4
  <2>8. CASE sample.level # {}
    <3>1. ShownIn(bs, m, log') = D \cup {L + 1}
      <4>1. \A k \in 1 .. L + 1 : k = L + 1 \/ k \in 1 .. L
        BY <1>6
      <4>2. L + 1 \in L - From(buckets, m) + 1 .. L + 1 /\ L + 1 \notin 1 .. L
        BY <1>6, <2>2
      <4>3. \A k \in 1 .. L : k \in L - From(buckets, m) + 1 .. L + 1
                                <=> k \in L - From(buckets, m) + 1 .. L
        BY <1>6, <2>2
      <4> QED
        BY <1>6, <2>4, <2>5, <2>8, <4>1, <4>2, <4>3
    <3>2. F[L + 1] = metrics["level"] /\ F[L + 1] \in Nat
      <4>1. F[L + 1] = metrics["level"]
        BY <1>1, <1>6, <2>8
      <4>2. {L + 1} \in SUBSET Shown(log')
        BY <1>6, <2>8
      <4>3. Valued(F, {L + 1})
        BY <1>6, <4>2, LevelsAre DEF F
      <4> QED
        BY <4>1, <4>3 DEF Valued
    <3>3. L + 1 \in Int
      BY <1>6
    <3>4. Describes(AddValue(was, F[L + 1]), F, D \cup {L + 1})
      BY <2>3, <2>7, <3>2, <3>3, AddDescribes
    <3> QED
      BY <2>6, <2>8, <3>1, <3>2, <3>4
  <2>9. CASE sample.level = {}
    <3>1. ShownIn(bs, m, log') = D
      <4>1. \A k \in Shown(log') : k \in 1 .. L
        <5>1. \A k \in 1 .. L + 1 : k = L + 1 \/ k \in 1 .. L
          BY <1>6
        <5> QED
          BY <1>6, <2>9, <5>1
      <4>2. \A k \in 1 .. L : k \in L - From(buckets, m) + 1 .. L + 1
                                <=> k \in L - From(buckets, m) + 1 .. L
        BY <1>6, <2>2
      <4> QED
        BY <1>6, <2>4, <2>5, <4>1, <4>2
    <3> QED
      BY <2>3, <2>6, <2>9, <3>1
  <2> QED
    BY <2>8, <2>9
<1>10. \A i \in 1 .. m : i = m \/ i \in 1 .. m - 1
  BY <1>4
<1>11. \A i \in 1 .. m : Describes(bs[i].acc["level"], F, ShownIn(bs, i, log'))
  BY <1>8, <1>9, <1>10
<1>12. AccsFit(bs, log')
  BY <1>4, <1>11 DEF AccsFit, F
<1> QED
  BY <1>12 DEF bs, metrics

\* A turn of the poller keeps the accumulators: the buckets that stay count the
\* samples they did.
LEMMA AccStep ==
    ASSUME Types, LogInv, BucketInv, AccsFit(buckets, log), NEW sample, Polled(sample)
    PROVE  AccsFit(buckets, log)'
<1> DEFINE bs == AddToBucket(buckets, sample.at, MetricsOf(sample))
           m == Len(bs)
<1>1. AccsFit(bs, log')
  BY AccGrows
<1>2. PICK d \in 1 .. m : Dropped(buckets', bs, d)
  BY BucketStep
<1>3. bs \in Seq(Buckets)
  <2>1. sample.at \in Int /\ MetricsOf(sample) \in Metrics /\ buckets \in Seq(Buckets)
    BY MetricsType DEF Polled, Samples, Types
  <2> QED
    BY <2>1, AddedIs DEF Added
<1> HIDE DEF bs
<1>4. m \in Nat /\ DOMAIN bs = 1 .. m
  BY <1>3, LenProperties
<1>5. ASSUME NEW i \in 1 .. m - d + 1
      PROVE  Describes(buckets'[i].acc["level"], Levels(log'), ShownIn(buckets', i, log'))
  <2>1. /\ i \in 1 .. m - d + 2 /\ i + 1 \in 1 .. m - d + 2
        /\ d + i - 1 \in 1 .. m /\ d + (i + 1) - 1 = (d + i - 1) + 1
    BY <1>4
  <2>2. /\ buckets'[i] = bs[d + i - 1]
        /\ From(buckets', i) = From(bs, d + i - 1)
        /\ From(buckets', i + 1) = From(bs, (d + i - 1) + 1)
    BY <1>2, <2>1 DEF Dropped
  <2>3. ShownIn(buckets', i, log') = ShownIn(bs, d + i - 1, log')
    BY <2>2 DEF ShownIn
  <2> QED
    BY <1>1, <1>4, <2>1, <2>2, <2>3 DEF AccsFit
<1>6. DOMAIN buckets' = 1 .. m - d + 1
  BY <1>2 DEF Dropped
<1>7. AccsFit(buckets', log')
  BY <1>5, <1>6 DEF AccsFit
<1> QED
  BY <1>7 DEF AccsFit, ShownIn, Shown, Levels, From, Held

\* What Stats() merges describes the levels of all samples that the buckets count.
LEMMA StatsDescribe ==
    ASSUME Types, AccsFit(buckets, log)
    PROVE  /\ Stats("level") \in Accs
           /\ Describes(Stats("level"), Levels(log),
                        Shown(log) \cap (Len(log) - From(buckets, 1) + 1 .. Len(log)))
<1> DEFINE n == Len(buckets)
           L == Len(log)
           F == Levels(log)
           s == [i \in 1 .. n |-> buckets[i].acc["level"]]
           D(i) == Shown(log) \cap (L - From(buckets, 1) + 1 .. L - From(buckets, i + 1))
<1>1. /\ n \in Nat /\ buckets \in Seq(Buckets) /\ DOMAIN buckets = 1 .. n
      /\ log \in Seq(Samples) /\ L \in Nat
  BY LenProperties DEF Types
<1>2. PICK g : Merges(s, n, g) /\ Stats("level") = g[n]
  BY <1>1, StatsMerges
<1> DEFINE Wrong == {i \in 0 .. n : ~ (g[i] \in Accs /\ Describes(g[i], F, D(i)))}
           w == Min(Wrong)
<1>3. \A i \in Nat \ {0} : From(buckets, i) \in Nat
  BY <1>1, HeldIs
<1>4. \A i \in 0 .. n : g[i] = IF i = 0 THEN EmptyAcc ELSE Merge(g[i - 1], s[i])
  BY <1>2 DEF Merges
<1>5. Wrong = {}
  <2>1. SUFFICES ASSUME Wrong # {} PROVE FALSE
    OBVIOUS
  <2>2. w \in Wrong /\ \A j \in Wrong : w <= j
    <3>1. Wrong \in SUBSET Nat
      BY <1>1
    <3> HIDE DEF Wrong
    <3> QED
      BY <2>1, <3>1, MinIsLeast
  <2> HIDE DEF w
  <2>3. CASE w = 0
    <3>1. L - From(buckets, 1) + 1 .. L - From(buckets, 0 + 1) = {}
      <4>1. From(buckets, 1) \in Nat /\ 0 + 1 = 1
        BY <1>3
      <4> QED
        BY <1>1, <4>1
    <3>2. D(0) = {}
      BY <3>1
    <3>3. g[0] = EmptyAcc
      <4>1. 0 \in 0 .. n
        BY <1>1
      <4> QED
        BY <1>4, <4>1
    <3> HIDE DEF D
    <3> QED
      BY <2>2, <2>3, <3>2, <3>3, EmptyDescribes
  <2>4. CASE w # 0
    <3> DEFINE p == w - 1
               E == ShownIn(buckets, w, log)
    <3>1. /\ w \in 1 .. n /\ w \in 0 .. n /\ w \in Nat \ {0} /\ w + 1 \in Nat \ {0}
          /\ p \in 0 .. n /\ p + 1 = w /\ ~ (w <= p)
      BY <1>1, <2>2, <2>4
    <3>2. g[p] \in Accs /\ Describes(g[p], F, D(p))
      BY <2>2, <3>1
    <3>3. g[w] = Merge(g[p], buckets[w].acc["level"])
      BY <1>4, <2>4, <3>1
    <3>4. buckets[w].acc["level"] \in Accs /\ Describes(buckets[w].acc["level"], F, E)
      <4>1. buckets[w] \in Buckets
        BY <1>1, <3>1, ElementOfSeq
      <4> QED
        BY <1>1, <3>1, <4>1 DEF AccsFit, Buckets, Names
    <3>5. /\ From(buckets, 1) \in Nat /\ From(buckets, w) \in Nat
          /\ From(buckets, w + 1) \in Nat
          /\ From(buckets, w) <= From(buckets, 1)
          /\ From(buckets, w + 1) <= From(buckets, w)
      <4>1. 1 \in Nat \ {0} /\ 1 <= w /\ w <= w + 1
        BY <3>1
      <4> QED
        BY <1>1, <1>3, <3>1, <4>1, FromMonotone
    <3>6. /\ D(p) = Shown(log) \cap (L - From(buckets, 1) + 1 .. L - From(buckets, w))
          /\ E = Shown(log) \cap (L - From(buckets, w) + 1 .. L - From(buckets, w + 1))
          /\ D(w) = Shown(log) \cap (L - From(buckets, 1) + 1 .. L - From(buckets, w + 1))
      BY <3>1 DEF ShownIn
    <3> HIDE DEF p, E, D, F, L, n
    <3>7. L \in Int /\ Shown(log) \subseteq Int
      BY <1>1, LenProperties DEF Shown, L
    <3>8. D(w) = D(p) \cup E
      <4>1. ASSUME NEW k \in Int
            PROVE  k \in L - From(buckets, 1) + 1 .. L - From(buckets, w + 1) <=>
                     \/ k \in L - From(buckets, 1) + 1 .. L - From(buckets, w)
                     \/ k \in L - From(buckets, w) + 1 .. L - From(buckets, w + 1)
        BY <3>5, <3>7
      <4> QED
        BY <3>6, <3>7, <4>1
    <3>9. \A j \in D(p), k \in E : j < k
      BY <3>5, <3>6, <3>7
    <3>10. Valued(F, D(p)) /\ Valued(F, E)
      <4>1. D(p) \in SUBSET Shown(log) /\ E \in SUBSET Shown(log)
        BY <3>6
      <4> QED
        BY <1>1, <4>1, LevelsAre DEF F
    <3>11. g[w] \in Accs /\ Describes(g[w], F, D(w))
      BY <3>2, <3>3, <3>4, <3>8, <3>9, <3>10, MergeDescribes
    <3> QED
      BY <2>2, <3>1, <3>11
  <2> QED
    BY <2>3, <2>4
<1>6. n \in 0 .. n /\ From(buckets, n + 1) = 0
  <2>1. n + 1 \in Nat \ {0} /\ n + 1 > n
    BY <1>1
  <2> QED
    BY <1>1, <2>1, HeldIs
<1>7. g[n] \in Accs /\ Describes(g[n], F, D(n))
  BY <1>5, <1>6
<1>8. D(n) = Shown(log) \cap (L - From(buckets, 1) + 1 .. L)
  BY <1>1, <1>6
<1> QED
  BY <1>2, <1>7, <1>8

(***************************************************************************)
(* The theorems.                                                           *)
(***************************************************************************)
LEMMA InitHolds == Init => IInv
<1> SUFFICES ASSUME Init PROVE IInv
  OBVIOUS
<1>1. Types
  <2>1. /\ <<>> \in Seq(Samples) /\ <<>> \in Seq(Buckets) /\ <<>> \in Seq(Points)
        /\ DOMAIN <<>> = {}
    BY EmptySeq
  <2>2. /\ clock = 10 /\ stepped = FALSE /\ log = <<>> /\ window = <<>> /\ previous = {}
        /\ buckets = <<>> /\ points = <<>> /\ dropped = 0
    BY DEF Init
  <2>3. \A i \in DOMAIN buckets : buckets[i].start % BucketWidth = 0
    BY <2>1, <2>2
  <2>4. /\ clock \in Int /\ stepped \in BOOLEAN
        /\ previous \in SUBSET Samples /\ dropped \in Nat
    <3>1. clock = 10 /\ dropped = 0
      BY DEF Init
    <3>2. stepped = FALSE
      BY DEF Init
    <3>3. previous = {}
      BY DEF Init
    <3>4. clock \in Int /\ dropped \in Nat
      BY <3>1
    <3>5. stepped \in BOOLEAN
      BY <3>2
    <3>6. previous \in SUBSET Samples
      BY <3>3
    <3> QED
      BY <3>4, <3>5, <3>6
  <2>5. /\ log \in Seq(Samples) /\ window \in Seq(Samples)
        /\ buckets \in Seq(Buckets) /\ points \in Seq(Points)
    BY <2>1, <2>2
  <2> QED
    BY <2>3, <2>4, <2>5 DEF Types
<1>2. /\ log = <<>> /\ points = <<>> /\ buckets = <<>> /\ dropped = 0 /\ ~stepped
      /\ Len(log) = 0 /\ Len(points) = 0 /\ Len(buckets) = 0
      /\ DOMAIN log = {} /\ DOMAIN points = {} /\ DOMAIN buckets = {}
  BY EmptySeq DEF Init
<1>3. From(buckets, 1) = 0
  <2>1. buckets \in Seq(Buckets) /\ 1 \in Nat \ {0} /\ 1 > Len(buckets)
    BY <1>1, <1>2 DEF Types
  <2> QED
    BY <2>1, HeldIs
<1>4. LogInv
  BY <1>2 DEF LogInv
<1>5. TrendInv
  BY <1>2, SizeAssumption DEF TrendInv, DropsCounted, RecentKeptRaw, Ordered
<1>6. BucketInv
  BY <1>2, <1>3 DEF BucketInv, BucketsFit
<1>7. AccsFit(buckets, log)
  BY <1>2 DEF AccsFit
<1> QED
  BY <1>1, <1>4, <1>5, <1>6, <1>7 DEF IInv

\* Every step, and every step that changes nothing, keeps the inductive invariant.
LEMMA NextKeeps == IInv /\ [Next]_vars => IInv'
<1> SUFFICES ASSUME IInv, [Next]_vars PROVE IInv'
  OBVIOUS
<1>1. CASE Next
  <2>1. PICK sample : Polled(sample)
    BY <1>1, NextPolls DEF IInv
  <2>2. Types'
    <3>1. previous' = {sample} /\ sample \in Samples
      BY <2>1 DEF Polled, Observe
    <3> QED
      BY <2>1, <3>1, LogStep, WindowType, TrendStep, BucketStep
         DEF IInv, Types, Polled
  <2> QED
    BY <2>1, <2>2, LogStep, TrendStep, BucketStep, AccStep DEF IInv
<1>2. CASE UNCHANGED vars
  <2> USE <1>2 DEF vars
  <2>1. Types'
    BY DEF IInv, Types
  <2>2. LogInv'
    BY DEF IInv, LogInv
  <2>3. TrendInv'
    BY DEF IInv, TrendInv, Trend, Ordered, DropsCounted, RecentKeptRaw, Last
  <2>4. BucketInv'
    BY DEF IInv, BucketInv, BucketsFit, From, Held, Truncated
  <2>5. AccsFit(buckets, log)'
    <3>1. buckets' = buckets /\ log' = log
      OBVIOUS
    <3>2. AccsFit(buckets', log')
      BY <3>1 DEF IInv
    <3> QED
      BY <3>2 DEF AccsFit, ShownIn, Shown, Levels, From, Held
  <2> QED
    BY <2>1, <2>2, <2>3, <2>4, <2>5 DEF IInv
<1> QED
  BY <1>1, <1>2

\* The poller's stores always satisfy the inductive invariant: what one turn of
\* runStatsPoll finds there is what the turns before it left.
THEOREM Inductive == Spec => []IInv
<1> QED
  BY InitHolds, NextKeeps, PTL DEF Spec

\* The samples, buckets and points are of their types: a bucket starts at a multiple
\* of --bucket and counts a sample, a point carries known metrics only.
THEOREM TypeCorrect == Spec => []TypeOK
<1>1. IInv => TypeOK
  <2> SUFFICES ASSUME IInv PROVE TypeOK
    OBVIOUS
  <2>1. Types
    BY DEF IInv
  <2>2. \A i \in DOMAIN log : log[i] \in Samples
    BY <2>1, ElementOfSeq, LenProperties DEF Types
  <2>3. \A i \in DOMAIN buckets : buckets[i] \in Buckets
    BY <2>1, ElementOfSeq, LenProperties DEF Types
  <2>4. \A i \in DOMAIN points : points[i] \in Points
    BY <2>1, ElementOfSeq, LenProperties DEF Types
  <2>5. \A i \in DOMAIN points : DOMAIN points[i].metrics \subseteq Names
    BY <2>4 DEF Points, Metrics
  <2> QED
    BY <2>1, <2>2, <2>3, <2>5 DEF TypeOK, Types, Buckets
<1> QED
  BY Inductive, <1>1, PTL

\* trendStore.Observe never leaves more than --trend-points points, always keeps the
\* newest sample last, keeps the points in order while the clock runs forward, and
\* counts in `dropped` what compress() and trim() removed, exactly once while the
\* recent horizon fits into the limit.
THEOREM TrendStaysBounded == Spec => []TrendBounded
<1>1. IInv => TrendBounded
  <2> SUFFICES ASSUME IInv PROVE TrendBounded
    OBVIOUS
  <2> QED
    BY DEF IInv, TrendInv, LogInv, Trend, Ordered, TrendBounded, Last
<1> QED
  BY Inductive, <1>1, PTL

\* History.Observe counts no sample twice, and while the clock runs forward its
\* buckets ascend, none of them is older than --retention, and every sample of the
\* retention is counted.
THEOREM BucketsAreRetained == Spec => []BucketsRetained
<1>1. IInv => BucketsRetained
  <2> SUFFICES ASSUME IInv PROVE BucketsRetained
    OBVIOUS
  <2> USE DEF IInv
  <2>1. /\ log \in Seq(Samples) /\ Len(log) \in Nat /\ DOMAIN log = 1 .. Len(log)
        /\ \A k \in DOMAIN log : log[k].at \in Int
        /\ buckets \in Seq(Buckets) /\ DOMAIN buckets = 1 .. Len(buckets)
        /\ Len(buckets) \in Nat
    <3>1. \A k \in 1 .. Len(log) : log[k] \in Samples
      BY ElementOfSeq DEF Types
    <3> QED
      BY <3>1, LenProperties DEF Types, Samples
  <2>2. Counted = From(buckets, 1)
    BY <2>1 DEF Counted, From, Held
  <2>3. Counted \in Nat /\ Counted <= Len(log)
    BY <2>1, <2>2, HeldIs DEF BucketInv
  <2>4. log # <<>> => Counted > 0
    <3>1. SUFFICES ASSUME log # <<>> PROVE Counted > 0
      OBVIOUS
    <3>2. 1 <= Len(buckets)
      BY <2>1, <3>1, EmptySeq DEF BucketInv
    <3> QED
      BY <2>1, <2>2, <3>2, HeldIs
  <2>5. ASSUME ~stepped, log # <<>>
        PROVE  /\ \A i, j \in DOMAIN buckets : i < j => buckets[i].start < buckets[j].start
               /\ buckets[1].start + BucketWidth >= Last(log).at - Retention
               /\ \A k \in DOMAIN log :
                    log[k].at >= Last(log).at - Retention => k > Len(log) - Counted
    <3>1. Last(log).at = clock /\ clock \in Int
      BY <2>5 DEF LogInv, Last, Types
    <3>2. ASSUME NEW k \in DOMAIN log, log[k].at >= clock - Retention
          PROVE  k > Len(log) - Counted
      <4>1. ~ (k <= Len(log) - Counted)
        <5>1. k <= Len(log) - From(buckets, 1) => log[k].at < clock - Retention
          BY <2>5 DEF BucketInv, BucketsFit
        <5> QED
          BY <2>1, <2>2, <3>1, <3>2, <5>1, SizeAssumption
      <4> QED
        BY <2>1, <2>3, <4>1
    <3> QED
      BY <2>5, <3>1, <3>2 DEF BucketInv, BucketsFit
  <2> QED
    BY <2>3, <2>4, <2>5 DEF BucketsRetained
<1> QED
  BY Inductive, <1>1, PTL

\* The rate BuildSnapshot publishes is not negative and not above what was generated
\* in the window, whatever restarts of the polled server and clock steps fall into it.
THEOREM RatesNotOverstated == Spec => []RateNotOverstated
<1>1. IInv => RateNotOverstated
  <2> SUFFICES ASSUME IInv, NEW rate \in SnapshotRate
               PROVE  LET total == Total([i \in 1 .. Len(window) - 1 |->
                                            Produced(window[i], window[i + 1])])
                      IN  /\ rate >= 0
                          /\ rate * (Last(window).at - window[1].at) <= total * RateScale
    BY DEF RateNotOverstated
  <2>1. window \in Seq(Samples)
    BY DEF IInv, Types
  <2>2. window # <<>> /\ rate \in CounterRate(window[1], window[Len(window)])
    BY DEF SnapshotRate, Last
  <2> DEFINE total == Total([i \in 1 .. Len(window) - 1 |->
                              Produced(window[i], window[i + 1])])
  <2>3. rate \in Nat /\ rate * (window[Len(window)].at - window[1].at) <= total * RateScale
    BY <2>1, <2>2, RateBounded
  <2> HIDE DEF total
  <2>4. rate >= 0
    BY <2>3
  <2> QED
    BY <2>3, <2>4 DEF Last, total
<1> QED
  BY Inductive, <1>1, PTL

\* The statistics that History.Stats() merges over the buckets are those of the
\* samples the buckets still count - how many, their sum, the least, the greatest and
\* the last - whatever the retention dropped and however the metric comes and goes.
THEOREM StatisticsExact == Spec => []StatsExact
<1>1. IInv => StatsExact
  <2> SUFFICES ASSUME IInv PROVE StatsExact
    OBVIOUS
  <2> DEFINE L == Len(log)
             shown == {k \in L - Counted + 1 .. L : log[k].level # {}}
             value == [k \in shown |-> CHOOSE v \in log[k].level : TRUE]
             stats == Stats("level")
             F == Levels(log)
             D == Shown(log) \cap (L - From(buckets, 1) + 1 .. L)
  <2>1. /\ log \in Seq(Samples) /\ L \in Nat /\ DOMAIN log = 1 .. L
        /\ buckets \in Seq(Buckets) /\ DOMAIN buckets = 1 .. Len(buckets)
    BY LenProperties DEF IInv, Types
  <2>2. Counted = From(buckets, 1) /\ Counted \in Nat /\ Counted <= L
    <3>1. Counted = From(buckets, 1)
      BY <2>1 DEF Counted, From, Held
    <3> QED
      BY <2>1, <3>1, HeldIs DEF IInv, BucketInv
  <2>3. shown = D
    <3>1. \A k \in L - Counted + 1 .. L : k \in DOMAIN log
      BY <2>1, <2>2
    <3> QED
      BY <2>2, <3>1 DEF Shown
  <2>4. stats \in Accs /\ Describes(stats, F, D)
    BY StatsDescribe DEF IInv
  <2>5. D \in SUBSET Shown(log) /\ Valued(F, D)
    BY <2>1, LevelsAre
  <2>6. value = [k \in D |-> F[k]]
    BY <2>3, <2>5 DEF Levels
  <2> HIDE DEF shown, value, stats, F, D
  <2>7. stats.count = Cardinality(shown) /\ stats.sum = Total(value)
    BY <2>3, <2>4, <2>6 DEF Describes
  <2>8. ASSUME shown # {}
        PROVE  /\ stats.min = Min({value[k] : k \in shown})
               /\ stats.max = Max({value[k] : k \in shown})
               /\ stats.last = value[Max(shown)]
    <3>1. \A k \in D : value[k] = F[k] /\ F[k] \in Int /\ k \in Int
      BY <2>5, <2>6 DEF Valued
    <3>2. stats.min \in Int /\ stats.max \in Int
      BY <2>4 DEF Accs
    <3>3. /\ \E k \in D : stats.min = F[k]
          /\ \E k \in D : stats.max = F[k]
          /\ \A k \in D : stats.min <= F[k] /\ F[k] <= stats.max
      BY <2>3, <2>4, <2>8 DEF Describes
    <3>4. PICK l \in D : stats.last = F[l] /\ \A j \in D : j <= l
      BY <2>3, <2>4, <2>8 DEF Describes
    <3> DEFINE V == {value[k] : k \in shown}
    <3>5. /\ stats.min \in V /\ stats.max \in V /\ V \subseteq Int
          /\ \A v \in V : stats.min <= v /\ v <= stats.max
      BY <2>3, <3>1, <3>3
    <3> HIDE DEF V
    <3>6. stats.min = Min(V)
      <4>1. \A x \in V : (\A y \in V : x <= y) => x = stats.min
        BY <3>2, <3>5
      <4> QED
        BY <3>5, <4>1 DEF Min
    <3>7. stats.max = Max(V)
      <4>1. \A x \in V : (\A y \in V : x >= y) => x = stats.max
        BY <3>2, <3>5
      <4>2. \A y \in V : stats.max >= y
        BY <3>2, <3>5
      <4> QED
        BY <3>5, <4>1, <4>2 DEF Max
    <3>8. l = Max(shown)
      <4>1. l \in D /\ \A y \in D : l >= y
        BY <3>1, <3>4
      <4>2. \A x \in D : (\A y \in D : x >= y) => x = l
        BY <3>1, <4>1
      <4> QED
        BY <2>3, <4>1, <4>2 DEF Max
    <3> QED
      BY <3>1, <3>4, <3>6, <3>7, <3>8 DEF V
  <2> QED
    BY <2>7, <2>8 DEF StatsExact, shown, value, stats
<1> QED
  BY Inductive, <1>1, PTL
=============================================================================
