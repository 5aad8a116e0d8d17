----------------------------- MODULE KvCacheProofs -----------------------------
(***************************************************************************)
(* Proofs about KvCache, for any number of tokens, any widths of appends,  *)
(* any group size and residual length.                                     *)
(*                                                                         *)
(* The invariant says of every stream what it is a function of: the loop,  *)
(* the number of tokens, and what the packed parts of the earlier loops    *)
(* decode to.  These equations have one solution, whatever appends led to  *)
(* it, and from_loops is another way to solve them.                        *)
(***************************************************************************)
EXTENDS KvCache, SequenceTheorems, TLAPS

(***************************************************************************)
(* The inductive invariant.                                                *)
(***************************************************************************)

\* What the first `loop` streams decode to, for the packed token i.
Summands(a, ss, loop, i) == [j \in 1 .. loop |-> Decode(a, ss[j].packed, i)]

\* The rows that a loop packs of b tokens, the first of them number f + 1.
Rows(a, ss, l, f, b) ==
    [i \in 1 .. b |-> [of |-> <<l, f + i>>, minus |-> Summands(a, ss, l - 1, i)]]

\* The stream of loop l for n tokens from f + 1 on.
Stream(a, ss, l, f, n) ==
    [packed |-> Pack(a, Rows(a, ss, l, f, Boundary(n))),
     tail   |-> [i \in 1 .. n - Boundary(n) |-> <<l, f + Boundary(n) + i>>]]

\* The streams of the first l loops.
Built(a, ss, l, f, n) == ss = [m \in 1 .. l |-> Stream(a, ss, m, f, n)]

Settings == group \in GroupSizes /\ residual \in ResidualLengths

IInv ==
    /\ Settings
    /\ Tokens \in Nat
    /\ streams = [a \in Axes |-> streams[a]]
    /\ \A a \in Axes : Built(a, streams[a], Loops, 0, Tokens)

(***************************************************************************)
(* Arithmetic of groups.                                                   *)
(***************************************************************************)

\* A positive number of groups has at least the tokens of one.
LEMMA WholeGroups ==
    ASSUME NEW g \in Nat \ {0}, NEW d \in Int, d >= 1 PROVE g * d >= g /\ g * d \in Nat
OBVIOUS

\* The quotient is the group a number falls into.
LEMMA Quotient ==
    ASSUME NEW g \in Nat \ {0}, NEW x \in Int, NEW q \in Int
    PROVE  x \div g = q <=> g * q <= x /\ x < g * q + g
<1> DEFINE p == x \div g
<1>1. p \in Int /\ g * p <= x /\ x < g * p + g
  OBVIOUS
<1> HIDE DEF p
<1>2. ASSUME g * q <= x, x < g * q + g, q # p PROVE FALSE
  <2>1. CASE q >= p + 1
    <3>1. g * (q - p) >= g /\ g * (q - p) = g * q - g * p
      BY <1>1, <2>1, WholeGroups
    <3>2. QED
      BY <1>1, <1>2, <3>1
  <2>2. CASE p >= q + 1
    <3>1. g * (p - q) >= g /\ g * (p - q) = g * p - g * q
      BY <1>1, <2>2, WholeGroups
    <3>2. QED
      BY <1>1, <1>2, <3>1
  <2>3. QED
    BY <1>1, <1>2, <2>1, <2>2
<1>3. p = q <=> g * q <= x /\ x < g * q + g
  BY <1>1, <1>2
<1>4. QED
  BY <1>3 DEF p

\* Quotient and remainder.
LEMMA Remainder ==
    ASSUME NEW g \in Nat \ {0}, NEW x \in Int PROVE x = g * (x \div g) + (x % g)
OBVIOUS

\* The values of the settings.
LEMMA SettingTypes == Settings => group \in Nat \ {0} /\ residual \in Nat
BY CacheAssumption DEF Settings

\* What the boundary is: whole groups, as many as leave the residual exact.
LEMMA BoundaryIs ==
    ASSUME Settings, NEW n \in Nat
    PROVE  \E q \in Nat : /\ Boundary(n) = group * q
                          /\ q > 0 => group * q + residual <= n
                          /\ n < residual + group * q + group
<1> USE SettingTypes
<1> DEFINE q == (n - residual) \div group
<1>1. q \in Int /\ group * q <= n - residual /\ n - residual < group * q + group
  OBVIOUS
<1>2. Boundary(n) = IF q > 0 THEN q * group ELSE 0
  BY DEF Boundary
<1> HIDE DEF q
<1>3. CASE q > 0
  <2>1. q * group = group * q
    BY <1>1
  <2>2. QED
    BY <1>1, <1>2, <1>3, <2>1
<1>4. CASE ~(q > 0)
  <2>1. group * (-q) >= 0 /\ group * (-q) = -(group * q)
    <3>1. CASE q = 0
      BY <3>1
    <3>2. CASE q # 0
      BY <1>1, <1>4, <3>2, WholeGroups
    <3>3. QED
      BY <3>1, <3>2
  <2>2. Boundary(n) = group * 0 /\ n < residual + group * 0 + group
    BY <1>1, <1>2, <1>4, <2>1
  <2>3. QED
    BY <2>2
<1>5. QED
  BY <1>3, <1>4

\* Nothing else is.
LEMMA BoundaryUnique ==
    ASSUME Settings, NEW n \in Nat, NEW p \in Nat,
           p > 0 => group * p + residual <= n, n < residual + group * p + group
    PROVE  Boundary(n) = group * p
<1> USE SettingTypes
<1>1. PICK q \in Nat : /\ Boundary(n) = group * q
                       /\ q > 0 => group * q + residual <= n
                       /\ n < residual + group * q + group
  BY BoundaryIs
<1>2. CASE q >= p + 1
  <2>1. group * (q - p) >= group /\ group * (q - p) = group * q - group * p
    BY <1>2, WholeGroups
  <2>2. group * p \in Nat /\ group * q \in Nat
    OBVIOUS
  <2>3. QED
    BY <1>1, <1>2, <2>1, <2>2
<1>3. CASE p >= q + 1
  <2>1. group * (p - q) >= group /\ group * (p - q) = group * p - group * q
    BY <1>3, WholeGroups
  <2>2. group * p \in Nat /\ group * q \in Nat
    OBVIOUS
  <2>3. QED
    BY <1>1, <1>3, <2>1, <2>2
<1>4. QED
  BY <1>1, <1>2, <1>3

\* The boundary is never behind the end.
LEMMA BoundaryFits ==
    ASSUME Settings, NEW n \in Nat PROVE Boundary(n) \in Nat /\ Boundary(n) <= n
<1> USE SettingTypes
<1>1. PICK q \in Nat : /\ Boundary(n) = group * q
                       /\ q > 0 => group * q + residual <= n
                       /\ n < residual + group * q + group
  BY BoundaryIs
<1>2. group * q \in Nat /\ (q = 0 => group * q = 0)
  OBVIOUS
<1>3. QED
  BY <1>1, <1>2

\* Tokens that come after a boundary are cut as if they were alone: what is
\* pending, the exact tail included, decides.
LEMMA BoundaryGrows ==
    ASSUME Settings, NEW n \in Nat, NEW k \in Nat, k >= n - Boundary(n)
    PROVE  Boundary(Boundary(n) + k) = Boundary(n) + Boundary(k)
<1> USE SettingTypes
<1>1. PICK q \in Nat : /\ Boundary(n) = group * q
                       /\ q > 0 => group * q + residual <= n
                       /\ n < residual + group * q + group
  BY BoundaryIs
<1>2. PICK p \in Nat : /\ Boundary(k) = group * p
                       /\ p > 0 => group * p + residual <= k
                       /\ k < residual + group * p + group
  BY BoundaryIs
<1>3. group * q \in Nat /\ group * p \in Nat /\ group * (q + p) = group * q + group * p
  OBVIOUS
<1>4. group * q + k \in Nat /\ q + p \in Nat
  BY <1>3
<1>5. group * q + k < residual + group * (q + p) + group
  BY <1>2, <1>3
<1>6. q + p > 0 => group * (q + p) + residual <= group * q + k
  <2>1. p > 0 => group * (q + p) + residual <= group * q + k
    BY <1>2, <1>3
  <2>2. q > 0 /\ p = 0 => group * (q + p) + residual <= group * q + k
    BY <1>1, <1>3
  <2>3. QED
    BY <2>1, <2>2
<1>7. Boundary(group * q + k) = group * (q + p)
  BY <1>4, <1>5, <1>6, BoundaryUnique
<1>8. QED
  BY <1>1, <1>2, <1>3, <1>7

\* Without a whole group behind the residual nothing is packed.
LEMMA NothingPacked ==
    ASSUME Settings, NEW k \in Nat, k < residual + group PROVE Boundary(k) = 0
<1> USE SettingTypes
<1>1. k < residual + group * 0 + group /\ group * 0 = 0
  OBVIOUS
<1>2. QED
  BY <1>1, BoundaryUnique

(***************************************************************************)
(* Sequences, as functions.                                                *)
(***************************************************************************)

Tuple(s, n) == s = [i \in 1 .. n |-> s[i]]

\* Concatenation, part, and extension, element by element.
Joined(s, t, n, m) == [i \in 1 .. n + m |-> IF i <= n THEN s[i] ELSE t[i - n]]
Slice(s, p, q) == [i \in 1 .. q - p + 1 |-> s[p + i - 1]]
Extended(s, e, n) == [i \in 1 .. n + 1 |-> IF i <= n THEN s[i] ELSE e]

\* A function on 1 .. n is a sequence.
LEMMA TupleSeq ==
    ASSUME NEW n \in Nat, NEW s, Tuple(s, n), NEW S, \A i \in 1 .. n : s[i] \in S
    PROVE  s \in Seq(S) /\ Len(s) = n /\ DOMAIN s = 1 .. n
BY DEF Tuple

\* Its length is n.
LEMMA TupleLen ==
    ASSUME NEW n \in Nat, NEW s, Tuple(s, n) PROVE Len(s) = n /\ DOMAIN s = 1 .. n
BY TupleSeq DEF Tuple

\* Concatenation, element by element.
LEMMA TupleConcat ==
    ASSUME NEW n \in Nat, NEW m \in Nat, NEW s, NEW t, Tuple(s, n), Tuple(t, m)
    PROVE  s \o t = Joined(s, t, n, m)
<1> USE DEF Joined
<1> DEFINE S == {s[i] : i \in 1 .. n} \cup {t[i] : i \in 1 .. m}
           r == Joined(s, t, n, m)
<1>a. (\A i \in 1 .. n : s[i] \in S) /\ (\A i \in 1 .. m : t[i] \in S)
  OBVIOUS
<1> HIDE DEF S
<1>1. s \in Seq(S) /\ Len(s) = n
  BY <1>a, TupleSeq
<1>2. t \in Seq(S) /\ Len(t) = m
  BY <1>a, TupleSeq
<1>3. r \in Seq(S) /\ Len(r) = n + m
  <2>1. \A i \in 1 .. n + m : r[i] \in S
    BY <1>a
  <2>2. Tuple(r, n + m)
    BY DEF Tuple
  <2>3. PICK k \in Nat : k = n + m
    OBVIOUS
  <2> HIDE DEF r
  <2>4. QED
    BY <2>1, <2>2, <2>3, TupleSeq
<1>4. /\ s \o t \in Seq(S) /\ Len(s \o t) = n + m
      /\ \A i \in 1 .. n + m : (s \o t)[i] = r[i]
  BY <1>1, <1>2, ConcatProperties
<1> HIDE DEF r
<1>5. s \o t = r
  BY <1>3, <1>4, SeqEqual
<1>6. QED
  BY <1>5 DEF r

\* A part of a tuple, element by element.
LEMMA TupleSub ==
    ASSUME NEW n \in Nat, NEW s, Tuple(s, n),
           NEW p \in Nat, NEW q \in Nat, p >= 1, q <= n, p <= q + 1
    PROVE  SubSeq(s, p, q) = Slice(s, p, q)
<1> USE DEF Slice
<1> DEFINE S == {s[i] : i \in 1 .. n}
           r == Slice(s, p, q)
<1>1. \A i \in p .. q : s[i] \in S
  OBVIOUS
<1>2. r \in Seq(S) /\ Len(r) = q - p + 1
  <2>1. \A i \in 1 .. q - p + 1 : r[i] \in S
    OBVIOUS
  <2>2. Tuple(r, q - p + 1) /\ q - p + 1 \in Nat
    BY DEF Tuple
  <2>3. QED
    BY <2>1, <2>2, TupleSeq
<1> HIDE DEF S
<1>3. /\ SubSeq(s, p, q) \in Seq(S) /\ Len(SubSeq(s, p, q)) = q - p + 1
      /\ \A i \in 1 .. q - p + 1 : SubSeq(s, p, q)[i] = s[p + i - 1]
  BY <1>1, SubSeqProperties
<1>4. \A i \in 1 .. q - p + 1 : SubSeq(s, p, q)[i] = r[i]
  BY <1>3
<1> HIDE DEF r
<1>5. SubSeq(s, p, q) = r
  BY <1>2, <1>3, <1>4, SeqEqual
<1>6. QED
  BY <1>5 DEF r

\* What is left behind the first b elements.
LEMMA TupleRest ==
    ASSUME NEW n \in Nat, NEW s, Tuple(s, n), NEW b \in Nat, b <= n
    PROVE  SubSeq(s, b + 1, n) = Slice(s, b + 1, n)
<1>1. PICK p \in Nat : p = b + 1
  OBVIOUS
<1>2. p >= 1 /\ n <= n /\ p <= n + 1
  BY <1>1
<1>3. SubSeq(s, p, n) = Slice(s, p, n)
  BY <1>2, TupleSub
<1>4. QED
  BY <1>1, <1>3

\* One more element at the end.
LEMMA TupleAppend ==
    ASSUME NEW n \in Nat, NEW s, Tuple(s, n), NEW e
    PROVE  Append(s, e) = Extended(s, e, n)
<1> USE DEF Extended
<1> DEFINE S == {s[i] : i \in 1 .. n} \cup {e}
           r == Extended(s, e, n)
<1>1. s \in Seq(S) /\ Len(s) = n
  <2>1. \A i \in 1 .. n : s[i] \in S
    OBVIOUS
  <2>2. QED
    BY <2>1, TupleSeq
<1>2. e \in S
  OBVIOUS
<1>3. r \in Seq(S) /\ Len(r) = n + 1
  <2>1. \A i \in 1 .. n + 1 : r[i] \in S
    OBVIOUS
  <2>2. Tuple(r, n + 1)
    BY DEF Tuple
  <2>3. QED
    BY <2>1, <2>2, TupleSeq
<1> HIDE DEF S
<1>4. /\ Append(s, e) \in Seq(S) /\ Len(Append(s, e)) = n + 1
      /\ \A i \in 1 .. n : Append(s, e)[i] = s[i]
      /\ Append(s, e)[n + 1] = e
  BY <1>1, <1>2, AppendProperties
<1>5. \A i \in 1 .. n + 1 : Append(s, e)[i] = r[i]
  BY <1>4
<1> HIDE DEF r
<1>6. Append(s, e) = r
  BY <1>3, <1>4, <1>5, SeqEqual
<1>7. QED
  BY <1>6 DEF r

(***************************************************************************)
(* Packing: what a row of packed tokens decodes to.                        *)
(***************************************************************************)

\* The values that share the minimum and the scale of row i.
Mates(a, xs, i) ==
    IF a = "key" THEN {xs[j] : j \in {k \in DOMAIN xs : (k - 1) \div group = (i - 1) \div group}}
                 ELSE {xs[i]}

\* Whole groups have one row of metadata each.
LEMMA KeyGroups ==
    ASSUME Settings, NEW q \in Nat, NEW xs, Tuple(xs, group * q)
    PROVE  /\ DOMAIN Metadata("key", xs) = 1 .. q
           /\ \A k \in 0 .. q - 1 :
                Metadata("key", xs)[k + 1] =
                  {xs[i] : i \in {j \in 1 .. group * q : (j - 1) \div group = k}}
<1> USE SettingTypes
<1>1. group * q \in Nat
  OBVIOUS
<1>2. Len(xs) = group * q /\ DOMAIN xs = 1 .. group * q
  BY <1>1, TupleLen
<1>3. (group * q + group - 1) \div group = q
  <2>1. PICK x \in Int : x = group * q + group - 1
    BY <1>1
  <2>2. group * q <= x /\ x < group * q + group
    BY <1>1, <2>1
  <2>3. QED
    BY <2>1, <2>2, Quotient
<1>4. Metadata("key", xs) =
        [k \in 1 .. q |-> {xs[i] : i \in {j \in 1 .. group * q : (j - 1) \div group = k - 1}}]
  BY <1>2, <1>3 DEF Metadata
<1>5. ASSUME NEW k \in 0 .. q - 1
      PROVE  Metadata("key", xs)[k + 1] =
               {xs[i] : i \in {j \in 1 .. group * q : (j - 1) \div group = k}}
  <2>1. k + 1 \in 1 .. q /\ (k + 1) - 1 = k
    OBVIOUS
  <2>2. Metadata("key", xs)[k + 1] =
          {xs[i] : i \in {j \in 1 .. group * q : (j - 1) \div group = (k + 1) - 1}}
    BY <1>4, <2>1
  <2>3. QED
    BY <2>1, <2>2
<1>6. QED
  BY <1>4, <1>5

\* ... which the tokens of that group use.
LEMMA KeyMates ==
    ASSUME Settings, NEW q \in Nat, NEW xs, Tuple(xs, group * q),
           NEW k \in 1 .. q, NEW i \in Int, (i - 1) \div group = k - 1
    PROVE  Metadata("key", xs)[k] = Mates("key", xs, i)
<1> USE SettingTypes
<1>1. DOMAIN xs = 1 .. group * q
  <2>1. group * q \in Nat
    OBVIOUS
  <2>2. QED
    BY <2>1, TupleLen
<1>2. \A x \in 0 .. q - 1 :
        Metadata("key", xs)[x + 1] =
          {xs[j] : j \in {m \in 1 .. group * q : (m - 1) \div group = x}}
  BY KeyGroups
<1>3. k - 1 \in 0 .. q - 1 /\ (k - 1) + 1 = k
  OBVIOUS
<1>4. Metadata("key", xs)[k] =
        {xs[j] : j \in {m \in 1 .. group * q : (m - 1) \div group = k - 1}}
  BY <1>2, <1>3
<1>5. Mates("key", xs, i) =
        {xs[j] : j \in {m \in 1 .. group * q : (m - 1) \div group = (i - 1) \div group}}
  BY <1>1 DEF Mates
<1>6. QED
  BY <1>4, <1>5

\* A token of group k is between the ends of that group.
LEMMA InGroup ==
    ASSUME Settings, NEW i \in Nat \ {0}, NEW q \in Nat, i <= group * q
    PROVE  (i - 1) \div group \in 0 .. q - 1
<1> USE SettingTypes
<1> DEFINE k == (i - 1) \div group
<1>1. k \in Int /\ group * k <= i - 1 /\ i - 1 < group * k + group
  OBVIOUS
<1> HIDE DEF k
<1>2. ~(k >= q)
  <2>1. SUFFICES ASSUME k >= q PROVE FALSE
    OBVIOUS
  <2>2. group * (k - q) >= 0 /\ group * (k - q) = group * k - group * q
    BY <1>1, <2>1
  <2>3. QED
    BY <1>1, <2>2
<1>3. ~(k <= -1)
  <2>1. SUFFICES ASSUME -k >= 1 PROVE FALSE
    BY <1>1
  <2>2. group * (-k) >= group /\ group * (-k) = -(group * k)
    BY <1>1, <2>1, WholeGroups
  <2>3. QED
    BY <1>1, <2>2
<1>4. k \in 0 .. q - 1
  BY <1>1, <1>2, <1>3
<1>5. QED
  BY <1>4 DEF k

\* A packed row decodes to itself and the values it was packed with.
LEMMA DecodePacked ==
    ASSUME Settings, NEW a \in Axes, NEW q \in Nat, NEW xs, Tuple(xs, group * q),
           NEW i \in 1 .. group * q
    PROVE  Decode(a, Pack(a, xs), i) = <<xs[i], Mates(a, xs, i)>>
<1> USE SettingTypes
<1>1. group * q \in Nat
  OBVIOUS
<1>2. Len(xs) = group * q /\ DOMAIN xs = 1 .. group * q
  BY <1>1, TupleLen
<1>3. CASE a = "key"
  <2> DEFINE k == (i - 1) \div group
  <2>1. k \in 0 .. q - 1
    BY <1>1, InGroup
  <2>2. MetaIndex(a, i) = k + 1
    BY <1>3 DEF MetaIndex
  <2>3. k = (k + 1) - 1 /\ k + 1 \in 1 .. q
    BY <2>1
  <2>4. Metadata(a, xs)[k + 1] = Mates(a, xs, i)
    BY <1>3, <2>3, KeyMates
  <2> HIDE DEF k
  <2>5. k + 1 \in DOMAIN Metadata(a, xs)
    BY <1>3, <2>1, KeyGroups
  <2>6. QED
    BY <2>2, <2>4, <2>5 DEF Decode, Pack
<1>4. CASE a = "value"
  BY <1>2, <1>4 DEF Decode, Pack, Metadata, MetaIndex, Mates
<1>5. QED
  BY <1>3, <1>4 DEF Axes

\* The group a token falls into when whole groups come before it.
LEMMA ShiftedGroup ==
    ASSUME Settings, NEW q \in Nat, NEW i \in Int
    PROVE  (i - 1) \div group = q + (i - group * q - 1) \div group
<1> USE SettingTypes
<1> DEFINE k == (i - group * q - 1) \div group
<1>1. group * q \in Nat
  OBVIOUS
<1>2. k \in Int /\ group * k <= i - group * q - 1 /\ i - group * q - 1 < group * k + group
  BY <1>1
<1> HIDE DEF k
<1>3. /\ group * (q + k) = group * q + group * k
      /\ group * k \in Int /\ q + k \in Int /\ i - 1 \in Int
  BY <1>2
<1>4. group * (q + k) <= i - 1 /\ i - 1 < group * (q + k) + group
  BY <1>1, <1>2, <1>3
<1>5. (i - 1) \div group = q + k
  BY <1>3, <1>4, Quotient
<1>6. QED
  BY <1>5 DEF k

\* Groups of tokens that are there are counted from zero.
LEMMA GroupNumber ==
    ASSUME Settings, NEW x \in Nat PROVE x \div group \in Nat
<1> USE SettingTypes
<1> DEFINE k == x \div group
<1>1. k \in Int /\ x < group * k + group
  OBVIOUS
<1> HIDE DEF k
<1>2. ~(-k >= 1)
  <2>1. SUFFICES ASSUME -k >= 1 PROVE FALSE
    OBVIOUS
  <2>2. group * (-k) >= group /\ group * (-k) = -(group * k) /\ group * k \in Int
    BY <1>1, <2>1, WholeGroups
  <2>3. QED
    BY <1>1, <2>2
<1>3. k \in Nat
  BY <1>1, <1>2
<1>4. QED
  BY <1>3 DEF k

\* The rows of the two parts keep the company they had.
LEMMA MatesJoined ==
    ASSUME Settings, NEW a \in Axes, NEW q \in Nat, NEW p \in Nat, NEW xs, NEW ys,
           Tuple(xs, group * q), Tuple(ys, group * p), NEW i \in 1 .. group * q + group * p
    PROVE  Mates(a, Joined(xs, ys, group * q, group * p), i) =
             IF i <= group * q THEN Mates(a, xs, i) ELSE Mates(a, ys, i - group * q)
<1> USE SettingTypes
<1> DEFINE n == group * q
           m == group * p
           zs == Joined(xs, ys, n, m)
           g(j) == (j - 1) \div group
<1>1. n \in Nat /\ m \in Nat
  OBVIOUS
<1>2. /\ DOMAIN xs = 1 .. n /\ DOMAIN ys = 1 .. m /\ DOMAIN zs = 1 .. n + m
      /\ \A j \in 1 .. n + m : zs[j] = IF j <= n THEN xs[j] ELSE ys[j - n]
  BY <1>1, TupleLen DEF Joined
<1>3. \A j \in Int : g(j) = q + g(j - n) /\ g(j) \in Int
  <2>1. ASSUME NEW j \in Int PROVE g(j) = q + g(j - n)
    BY <2>1, ShiftedGroup
  <2>2. ASSUME NEW j \in Int PROVE g(j) \in Int
    OBVIOUS
  <2>3. QED
    BY <2>1, <2>2
<1>4. \A j \in 1 .. n : g(j) <= q - 1
  BY <1>1, InGroup
<1>5. \A j \in Int : j > n => g(j) >= q
  <2>1. ASSUME NEW j \in Int, j > n PROVE g(j - n) >= 0
    <3>1. j - n - 1 \in Nat
      BY <1>1, <2>1
    <3>2. QED
      BY <3>1, GroupNumber
  <2>2. QED
    BY <1>1, <1>3, <2>1
<1> HIDE DEF zs, n, m
<1>6. CASE a = "value"
  BY <1>1, <1>2, <1>6 DEF Mates, zs, n, m
<1>7. CASE a = "key" /\ i <= n
  <2>1. {j \in 1 .. n + m : g(j) = g(i)} = {j \in 1 .. n : g(j) = g(i)}
    BY <1>1, <1>4, <1>5, <1>7, i \in 1 .. n + m DEF n, m
  <2> DEFINE here == {j \in 1 .. n : g(j) = g(i)}
  <2>2. \A j \in here : zs[j] = xs[j]
    BY <1>1, <1>2
  <2> HIDE DEF here
  <2>3. {zs[j] : j \in here} = {xs[j] : j \in here}
    BY <2>2
  <2>4. QED
    BY <1>2, <1>7, <2>1, <2>3 DEF Mates, zs, n, m, here
<1>8. CASE a = "key" /\ ~(i <= n)
  <2> DEFINE here == {k \in 1 .. n + m : g(k) = g(i)}
             there == {k \in 1 .. m : g(k) = g(i - n)}
  <2>1. i > n /\ i \in Int
    BY <1>1, <1>8 DEF n, m
  <2>2. ASSUME NEW j \in here PROVE j - n \in there /\ zs[j] = ys[j - n]
    <3>1. j > n
      BY <1>1, <1>3, <1>4, <1>5, <2>1
    <3>2. g(j - n) = g(i - n)
      BY <1>1, <1>3, <2>1
    <3>3. QED
      BY <1>1, <1>2, <3>1, <3>2
  <2>3. ASSUME NEW j \in there PROVE j + n \in here /\ zs[j + n] = ys[j]
    <3>1. g(j + n) = q + g(j) /\ g(i) = q + g(i - n)
      <4>1. (j + n) - n = j /\ j + n \in Int
        BY <1>1
      <4>2. QED
        BY <1>3, <2>1, <4>1
    <3>2. QED
      BY <1>1, <1>2, <3>1
  <2> HIDE DEF here, there
  <2>4. {zs[j] : j \in here} = {ys[j] : j \in there}
    <3>1. \A j \in here : \E k \in there : zs[j] = ys[k]
      BY <2>2
    <3>2. \A j \in there : \E k \in here : ys[j] = zs[k]
      BY <2>3
    <3>3. QED
      BY <3>1, <3>2
  <2>5. QED
    BY <1>2, <1>8, <2>4 DEF Mates, zs, n, m, here, there
<1>9. QED
  BY <1>6, <1>7, <1>8 DEF Axes, n, m, zs

\* Joining what was packed is packing what is joined.
LEMMA PackJoined ==
    ASSUME Settings, NEW a \in Axes, NEW q \in Nat, NEW p \in Nat, NEW xs, NEW ys,
           Tuple(xs, group * q), Tuple(ys, group * p)
    PROVE  Join(Pack(a, xs), Pack(a, ys)) = Pack(a, Joined(xs, ys, group * q, group * p))
<1> USE SettingTypes
<1>n. PICK n \in Nat : n = group * q
  OBVIOUS
<1>m. PICK m \in Nat : m = group * p
  OBVIOUS
<1>t. Tuple(xs, n) /\ Tuple(ys, m)
  BY <1>n, <1>m
<1> DEFINE zs == Joined(xs, ys, n, m)
<1>1. group * (q + p) = n + m /\ q + p \in Nat
  BY <1>n, <1>m
<1>2. Tuple(zs, n + m)
  BY <1>1 DEF Joined, Tuple
<1>3. xs \o ys = zs
  BY <1>t, TupleConcat
<1>4. DOMAIN xs = 1 .. n /\ DOMAIN ys = 1 .. m /\ DOMAIN zs = 1 .. n + m
  BY <1>t, <1>2, TupleLen
<1>5. \A j \in 1 .. n + m : zs[j] = IF j <= n THEN xs[j] ELSE ys[j - n]
  BY <1>1 DEF Joined
<1>6. \A i \in 1 .. n + m :
        Mates(a, zs, i) = IF i <= n THEN Mates(a, xs, i) ELSE Mates(a, ys, i - n)
  BY <1>n, <1>m, MatesJoined
<1> HIDE DEF zs
<1>7. Metadata(a, xs) \o Metadata(a, ys) = Metadata(a, zs)
  <2>1. CASE a = "key"
    <3> DEFINE M(s) == Metadata("key", s)
    <3>1. M(xs) = [k \in 1 .. q |-> M(xs)[k]] /\ M(ys) = [k \in 1 .. p |-> M(ys)[k]]
      <4>1. DOMAIN M(xs) = 1 .. q /\ DOMAIN M(ys) = 1 .. p
        BY KeyGroups
      <4>2. QED
        BY <4>1 DEF Metadata
    <3>2. M(zs) = [k \in 1 .. q + p |-> M(zs)[k]]
      <4>1. DOMAIN M(zs) = 1 .. q + p
        BY <1>1, <1>2, KeyGroups
      <4>2. QED
        BY <4>1 DEF Metadata
    <3>3. ASSUME NEW k \in 1 .. q + p PROVE M(zs)[k] = IF k <= q THEN M(xs)[k] ELSE M(ys)[k - q]
      <4>1. PICK i \in 1 .. n + m : /\ (i - 1) \div group = k - 1
                                    /\ i <= n <=> k <= q
        <5>1. group * (k - 1) \in Nat /\ group * k = group * (k - 1) + group
          OBVIOUS
        <5>x. PICK x \in Nat : x = group * (k - 1)
          BY <5>1
        <5>2. k <= q => x + group <= n
          <6>1. k <= q => group * (q - k) >= 0 /\ group * (q - k) = n - group * k
            BY <1>n
          <6>2. QED
            BY <5>1, <5>x, <6>1
        <5>3. k > q => x >= n
          <6>1. k > q => group * (k - 1 - q) >= 0 /\ group * (k - 1 - q) = group * (k - 1) - n
            BY <1>n
          <6>2. QED
            BY <5>x, <6>1
        <5>4. x + group <= n + m
          <6>1. group * (q + p - k) >= 0 /\ group * (q + p - k) = group * (q + p) - group * k
            OBVIOUS
          <6>2. QED
            BY <1>1, <5>1, <5>x, <6>1
        <5>5. (x + group - 1) \div group = k - 1
          <6>1. group * (k - 1) <= x + group - 1 /\ x + group - 1 < group * (k - 1) + group
            BY <5>x
          <6>2. k - 1 \in Int /\ x + group - 1 \in Int
            OBVIOUS
          <6>3. QED
            BY <6>1, <6>2, Quotient
        <5>6. x + group \in 1 .. n + m
          BY <5>4
        <5>7. x + group <= n <=> k <= q
          BY <5>2, <5>3
        <5> WITNESS x + group \in 1 .. n + m
        <5>9. QED
          BY <5>5, <5>7
      <4>2. M(zs)[k] = Mates("key", zs, i)
        BY <1>1, <1>2, <4>1, KeyMates
      <4>3. CASE k <= q
        <5>1. M(xs)[k] = Mates("key", xs, i)
          BY <4>1, <4>3, KeyMates
        <5>2. QED
          BY <1>6, <2>1, <4>1, <4>2, <4>3, <5>1
      <4>4. CASE ~(k <= q)
        <5>1. (i - n - 1) \div group = k - q - 1
          <6>1. (i - n - 1) \div group \in Int /\ i \in Int
            BY <1>1
          <6>2. (i - 1) \div group = q + (i - n - 1) \div group
            BY <1>n, <6>1, ShiftedGroup
          <6>3. PICK y \in Int : y = (i - n - 1) \div group
            BY <6>1
          <6>4. k - 1 = q + y
            BY <4>1, <6>2, <6>3
          <6>5. QED
            BY <6>3, <6>4
        <5>2. M(ys)[k - q] = Mates("key", ys, i - n)
          <6>1. k - q \in 1 .. p /\ i - n \in Int /\ (k - q) - 1 = k - q - 1
            BY <1>1, <4>4
          <6>2. QED
            BY <5>1, <6>1, KeyMates
        <5>3. QED
          BY <1>6, <2>1, <4>1, <4>2, <4>4, <5>2
      <4>5. QED
        BY <4>3, <4>4
    <3> HIDE DEF M
    <3>4. M(xs) \o M(ys) = Joined(M(xs), M(ys), q, p)
      <4>1. Tuple(M(xs), q) /\ Tuple(M(ys), p)
        BY <3>1 DEF Tuple
      <4>2. QED
        BY <4>1, TupleConcat
    <3>5. M(xs) \o M(ys) = M(zs)
      BY <3>2, <3>3, <3>4 DEF Joined
    <3>6. QED
      BY <2>1, <3>5 DEF M
  <2>2. CASE a = "value"
    <3> DEFINE M(s) == Metadata("value", s)
    <3>1. M(xs) = [k \in 1 .. n |-> {xs[k]}] /\ M(ys) = [k \in 1 .. m |-> {ys[k]}]
      BY <1>4 DEF Metadata
    <3>2. M(zs) = [k \in 1 .. n + m |-> {zs[k]}]
      BY <1>4 DEF Metadata
    <3> HIDE DEF M
    <3>3. Tuple(M(xs), n) /\ Tuple(M(ys), m)
      BY <3>1 DEF Tuple
    <3>4. M(xs) \o M(ys) = Joined(M(xs), M(ys), n, m)
      BY <3>3, TupleConcat
    <3>5. \A k \in 1 .. n + m : {zs[k]} = IF k <= n THEN M(xs)[k] ELSE M(ys)[k - n]
      BY <1>1, <1>5, <3>1
    <3>6. M(xs) \o M(ys) = M(zs)
      BY <3>2, <3>4, <3>5 DEF Joined
    <3>7. QED
      BY <2>2, <3>6 DEF M
  <2>3. QED
    BY <2>1, <2>2 DEF Axes
<1>8. Join(Pack(a, xs), Pack(a, ys)) = Pack(a, zs)
  BY <1>3, <1>7 DEF Join, Pack
<1>9. zs = Joined(xs, ys, group * q, group * p)
  BY <1>n, <1>m DEF zs
<1>10. QED
  BY <1>8, <1>9
\* A row of joined packs decodes to what it decoded to in its own pack.
LEMMA DecodeJoined ==
    ASSUME Settings, NEW a \in Axes, NEW q \in Nat, NEW p \in Nat, NEW xs, NEW ys,
           Tuple(xs, group * q), Tuple(ys, group * p), NEW i \in 1 .. group * q + group * p
    PROVE  Decode(a, Join(Pack(a, xs), Pack(a, ys)), i) =
             IF i <= group * q THEN Decode(a, Pack(a, xs), i)
                               ELSE Decode(a, Pack(a, ys), i - group * q)
<1> USE SettingTypes
<1>n. PICK n \in Nat : n = group * q
  OBVIOUS
<1>m. PICK m \in Nat : m = group * p
  OBVIOUS
<1> DEFINE zs == Joined(xs, ys, n, m)
<1>1. group * (q + p) = n + m /\ q + p \in Nat /\ i \in 1 .. n + m
  BY <1>n, <1>m
<1>2. Tuple(zs, group * (q + p)) /\ i \in 1 .. group * (q + p)
  BY <1>1 DEF Joined, Tuple
<1>3. zs[i] = IF i <= n THEN xs[i] ELSE ys[i - n]
  BY <1>1 DEF Joined
<1> HIDE DEF zs
<1>4. Decode(a, Pack(a, zs), i) = <<zs[i], Mates(a, zs, i)>>
  BY <1>1, <1>2, DecodePacked
<1>5. Mates(a, zs, i) = IF i <= n THEN Mates(a, xs, i) ELSE Mates(a, ys, i - n)
  BY <1>n, <1>m, MatesJoined DEF zs
<1>6. Join(Pack(a, xs), Pack(a, ys)) = Pack(a, zs)
  BY <1>n, <1>m, PackJoined DEF zs
<1>7. CASE i <= n
  <2>1. Decode(a, Pack(a, xs), i) = <<xs[i], Mates(a, xs, i)>>
    <3>1. i \in 1 .. group * q
      BY <1>n, <1>7
    <3>2. QED
      BY <3>1, DecodePacked
  <2>2. QED
    BY <1>n, <1>3, <1>4, <1>5, <1>6, <1>7, <2>1
<1>8. CASE ~(i <= n)
  <2>1. Decode(a, Pack(a, ys), i - n) = <<ys[i - n], Mates(a, ys, i - n)>>
    <3>1. i - n \in 1 .. group * p
      BY <1>1, <1>m, <1>8
    <3>2. QED
      BY <3>1, DecodePacked
  <2>2. QED
    BY <1>n, <1>3, <1>4, <1>5, <1>6, <1>8, <2>1
<1>9. QED
  BY <1>7, <1>8

(***************************************************************************)
(* Streams: from_loops and _reconstruct.                                   *)
(***************************************************************************)

\* A stream depends on the packed parts of the earlier loops only.
LEMMA StreamSame ==
    ASSUME NEW a, NEW ss, NEW tt, NEW l \in Nat, NEW f, NEW n,
           \A j \in 1 .. l - 1 : ss[j] = tt[j]
    PROVE  Stream(a, ss, l, f, n) = Stream(a, tt, l, f, n)
<1>1. ASSUME NEW i PROVE Summands(a, ss, l - 1, i) = Summands(a, tt, l - 1, i)
  BY DEF Summands
<1>2. ASSUME NEW b PROVE Rows(a, ss, l, f, b) = Rows(a, tt, l, f, b)
  BY <1>1 DEF Rows
<1>3. QED
  BY <1>2 DEF Stream

\* The packed part of a stream holds the rows up to the boundary.
LEMMA StreamRows ==
    ASSUME NEW a, NEW ss, NEW l, NEW f, NEW n
    PROVE  Stream(a, ss, l, f, n).packed.rows = Rows(a, ss, l, f, Boundary(n))
BY DEF Stream, Pack

\* The exact part is what the boundary leaves.
LEMMA StreamTail ==
    ASSUME NEW a, NEW ss, NEW l, NEW f, NEW n
    PROVE  Stream(a, ss, l, f, n).tail =
             [i \in 1 .. n - Boundary(n) |-> <<l, f + Boundary(n) + i>>]
BY DEF Stream

\* Both parts are sequences of rows.
LEMMA StreamTuples ==
    ASSUME NEW a, NEW ss, NEW l, NEW f, NEW n
    PROVE  /\ Tuple(Rows(a, ss, l, f, Boundary(n)), Boundary(n))
           /\ Tuple(Stream(a, ss, l, f, n).tail, n - Boundary(n))
<1>1. Tuple(Rows(a, ss, l, f, Boundary(n)), Boundary(n))
  BY DEF Tuple, Rows
<1>2. PICK t : t = Stream(a, ss, l, f, n).tail
  OBVIOUS
<1>3. PICK b : b = Boundary(n)
  OBVIOUS
<1>4. t = [i \in 1 .. n - b |-> <<l, f + b + i>>]
  BY <1>2, <1>3, StreamTail
<1>5. Tuple(t, n - b)
  BY <1>4 DEF Tuple
<1>6. QED
  BY <1>1, <1>2, <1>3, <1>5

\* Together they hold the n tokens.
LEMMA StreamLens ==
    ASSUME Settings, NEW a, NEW ss, NEW l, NEW f, NEW n \in Nat
    PROVE  /\ Len(Stream(a, ss, l, f, n).packed.rows) = Boundary(n)
           /\ Len(Stream(a, ss, l, f, n).tail) = n - Boundary(n)
<1>1. PICK b \in Nat, m \in Nat : b = Boundary(n) /\ m = n - Boundary(n)
  BY BoundaryFits
<1>2. PICK r, t : r = Stream(a, ss, l, f, n).packed.rows /\ t = Stream(a, ss, l, f, n).tail
  OBVIOUS
<1>3. Tuple(r, b) /\ Tuple(t, m)
  <2>1. r = Rows(a, ss, l, f, b)
    BY <1>1, <1>2, StreamRows
  <2>2. QED
    BY <1>1, <1>2, <2>1, StreamTuples
<1>4. Len(r) = b /\ Len(t) = m
  BY <1>1, <1>3, TupleLen
<1>5. QED
  BY <1>1, <1>2, <1>4

\* What _reconstruct returns for the tokens start .. end - 1 of n.
Rebuilt(a, ss, loop, f, n, start, end) ==
    [i \in 1 .. end - start |->
       IF start + i <= Boundary(n) THEN Summands(a, ss, loop, start + i)
                                   ELSE <<loop, f + start + i>>]

\* What _reconstruct reads is that, for any interval of the tokens there are.
LEMMA ReconstructIs ==
    ASSUME Settings, NEW a, NEW ss, NEW l \in Nat, NEW f \in Nat, NEW n \in Nat,
           Built(a, ss, l, f, n), NEW loop \in 1 .. l,
           NEW start \in Nat, NEW end \in Nat, start <= end, end <= n
    PROVE  Reconstruct(a, ss, loop, start, end) = Rebuilt(a, ss, loop, f, n, start, end)
<1>b. PICK b \in Nat : b = Boundary(n) /\ b <= n
  BY BoundaryFits
<1>1. ss[1] = Stream(a, ss, 1, f, n) /\ ss[loop] = Stream(a, ss, loop, f, n)
  BY DEF Built
<1>2. Len(ss[1].packed.rows) = b
  <2>1. Len(Stream(a, ss, 1, f, n).packed.rows) = Boundary(n)
    BY StreamLens
  <2>2. QED
    BY <1>b, <1>1, <2>1
<1>3. ss[loop].tail = [i \in 1 .. n - b |-> <<loop, f + b + i>>] /\ Tuple(ss[loop].tail, n - b)
  BY <1>b, <1>1, StreamTail, StreamTuples
<1> DEFINE stop == IF end < b THEN end ELSE b
           count == IF start < b THEN stop - start ELSE 0
           old == [i \in 1 .. count |->
                     [j \in 1 .. loop |-> Decode(a, ss[j].packed, start + i)]]
           from == IF start > b THEN start - b ELSE 0
           size == IF end > b THEN end - b - from ELSE 0
           young == IF end > b THEN SubSeq(ss[loop].tail, from + 1, end - b) ELSE <<>>
<1>4. Reconstruct(a, ss, loop, start, end) = old \o young
  BY <1>2 DEF Reconstruct
<1>5. count \in Nat /\ size \in Nat /\ count + size = end - start
  OBVIOUS
<1>6. old = [i \in 1 .. count |-> Summands(a, ss, loop, start + i)]
  BY DEF Summands
<1>7. young = [i \in 1 .. size |-> <<loop, f + b + from + i>>]
  <2>1. CASE end > b
    <3>1. young = Slice(ss[loop].tail, from + 1, end - b)
      <4>1. PICK h \in Nat, p \in Nat, q \in Nat : h = n - b /\ p = from + 1 /\ q = end - b
        BY <1>b, <2>1
      <4>2. p >= 1 /\ q <= h /\ p <= q + 1
        BY <2>1, <4>1
      <4>3. Tuple(ss[loop].tail, h)
        BY <1>3, <4>1
      <4>4. SubSeq(ss[loop].tail, p, q) = Slice(ss[loop].tail, p, q)
        <5>1. PICK t : t = ss[loop].tail
          OBVIOUS
        <5>2. SubSeq(t, p, q) = Slice(t, p, q)
          BY <4>2, <4>3, <5>1, TupleSub, SMTT(30)
        <5>3. QED
          BY <5>1, <5>2
      <4>5. QED
        BY <2>1, <4>1, <4>4
    <3>2. (end - b) - (from + 1) + 1 = size
      BY <2>1
    <3>3. ASSUME NEW i \in 1 .. size
          PROVE  ss[loop].tail[from + 1 + i - 1] = <<loop, f + b + from + i>>
      <4>1. from + 1 + i - 1 \in 1 .. n - b
        BY <1>b, <2>1
      <4>2. f + b + (from + 1 + i - 1) = f + b + from + i
        BY <1>b
      <4>3. QED
        BY <1>3, <4>1, <4>2
    <3>4. QED
      BY <3>1, <3>2, <3>3 DEF Slice
  <2>2. CASE ~(end > b)
    BY <2>2
  <2>3. QED
    BY <2>1, <2>2
<1> HIDE DEF old, young
<1>8. Tuple(old, count) /\ Tuple(young, size)
  BY <1>6, <1>7 DEF Tuple
<1>9. old \o young = Joined(old, young, count, size)
  BY <1>5, <1>8, TupleConcat
<1>10. ASSUME NEW i \in 1 .. end - start
       PROVE  (IF i <= count THEN old[i] ELSE young[i - count]) =
                IF start + i <= b THEN Summands(a, ss, loop, start + i)
                                  ELSE <<loop, f + start + i>>
  <2>1. CASE i <= count
    BY <1>6, <2>1
  <2>2. CASE ~(i <= count)
    <3>1. i - count \in 1 .. size /\ ~(start + i <= b)
      BY <1>5, <2>2
    <3>2. f + b + from + (i - count) = f + start + i
      BY <1>b, <2>2
    <3>3. QED
      BY <1>7, <2>2, <3>1, <3>2
  <2>3. QED
    BY <2>1, <2>2
<1> HIDE DEF count, size
<1>11. Joined(old, young, count, size) = Rebuilt(a, ss, loop, f, n, start, end)
  BY <1>b, <1>5, <1>10 DEF Joined, Rebuilt
<1>12. QED
  BY <1>4, <1>9, <1>11

\* One loop of from_loops: what it encodes is the difference from what the
\* earlier loops decode to.
LEMMA EncodeBuilds ==
    ASSUME Settings, NEW a, NEW ss, NEW l \in Nat, NEW f \in Nat, NEW n \in Nat,
           Built(a, ss, l, f, n), NEW xs, xs = [i \in 1 .. n |-> <<l + 1, f + i>>]
    PROVE  Built(a, Encode(a, ss, xs), l + 1, f, n)
<1>b. PICK b \in Nat : b = Boundary(n) /\ b <= n
  BY BoundaryFits
<1>1. Tuple(ss, l)
  BY DEF Built, Tuple
<1>2. Tuple(xs, n) /\ Len(xs) = n /\ DOMAIN xs = 1 .. n
  <2>1. Tuple(xs, n)
    BY DEF Tuple
  <2>2. QED
    BY <2>1, TupleLen
<1>3. Len(ss) = l
  BY <1>1, TupleLen
<1> DEFINE ys == IF ss = <<>> THEN Anchored(xs) ELSE Residual(a, xs, ss)
           e == StreamOf(a, xs, ys)
           tt == Append(ss, e)
<1>4. /\ Tuple(ys, n)
      /\ \A i \in 1 .. b : ys[i] = [of |-> <<l + 1, f + i>>, minus |-> Summands(a, ss, l, i)]
  <2>1. CASE l = 0
    <3>1. ss = <<>>
      BY <2>1 DEF Built
    <3>2. ys = [i \in 1 .. n |-> [of |-> xs[i], minus |-> <<>>]]
      BY <1>2, <3>1 DEF Anchored
    <3>3. \A i \in 1 .. b : Summands(a, ss, l, i) = <<>>
      BY <2>1 DEF Summands
    <3> HIDE DEF ys
    <3>4. Tuple(ys, n)
      BY <3>2 DEF Tuple
    <3>5. \A i \in 1 .. b : i \in 1 .. n /\ xs[i] = <<l + 1, f + i>>
      BY <1>b
    <3>6. QED
      BY <3>2, <3>3, <3>4, <3>5
  <2>2. CASE l # 0
    <3>1. ss # <<>>
      BY <1>3, <2>2
    <3>2. Reconstruct(a, ss, l, 0, n) = Rebuilt(a, ss, l, f, n, 0, n)
      BY <2>2, ReconstructIs
    <3>3. ys = [i \in 1 .. n |-> [of |-> xs[i], minus |-> Rebuilt(a, ss, l, f, n, 0, n)[i]]]
      BY <1>2, <1>3, <3>1, <3>2 DEF Residual
    <3> HIDE DEF ys
    <3>4. \A i \in 1 .. b : Rebuilt(a, ss, l, f, n, 0, n)[i] = Summands(a, ss, l, i)
      BY <1>b DEF Rebuilt
    <3>5. Tuple(ys, n)
      BY <3>3 DEF Tuple
    <3>6. \A i \in 1 .. b : i \in 1 .. n /\ xs[i] = <<l + 1, f + i>>
      BY <1>b
    <3>7. QED
      BY <3>3, <3>4, <3>5, <3>6
  <2>3. QED
    BY <2>1, <2>2
<1>5. e = Stream(a, ss, l + 1, f, n)
  <2> HIDE DEF ys
  <2>1. SubSeq(ys, 1, b) = Rows(a, ss, l + 1, f, b)
    <3>1. SubSeq(ys, 1, b) = Slice(ys, 1, b)
      BY <1>b, <1>4, TupleSub
    <3>2. Slice(ys, 1, b) = [i \in 1 .. b |-> ys[i]]
      BY DEF Slice
    <3>3. (l + 1) - 1 = l
      OBVIOUS
    <3>4. QED
      BY <1>4, <3>1, <3>2, <3>3 DEF Rows
  <2>2. SubSeq(xs, b + 1, n) = [i \in 1 .. n - b |-> <<l + 1, f + b + i>>]
    <3>1. SubSeq(xs, b + 1, n) = Slice(xs, b + 1, n)
      BY <1>b, <1>2, TupleRest
    <3>2. n - (b + 1) + 1 = n - b
      BY <1>b
    <3>3. \A i \in 1 .. n - b : xs[(b + 1) + i - 1] = <<l + 1, f + b + i>>
      <4>1. SUFFICES ASSUME NEW i \in 1 .. n - b
                     PROVE  xs[(b + 1) + i - 1] = <<l + 1, f + b + i>>
        OBVIOUS
      <4>2. PICK k \in 1 .. n : k = (b + 1) + i - 1
        BY <1>b
      <4>3. f + k = f + b + i
        BY <1>b, <4>2
      <4>4. QED
        BY <4>2, <4>3
    <3>4. QED
      BY <3>1, <3>2, <3>3 DEF Slice
  <2>3. QED
    BY <1>b, <1>2, <2>1, <2>2 DEF Stream, StreamOf
<1> HIDE DEF e
<1>6. tt = Extended(ss, e, l)
  BY <1>1, TupleAppend
<1>7. tt = [m \in 1 .. l + 1 |-> tt[m]]
  BY <1>6 DEF Extended
<1>8. \A m \in 1 .. l : tt[m] = ss[m]
  BY <1>6 DEF Extended
<1>9. tt[l + 1] = e
  BY <1>6 DEF Extended
<1> HIDE DEF tt
<1>10. ASSUME NEW m \in 1 .. l + 1 PROVE tt[m] = Stream(a, tt, m, f, n)
  <2>1. Stream(a, ss, m, f, n) = Stream(a, tt, m, f, n)
    <3>1. \A j \in 1 .. m - 1 : ss[j] = tt[j]
      BY <1>8
    <3>2. QED
      BY <3>1, StreamSame
  <2>2. CASE m = l + 1
    BY <1>5, <1>9, <2>1, <2>2
  <2>3. CASE m # l + 1
    <3>1. m \in 1 .. l
      BY <2>3
    <3>2. ss[m] = Stream(a, ss, m, f, n)
      BY <3>1 DEF Built
    <3>3. QED
      BY <1>8, <2>1, <3>1, <3>2
  <2>4. QED
    BY <2>2, <2>3
<1>11. Built(a, tt, l + 1, f, n)
  BY <1>7, <1>10 DEF Built
<1>12. Encode(a, ss, xs) = tt
  BY DEF Encode, tt, e
<1>13. QED
  BY <1>11, <1>12

\* The definition of `result` in from_loops.
Results(a, xs, R) ==
    R = [l \in 0 .. Loops |-> IF l = 0 THEN <<>> ELSE Encode(a, R[l - 1], xs[l])]

\* It defines a function: there are at most four loops to go through.
LEMMA ResultsExist ==
    ASSUME NEW a, NEW xs PROVE \E R : Results(a, xs, R)
<1> DEFINE s1 == Encode(a, <<>>, xs[1])
           s2 == Encode(a, s1, xs[2])
           s3 == Encode(a, s2, xs[3])
           s4 == Encode(a, s3, xs[4])
           S == [l \in 0 .. Loops |-> IF l = 0 THEN <<>> ELSE IF l = 1 THEN s1
                                      ELSE IF l = 2 THEN s2 ELSE IF l = 3 THEN s3 ELSE s4]
<1>1. /\ s1 = Encode(a, <<>>, xs[1]) /\ s2 = Encode(a, s1, xs[2])
      /\ s3 = Encode(a, s2, xs[3]) /\ s4 = Encode(a, s3, xs[4])
  OBVIOUS
<1> HIDE DEF s1, s2, s3, s4
<1>2. /\ S[0] = <<>>
      /\ 1 <= Loops => S[1] = s1
      /\ 2 <= Loops => S[2] = s2
      /\ 3 <= Loops => S[3] = s3
      /\ 4 <= Loops => S[4] = s4
  BY CacheAssumption
<1>3. S = [l \in 0 .. Loops |-> S[l]]
  OBVIOUS
<1> HIDE DEF S
<1>4. ASSUME NEW l \in 0 .. Loops
      PROVE  S[l] = IF l = 0 THEN <<>> ELSE Encode(a, S[l - 1], xs[l])
  <2>1. l = 0 \/ l = 1 \/ l = 2 \/ l = 3 \/ l = 4
    BY CacheAssumption
  <2>2. CASE l = 0
    BY <1>2, <2>2
  <2>3. CASE l = 1
    BY <1>1, <1>2, <2>3
  <2>4. CASE l = 2
    <3>1. l - 1 = 1 /\ 1 <= Loops /\ 2 <= Loops
      BY <2>4, CacheAssumption
    <3>2. S[l - 1] = s1 /\ S[l] = s2 /\ xs[l] = xs[2]
      BY <1>2, <2>4, <3>1
    <3>3. QED
      BY <1>1, <2>4, <3>2
  <2>5. CASE l = 3
    <3>1. l - 1 = 2 /\ 2 <= Loops /\ 3 <= Loops
      BY <2>5, CacheAssumption
    <3>2. S[l - 1] = s2 /\ S[l] = s3 /\ xs[l] = xs[3]
      BY <1>2, <2>5, <3>1
    <3>3. QED
      BY <1>1, <2>5, <3>2
  <2>6. CASE l = 4
    <3>1. l - 1 = 3 /\ 3 <= Loops /\ 4 <= Loops
      BY <2>6, CacheAssumption
    <3>2. S[l - 1] = s3 /\ S[l] = s4 /\ xs[l] = xs[4]
      BY <1>2, <2>6, <3>1
    <3>3. QED
      BY <1>1, <2>6, <3>2
  <2>7. QED
    BY <2>1, <2>2, <2>3, <2>4, <2>5, <2>6
<1>5. Results(a, xs, S)
  BY <1>3, <1>4 DEF Results
<1>6. QED
  BY <1>5

\* What from_loops returns.
LEMMA FromLoopsIs ==
    ASSUME NEW a, NEW xs
    PROVE  \E R : Results(a, xs, R) /\ FromLoops(a, xs) = R[Loops]
<1>1. FromLoops(a, xs) = (CHOOSE R : Results(a, xs, R))[Loops]
  BY DEF FromLoops, Results
<1>2. Results(a, xs, CHOOSE R : Results(a, xs, R))
  BY ResultsExist
<1>3. QED
  BY <1>1, <1>2

\* The exact rows of the tokens f + 1 .. f + n, for every loop.
Exact(f, n) == [l \in 1 .. Loops |-> [i \in 1 .. n |-> <<l, f + i>>]]

\* from_loops builds the streams of the tokens it is given.
LEMMA FromLoopsBuilds ==
    ASSUME Settings, NEW a, NEW f \in Nat, NEW n \in Nat
    PROVE  Built(a, FromLoops(a, Exact(f, n)), Loops, f, n)
<1> DEFINE xs == Exact(f, n)
<1>1. PICK R : Results(a, xs, R) /\ FromLoops(a, xs) = R[Loops]
  BY FromLoopsIs
<1>2. ASSUME NEW l \in Nat, l + 1 <= Loops, Built(a, R[l], l, f, n)
      PROVE  Built(a, R[l + 1], l + 1, f, n)
  <2>1. l + 1 \in 0 .. Loops /\ l + 1 \in 1 .. Loops /\ (l + 1) - 1 = l /\ l + 1 # 0
    BY <1>2, CacheAssumption
  <2>2. R[l + 1] = Encode(a, R[l], xs[l + 1])
    BY <1>1, <2>1 DEF Results
  <2>3. xs[l + 1] = [i \in 1 .. n |-> <<l + 1, f + i>>]
    BY <2>1 DEF Exact
  <2>4. Built(a, Encode(a, R[l], xs[l + 1]), l + 1, f, n)
    BY <1>2, <2>3, EncodeBuilds
  <2>5. QED
    BY <2>2, <2>4
<1> HIDE DEF xs
<1>3. Built(a, R[0], 0, f, n)
  <2>1. R[0] = <<>>
    BY <1>1, CacheAssumption DEF Results
  <2>2. QED
    BY <2>1 DEF Built
<1>4. 1 <= Loops => Built(a, R[1], 1, f, n)
  BY <1>2, <1>3
<1>5. 2 <= Loops => Built(a, R[2], 2, f, n)
  BY <1>2, <1>4, CacheAssumption
<1>6. 3 <= Loops => Built(a, R[3], 3, f, n)
  BY <1>2, <1>5, CacheAssumption
<1>7. 4 <= Loops => Built(a, R[4], 4, f, n)
  BY <1>2, <1>6, CacheAssumption
<1>8. Loops = 1 \/ Loops = 2 \/ Loops = 3 \/ Loops = 4
  BY CacheAssumption
<1>9. Built(a, R[Loops], Loops, f, n)
  BY <1>4, <1>5, <1>6, <1>7, <1>8
<1>10. QED
  BY <1>1, <1>9 DEF xs

\* The streams are determined by the tokens they hold.
LEMMA BuiltUnique ==
    ASSUME NEW a, NEW f, NEW n, NEW ss, NEW tt,
           Built(a, ss, Loops, f, n), Built(a, tt, Loops, f, n)
    PROVE  ss = tt
<1>1. /\ ss = [m \in 1 .. Loops |-> ss[m]] /\ tt = [m \in 1 .. Loops |-> tt[m]]
      /\ \A m \in 1 .. Loops : ss[m] = Stream(a, ss, m, f, n) /\ tt[m] = Stream(a, tt, m, f, n)
  BY DEF Built
<1>2. ASSUME NEW m \in 1 .. Loops, \A j \in 1 .. m - 1 : ss[j] = tt[j]
      PROVE  ss[m] = tt[m]
  <2>1. Stream(a, ss, m, f, n) = Stream(a, tt, m, f, n)
    BY <1>2, StreamSame, CacheAssumption
  <2>2. QED
    BY <1>1, <2>1
<1>3. 1 <= Loops => ss[1] = tt[1]
  BY <1>2, CacheAssumption
<1>4. 2 <= Loops => ss[2] = tt[2]
  <2>1. SUFFICES ASSUME 2 <= Loops PROVE ss[2] = tt[2]
    OBVIOUS
  <2>2. \A j \in 1 .. 2 - 1 : j = 1
    OBVIOUS
  <2>3. \A j \in 1 .. 2 - 1 : ss[j] = tt[j]
    BY <1>3, <2>1, <2>2, CacheAssumption
  <2>4. QED
    BY <1>2, <2>1, <2>3, CacheAssumption
<1>5. 3 <= Loops => ss[3] = tt[3]
  <2>1. SUFFICES ASSUME 3 <= Loops PROVE ss[3] = tt[3]
    OBVIOUS
  <2>2. \A j \in 1 .. 3 - 1 : j = 1 \/ j = 2
    OBVIOUS
  <2>3. \A j \in 1 .. 3 - 1 : ss[j] = tt[j]
    BY <1>3, <1>4, <2>1, <2>2, CacheAssumption
  <2>4. QED
    BY <1>2, <2>1, <2>3, CacheAssumption
<1>6. 4 <= Loops => ss[4] = tt[4]
  <2>1. SUFFICES ASSUME 4 <= Loops PROVE ss[4] = tt[4]
    OBVIOUS
  <2>2. \A j \in 1 .. 4 - 1 : j = 1 \/ j = 2 \/ j = 3
    OBVIOUS
  <2>3. \A j \in 1 .. 4 - 1 : ss[j] = tt[j]
    BY <1>3, <1>4, <1>5, <2>1, <2>2, CacheAssumption
  <2>4. QED
    BY <1>2, <2>1, <2>3, CacheAssumption
<1>7. \A m \in 1 .. Loops : ss[m] = tt[m]
  <2>1. \A m \in 1 .. Loops : m = 1 \/ m = 2 \/ m = 3 \/ m = 4
    BY CacheAssumption
  <2>2. QED
    BY <1>3, <1>4, <1>5, <1>6, <2>1
<1>8. QED
  BY <1>1, <1>7

(***************************************************************************)
(* The operations.                                                         *)
(***************************************************************************)

\* The sizes of the streams of n tokens.
LEMMA BuiltLens ==
    ASSUME Settings, NEW a, NEW ss, NEW f, NEW n \in Nat, Built(a, ss, Loops, f, n),
           NEW m \in 1 .. Loops
    PROVE  /\ Len(ss[m].packed.rows) = Boundary(n)
           /\ Len(ss[m].tail) = n - Boundary(n)
           /\ StreamLen(ss[m]) = n
<1>1. ss[m] = Stream(a, ss, m, f, n)
  BY DEF Built
<1>2. Len(ss[m].packed.rows) = Boundary(n) /\ Len(ss[m].tail) = n - Boundary(n)
  BY <1>1, StreamLens
<1>3. Boundary(n) + (n - Boundary(n)) = n
  BY BoundaryFits
<1>4. QED
  BY <1>2, <1>3 DEF StreamLen

\* The exact rows that a prefill or an append brings.
LEMMA SnapshotsExact ==
    ASSUME NEW n \in Nat, NEW w \in Nat
    PROVE  /\ Snapshots(n + 1, n + w) = Exact(n, w)
           /\ Snapshots(1, w) = Exact(0, w)
<1>1. (n + w) - (n + 1) + 1 = w /\ w - 1 + 1 = w
  OBVIOUS
<1>2. \A i \in 1 .. w : (n + 1) + i - 1 = n + i /\ 1 + i - 1 = 0 + i
  OBVIOUS
<1>3. Snapshots(n + 1, n + w) = Exact(n, w)
  BY <1>1, <1>2 DEF Snapshots, Exact
<1>4. Snapshots(1, w) = Exact(0, w)
  BY <1>1, <1>2 DEF Snapshots, Exact
<1>5. QED
  BY <1>3, <1>4

\* The tails, with the rows that an append of w tokens brings.
Pending(ss, n, w) == [l \in 1 .. Loops |-> ss[l].tail \o Snapshots(n + 1, n + w)[l]]

\* They are the exact rows behind the boundary.
LEMMA PendingExact ==
    ASSUME Settings, NEW a, NEW ss, NEW n \in Nat, NEW w \in Nat, Built(a, ss, Loops, 0, n)
    PROVE  Pending(ss, n, w) = Exact(Boundary(n), n - Boundary(n) + w)
<1>b. PICK b \in Nat, k \in Nat : b = Boundary(n) /\ k = n - b
  BY BoundaryFits
<1>1. ASSUME NEW l \in 1 .. Loops
      PROVE  ss[l].tail \o Exact(n, w)[l] = [i \in 1 .. k + w |-> <<l, b + i>>]
  <2>1. ss[l] = Stream(a, ss, l, 0, n)
    BY DEF Built
  <2>2. PICK s, t : s = ss[l].tail /\ t = Exact(n, w)[l]
    OBVIOUS
  <2>3. s = [i \in 1 .. k |-> <<l, 0 + b + i>>]
    BY <1>b, <2>1, <2>2, StreamTail
  <2>4. t = [i \in 1 .. w |-> <<l, n + i>>]
    BY <2>2 DEF Exact
  <2>5. Tuple(s, k) /\ Tuple(t, w)
    BY <2>3, <2>4 DEF Tuple
  <2>6. s \o t = Joined(s, t, k, w)
    BY <2>5, TupleConcat
  <2>7. ASSUME NEW i \in 1 .. k + w
        PROVE  (IF i <= k THEN s[i] ELSE t[i - k]) = <<l, b + i>>
    <3>1. CASE i <= k
      <4>1. i \in 1 .. k /\ 0 + b + i = b + i
        BY <3>1
      <4>2. QED
        BY <2>3, <3>1, <4>1
    <3>2. CASE ~(i <= k)
      <4>1. i - k \in 1 .. w /\ n + (i - k) = b + i
        BY <1>b, <3>2
      <4>2. QED
        BY <2>4, <3>2, <4>1
    <3>3. QED
      BY <3>1, <3>2
  <2>8. QED
    BY <2>2, <2>6, <2>7 DEF Joined
<1>2. [l \in 1 .. Loops |-> ss[l].tail \o Exact(n, w)[l]] = Exact(b, k + w)
  <2>1. Exact(b, k + w) = [l \in 1 .. Loops |-> [i \in 1 .. k + w |-> <<l, b + i>>]]
    BY DEF Exact
  <2>2. QED
    BY <1>1, <2>1
<1>3. QED
  BY <1>b, <1>2, SnapshotsExact DEF Pending

\* Nothing is packed: the boundary stays where it is.
LEMMA AppendsToTail ==
    ASSUME Settings, NEW a, NEW ss, NEW n \in Nat, NEW w \in Nat, Built(a, ss, Loops, 0, n),
           n - Boundary(n) + w < residual + group, NEW tt,
           tt = [l \in 1 .. Loops |->
                   [ss[l] EXCEPT !.tail = Exact(Boundary(n), n - Boundary(n) + w)[l]]]
    PROVE  Built(a, tt, Loops, 0, n + w)
<1>b. PICK b \in Nat, k \in Nat : b = Boundary(n) /\ k = n - b + w /\ b <= n
  BY BoundaryFits
<1>1. Boundary(n + w) = b
  <2>1. Boundary(k) = 0
    BY <1>b, NothingPacked
  <2>2. Boundary(b + k) = b + Boundary(k)
    BY <1>b, BoundaryGrows
  <2>3. b + k = n + w
    BY <1>b
  <2>4. QED
    BY <2>1, <2>2, <2>3
<1>2. ASSUME NEW l \in 1 .. Loops
      PROVE  tt[l] = [packed |-> Pack(a, Rows(a, ss, l, 0, b)),
                      tail |-> [i \in 1 .. k |-> <<l, b + i>>]]
  <2>1. ss[l] = [packed |-> Pack(a, Rows(a, ss, l, 0, b)),
                 tail |-> [i \in 1 .. n - b |-> <<l, 0 + b + i>>]]
    BY <1>b DEF Built, Stream
  <2>2. Exact(b, k)[l] = [i \in 1 .. k |-> <<l, b + i>>]
    BY DEF Exact
  <2>3. tt[l] = [ss[l] EXCEPT !.tail = Exact(b, k)[l]]
    BY <1>b
  <2>4. PICK p, t, x : /\ p = Pack(a, Rows(a, ss, l, 0, b)) /\ x = [i \in 1 .. k |-> <<l, b + i>>]
                       /\ t = [i \in 1 .. n - b |-> <<l, 0 + b + i>>]
    OBVIOUS
  <2>5. ss[l] = [packed |-> p, tail |-> t] /\ tt[l] = [ss[l] EXCEPT !.tail = x]
    BY <2>1, <2>2, <2>3, <2>4
  <2>6. tt[l] = [packed |-> p, tail |-> x]
    BY <2>5
  <2>7. QED
    BY <2>4, <2>6
<1>3. \A l \in 1 .. Loops : tt[l].packed = ss[l].packed
  <2>1. \A l \in 1 .. Loops : ss[l].packed = Pack(a, Rows(a, ss, l, 0, b))
    BY <1>b DEF Built, Stream
  <2>2. QED
    BY <1>2, <2>1
<1>4. ASSUME NEW l \in 1 .. Loops PROVE Rows(a, ss, l, 0, b) = Rows(a, tt, l, 0, b)
  <2>1. \A j \in 1 .. l - 1 : tt[j].packed = ss[j].packed
    BY <1>3, CacheAssumption
  <2>2. ASSUME NEW i PROVE Summands(a, ss, l - 1, i) = Summands(a, tt, l - 1, i)
    BY <2>1 DEF Summands
  <2>3. QED
    BY <2>2 DEF Rows
<1>5. ASSUME NEW l \in 1 .. Loops PROVE tt[l] = Stream(a, tt, l, 0, n + w)
  <2>1. (n + w) - b = k
    BY <1>b
  <2>2. \A i \in 1 .. k : 0 + b + i = b + i
    OBVIOUS
  <2>3. [i \in 1 .. k |-> <<l, 0 + b + i>>] = [i \in 1 .. k |-> <<l, b + i>>]
    BY <2>2
  <2>4. Stream(a, tt, l, 0, n + w) = [packed |-> Pack(a, Rows(a, tt, l, 0, b)),
                                      tail |-> [i \in 1 .. k |-> <<l, 0 + b + i>>]]
    BY <1>1, <2>1 DEF Stream
  <2>5. QED
    BY <1>2, <1>4, <2>3, <2>4
<1>6. QED
  BY <1>5 DEF Built

\* The whole groups of the tail are packed behind the ones that are there.
LEMMA AppendsGroups ==
    ASSUME Settings, NEW a \in Axes, NEW ss, NEW n \in Nat, NEW w \in Nat,
           Built(a, ss, Loops, 0, n), NEW fresh,
           Built(a, fresh, Loops, Boundary(n), n - Boundary(n) + w), NEW tt,
           tt = [l \in 1 .. Loops |-> [packed |-> Join(ss[l].packed, fresh[l].packed),
                                       tail |-> fresh[l].tail]]
    PROVE  Built(a, tt, Loops, 0, n + w)
<1>b. PICK b \in Nat, k \in Nat : b = Boundary(n) /\ k = n - b + w /\ b <= n
  BY BoundaryFits
<1>c. PICK c \in Nat : c = Boundary(k) /\ c <= k
  BY BoundaryFits
<1>q. PICK q \in Nat, p \in Nat : b = group * q /\ c = group * p
  BY <1>b, <1>c, BoundaryIs
<1>1. Boundary(n + w) = b + c
  <2>1. Boundary(b + k) = b + Boundary(k)
    BY <1>b, BoundaryGrows
  <2>2. b + k = n + w
    BY <1>b
  <2>3. QED
    BY <1>c, <2>1, <2>2
<1> DEFINE X(l) == Rows(a, ss, l, 0, b)
           Y(l) == Rows(a, fresh, l, b, c)
<1>2. ASSUME NEW l \in 1 .. Loops
      PROVE  /\ ss[l].packed = Pack(a, X(l)) /\ fresh[l].packed = Pack(a, Y(l))
             /\ fresh[l].tail = [i \in 1 .. k - c |-> <<l, b + c + i>>]
             /\ tt[l] = [packed |-> Join(Pack(a, X(l)), Pack(a, Y(l))), tail |-> fresh[l].tail]
  <2>1. ss[l].packed = Pack(a, X(l))
    BY <1>b DEF Built, Stream
  <2>2. fresh[l].packed = Pack(a, Y(l)) /\ fresh[l].tail = [i \in 1 .. k - c |-> <<l, b + c + i>>]
    <3>1. Built(a, fresh, Loops, b, k)
      BY <1>b
    <3>2. fresh[l] = Stream(a, fresh, l, b, k)
      BY <3>1 DEF Built
    <3>3. QED
      BY <1>c, <3>2 DEF Stream
  <2>3. QED
    BY <2>1, <2>2
<1>3. ASSUME NEW l \in 1 .. Loops PROVE Tuple(X(l), b) /\ Tuple(Y(l), c)
  BY DEF Rows, Tuple
<1>4. ASSUME NEW l \in 1 .. Loops, NEW i \in 1 .. b + c
      PROVE  Summands(a, tt, l - 1, i) =
               IF i <= b THEN Summands(a, ss, l - 1, i) ELSE Summands(a, fresh, l - 1, i - b)
  <2>1. ASSUME NEW j \in 1 .. l - 1
        PROVE  Decode(a, tt[j].packed, i) =
                 IF i <= b THEN Decode(a, ss[j].packed, i) ELSE Decode(a, fresh[j].packed, i - b)
    <3>1. j \in 1 .. Loops
      BY CacheAssumption
    <3>2. i \in 1 .. group * q + group * p
      BY <1>q
    <3>3. Tuple(X(j), group * q) /\ Tuple(Y(j), group * p)
      BY <1>q, <1>3, <3>1
    <3>4. Decode(a, Join(Pack(a, X(j)), Pack(a, Y(j))), i) =
            IF i <= group * q THEN Decode(a, Pack(a, X(j)), i)
                              ELSE Decode(a, Pack(a, Y(j)), i - group * q)
      <4> HIDE DEF X, Y
      <4>1. QED
        BY <3>2, <3>3, DecodeJoined
    <3>5. QED
      BY <1>q, <1>2, <3>1, <3>4
  <2>2. QED
    BY <2>1 DEF Summands
<1>5. ASSUME NEW l \in 1 .. Loops
      PROVE  Join(Pack(a, X(l)), Pack(a, Y(l))) = Pack(a, Rows(a, tt, l, 0, b + c))
  <2>1. Join(Pack(a, X(l)), Pack(a, Y(l))) = Pack(a, Joined(X(l), Y(l), b, c))
    <3>1. Tuple(X(l), group * q) /\ Tuple(Y(l), group * p)
      BY <1>q, <1>3
    <3> HIDE DEF X, Y
    <3>2. QED
      BY <1>q, <3>1, PackJoined
  <2>2. ASSUME NEW i \in 1 .. b + c
        PROVE  (IF i <= b THEN X(l)[i] ELSE Y(l)[i - b]) =
                 [of |-> <<l, 0 + i>>, minus |-> Summands(a, tt, l - 1, i)]
    <3>1. CASE i <= b
      <4>1. i \in 1 .. b
        BY <3>1
      <4>2. X(l)[i] = [of |-> <<l, 0 + i>>, minus |-> Summands(a, ss, l - 1, i)]
        BY <4>1 DEF Rows
      <4>3. QED
        BY <1>4, <3>1, <4>2
    <3>2. CASE ~(i <= b)
      <4>1. i - b \in 1 .. c /\ b + (i - b) = 0 + i
        BY <3>2
      <4>2. Y(l)[i - b] = [of |-> <<l, b + (i - b)>>,
                           minus |-> Summands(a, fresh, l - 1, i - b)]
        BY <4>1 DEF Rows
      <4>3. QED
        BY <1>4, <3>2, <4>1, <4>2
    <3>3. QED
      BY <3>1, <3>2
  <2> HIDE DEF X, Y
  <2>3. Joined(X(l), Y(l), b, c) = Rows(a, tt, l, 0, b + c)
    BY <2>2 DEF Joined, Rows
  <2>4. QED
    BY <2>1, <2>3
<1> HIDE DEF X, Y
<1>6. ASSUME NEW l \in 1 .. Loops PROVE tt[l] = Stream(a, tt, l, 0, n + w)
  <2>1. (n + w) - (b + c) = k - c
    BY <1>b
  <2>2. \A i \in 1 .. k - c : 0 + (b + c) + i = b + c + i
    OBVIOUS
  <2>3. [i \in 1 .. k - c |-> <<l, 0 + (b + c) + i>>] = [i \in 1 .. k - c |-> <<l, b + c + i>>]
    BY <2>2
  <2>4. Stream(a, tt, l, 0, n + w) = [packed |-> Pack(a, Rows(a, tt, l, 0, b + c)),
                                      tail |-> [i \in 1 .. k - c |-> <<l, 0 + (b + c) + i>>]]
    BY <1>1, <2>1 DEF Stream
  <2>5. QED
    BY <1>2, <1>5, <2>3, <2>4
<1>7. QED
  BY <1>6 DEF Built

\* CrossLoopCache.append, whether it packs or not.
LEMMA AppendBuilds ==
    ASSUME Settings, NEW a \in Axes, NEW ss, NEW n \in Nat, NEW w \in Nat,
           Built(a, ss, Loops, 0, n)
    PROVE  Built(a, Appended(a, ss, Snapshots(n + 1, n + w)), Loops, 0, n + w)
<1>b. PICK b \in Nat, k \in Nat : b = Boundary(n) /\ k = n - b + w
  BY BoundaryFits
<1> DEFINE new == Snapshots(n + 1, n + w)
           pending == Pending(ss, n, w)
           fresh == FromLoops(a, pending)
<1>1. pending = Exact(b, k)
  <2>1. pending = Exact(Boundary(n), n - Boundary(n) + w)
    BY PendingExact
  <2>2. QED
    BY <1>b, <2>1
<1>2. Len(pending[1]) = k
  <2>1. 1 \in 1 .. Loops
    BY CacheAssumption
  <2>2. PICK s : s = pending[1]
    OBVIOUS
  <2> HIDE DEF pending
  <2>3. s = [i \in 1 .. k |-> <<1, b + i>>]
    BY <1>1, <2>1, <2>2 DEF Exact
  <2>4. Tuple(s, k)
    BY <2>3 DEF Tuple
  <2>5. QED
    BY <2>2, <2>4, TupleLen
<1>3. Built(a, fresh, Loops, b, k)
  <2> HIDE DEF pending
  <2>1. QED
    BY <1>1, FromLoopsBuilds
<1>4. Appended(a, ss, new) =
        IF k < residual + group
          THEN [l \in 1 .. Loops |-> [ss[l] EXCEPT !.tail = pending[l]]]
          ELSE [l \in 1 .. Loops |-> [packed |-> Join(ss[l].packed, fresh[l].packed),
                                      tail |-> fresh[l].tail]]
  BY <1>2 DEF Appended, NothingToPack, Pending
<1> HIDE DEF new, pending, fresh
<1>5. CASE k < residual + group
  BY <1>b, <1>1, <1>4, <1>5, AppendsToTail DEF new
<1>6. CASE ~(k < residual + group)
  BY <1>b, <1>3, <1>4, <1>6, AppendsGroups DEF new
<1>7. QED
  BY <1>5, <1>6

(***************************************************************************)
(* The invariant is inductive.                                             *)
(***************************************************************************)

\* What streams are built from changes with the settings only.
LEMMA SettingsKept ==
    ASSUME UNCHANGED <<group, residual>>, NEW a, NEW ss, NEW l, NEW f, NEW n
    PROVE  Built(a, ss, l, f, n)' <=> Built(a, ss, l, f, n)
<1>1. group' = group /\ residual' = residual
  OBVIOUS
<1>2. ASSUME NEW k PROVE Boundary(k)' = Boundary(k)
  BY <1>1 DEF Boundary
<1>3. ASSUME NEW p, NEW i PROVE Decode(a, p, i)' = Decode(a, p, i)
  BY <1>1 DEF Decode, MetaIndex
<1>4. ASSUME NEW xs PROVE Pack(a, xs)' = Pack(a, xs)
  BY <1>1 DEF Pack, Metadata
<1>5. ASSUME NEW k, NEW i PROVE Summands(a, ss, k, i)' = Summands(a, ss, k, i)
  BY <1>3 DEF Summands
<1>6. ASSUME NEW m, NEW b PROVE Rows(a, ss, m, f, b)' = Rows(a, ss, m, f, b)
  BY <1>5 DEF Rows
<1>7. ASSUME NEW m PROVE Stream(a, ss, m, f, n)' = Stream(a, ss, m, f, n)
  BY <1>2, <1>4, <1>6 DEF Stream
<1>8. QED
  BY <1>7 DEF Built

\* Before the first prefill there is nothing, packed or not.
LEMMA InitBuilt ==
    ASSUME Settings, NEW a \in Axes
    PROVE  Built(a, [l \in 1 .. Loops |-> EmptyStream], Loops, 0, 0)
<1> USE SettingTypes
<1>1. Boundary(0) = 0
  BY BoundaryFits
<1>2. Metadata(a, <<>>) = <<>>
  <2>1. (0 + group - 1) \div group = 0
    BY Quotient
  <2>2. Len(<<>>) = 0 /\ DOMAIN <<>> = {}
    OBVIOUS
  <2>3. CASE a = "key"
    BY <2>1, <2>2, <2>3 DEF Metadata
  <2>4. CASE a = "value"
    BY <2>2, <2>4 DEF Metadata
  <2>5. QED
    BY <2>3, <2>4 DEF Axes
<1> DEFINE ss == [l \in 1 .. Loops |-> EmptyStream]
<1>3. ASSUME NEW l \in 1 .. Loops PROVE Stream(a, ss, l, 0, 0) = EmptyStream
  <2>1. Rows(a, ss, l, 0, 0) = <<>>
    BY DEF Rows
  <2>2. [i \in 1 .. 0 - 0 |-> <<l, 0 + 0 + i>>] = <<>>
    OBVIOUS
  <2>3. QED
    BY <1>1, <1>2, <2>1, <2>2 DEF Stream, Pack, EmptyStream
<1>4. QED
  BY <1>3 DEF Built

\* The number of tokens that are there.
LEMMA TokensAre ==
    ASSUME Settings, NEW n \in Nat, NEW ss,
           \A a \in Axes : Built(a, ss[a], Loops, 0, n)
    PROVE  StreamLen(ss["key"][1]) = n
<1>1. "key" \in Axes /\ 1 \in 1 .. Loops
  BY CacheAssumption DEF Axes
<1>2. PICK s : s = ss["key"] /\ Built("key", s, Loops, 0, n)
  BY <1>1
<1>3. StreamLen(s[1]) = n
  BY <1>1, <1>2, BuiltLens
<1>4. QED
  BY <1>2, <1>3

\* Initially the invariant holds.
LEMMA InitInv == Init => IInv
<1> SUFFICES ASSUME Init PROVE IInv
  OBVIOUS
<1>1. Settings
  BY DEF Init, Settings
<1>2. \A a \in Axes : Built(a, streams[a], Loops, 0, 0)
  BY <1>1, InitBuilt DEF Init
<1>3. Tokens = 0
  BY <1>1, <1>2, TokensAre DEF Tokens
<1>4. streams = [a \in Axes |-> streams[a]]
  BY DEF Init
<1>5. QED
  BY <1>1, <1>2, <1>3, <1>4 DEF IInv

\* A step that leaves the settings and builds the streams of n tokens.
LEMMA StepBuilt ==
    ASSUME Settings, UNCHANGED <<group, residual>>, NEW n \in Nat,
           streams' = [a \in Axes |-> streams'[a]],
           \A a \in Axes : Built(a, streams'[a], Loops, 0, n)
    PROVE  IInv'
<1>1. Settings'
  BY DEF Settings
<1>2. Tokens' = n
  BY TokensAre DEF Tokens, StreamLen
<1>3. ASSUME NEW a \in Axes PROVE Built(a, streams[a], Loops, 0, Tokens)'
  BY <1>2, SettingsKept
<1>4. QED
  BY <1>1, <1>2, <1>3 DEF IInv

\* The steps keep the invariant.
LEMMA NextInv == IInv /\ [Next]_vars => IInv'
<1> SUFFICES ASSUME IInv, [Next]_vars PROVE IInv'
  OBVIOUS
<1>1. Settings /\ Tokens \in Nat /\ \A a \in Axes : Built(a, streams[a], Loops, 0, Tokens)
  BY DEF IInv
<1>2. CASE Prefill
  <2>1. PICK w \in Nat : streams' = [a \in Axes |-> FromLoops(a, Snapshots(1, w))]
    BY <1>2, CacheAssumption DEF Prefill
  <2>2. Snapshots(1, w) = Exact(0, w)
    BY SnapshotsExact
  <2>3. \A a \in Axes : Built(a, FromLoops(a, Snapshots(1, w)), Loops, 0, w)
    BY <1>1, <2>2, FromLoopsBuilds
  <2>4. \A a \in Axes : Built(a, streams'[a], Loops, 0, w)
    BY <2>1, <2>3
  <2>5. UNCHANGED <<group, residual>> /\ streams' = [a \in Axes |-> streams'[a]]
    BY <1>2, <2>1 DEF Prefill
  <2>6. QED
    BY <1>1, <2>4, <2>5, StepBuilt
<1>3. CASE AppendTokens
  <2>1. PICK w \in Nat : streams' = [a \in Axes |-> Appended(a, streams[a],
                                                      Snapshots(Tokens + 1, Tokens + w))]
    BY <1>3, CacheAssumption DEF AppendTokens
  <2>2. PICK n \in Nat : n = Tokens
    BY <1>1
  <2>3. \A a \in Axes : Built(a, Appended(a, streams[a], Snapshots(n + 1, n + w)),
                              Loops, 0, n + w)
    BY <1>1, <2>2, AppendBuilds
  <2>4. \A a \in Axes : Built(a, streams'[a], Loops, 0, n + w)
    BY <2>1, <2>2, <2>3
  <2>5. UNCHANGED <<group, residual>> /\ streams' = [a \in Axes |-> streams'[a]]
    BY <1>3, <2>1 DEF AppendTokens
  <2>6. QED
    BY <1>1, <2>4, <2>5, StepBuilt
<1>4. CASE UNCHANGED vars
  <2>1. UNCHANGED <<group, residual>> /\ streams' = streams
    BY <1>4 DEF vars
  <2>2. QED
    BY <1>1, <2>1, StepBuilt DEF IInv
<1>5. QED
  BY <1>2, <1>3, <1>4 DEF Next

\* In every state the streams are what the tokens that came in determine.
THEOREM Inductive == Spec => []IInv
<1>1. Init => IInv
  BY InitInv
<1>2. IInv /\ [Next]_vars => IInv'
  BY NextInv
<1>3. QED
  BY <1>1, <1>2, PTL DEF Spec

(***************************************************************************)
(* What follows from the invariant.                                        *)
(***************************************************************************)

\* Packed rows have as many rows of metadata as their tokens need.
LEMMA MetadataLen ==
    ASSUME Settings, NEW a \in Axes, NEW q \in Nat, NEW xs, Tuple(xs, group * q)
    PROVE  Len(xs) = Len(Metadata(a, xs)) * (IF a = "key" THEN group ELSE 1)
<1> USE SettingTypes
<1>n. PICK n \in Nat : n = group * q
  OBVIOUS
<1>1. Len(xs) = n /\ DOMAIN xs = 1 .. n
  BY <1>n, TupleLen
<1>2. PICK M : M = Metadata(a, xs)
  OBVIOUS
<1>3. CASE a = "key"
  <2>1. M = [k \in 1 .. q |-> M[k]]
    <3>1. DOMAIN M = 1 .. q
      BY <1>2, <1>3, KeyGroups
    <3>2. M = [k \in DOMAIN M |-> M[k]]
      BY <1>2, <1>3 DEF Metadata
    <3>3. QED
      BY <3>1, <3>2
  <2>2. Len(M) = q
    BY <2>1, TupleLen DEF Tuple
  <2>3. n = q * group
    BY <1>n
  <2>4. QED
    BY <1>1, <1>2, <1>3, <2>2, <2>3
<1>4. CASE a = "value"
  <2>1. M = [k \in 1 .. n |-> M[k]]
    BY <1>1, <1>2, <1>4 DEF Metadata
  <2>2. Len(M) = n
    BY <2>1, TupleLen DEF Tuple
  <2>3. QED
    BY <1>1, <1>2, <1>4, <2>2
<1>5. QED
  BY <1>3, <1>4 DEF Axes

\* The types, and one row of metadata for every group of keys and every value.
THEOREM TypeCorrect == Spec => []TypeOK
<1>1. IInv => TypeOK
  <2> SUFFICES ASSUME IInv PROVE TypeOK
    OBVIOUS
  <2>1. Settings /\ Tokens \in Nat
    BY DEF IInv
  <2>2. ASSUME NEW a \in Axes, NEW l \in 1 .. Loops
        PROVE  LET p == streams[a][l].packed IN
               /\ \A i \in DOMAIN p.rows : p.rows[i].of[1] = l
               /\ Len(p.rows) = Len(p.meta) * (IF a = "key" THEN group ELSE 1)
               /\ StreamLen(streams[a][l]) = Tokens
    <3>n. PICK n \in Nat : n = Tokens
      BY <2>1
    <3>s. PICK ss : ss = streams[a] /\ Built(a, ss, Loops, 0, n)
      BY <3>n DEF IInv
    <3>1. PICK b \in Nat : b = Boundary(n)
      BY <2>1, BoundaryFits
    <3>2. PICK xs : xs = Rows(a, ss, l, 0, b)
      OBVIOUS
    <3>3. ss[l].packed = [rows |-> xs, meta |-> Metadata(a, xs)]
      <4>1. ss[l] = Stream(a, ss, l, 0, n)
        BY <3>s DEF Built
      <4>2. Stream(a, ss, l, 0, n).packed = Pack(a, xs)
        BY <3>1, <3>2 DEF Stream
      <4>3. QED
        BY <4>1, <4>2 DEF Pack
    <3>4. \A i \in DOMAIN xs : xs[i].of[1] = l
      BY <3>2 DEF Rows
    <3>5. Len(xs) = Len(Metadata(a, xs)) * (IF a = "key" THEN group ELSE 1)
      <4>1. PICK q \in Nat : b = group * q
        BY <2>1, <3>1, BoundaryIs
      <4>2. Tuple(xs, group * q)
        BY <3>2, <4>1 DEF Rows, Tuple
      <4>3. QED
        BY <2>1, <4>2, MetadataLen
    <3>6. StreamLen(ss[l]) = n
      BY <2>1, <3>s, BuiltLens
    <3>7. QED
      BY <3>n, <3>s, <3>3, <3>4, <3>5, <3>6
  <2>3. QED
    BY <2>1, <2>2 DEF TypeOK, Settings
<1>2. QED
  BY <1>1, Inductive, PTL

\* Both axes and all loops pack the same whole groups, and leave exactly as
\* many tokens exact as the residual length asks for.
THEOREM TailStaysBounded == Spec => []TailBounded
<1>1. IInv => TailBounded
  <2> SUFFICES ASSUME IInv PROVE TailBounded
    OBVIOUS
  <2>1. Settings /\ Tokens \in Nat
    BY DEF IInv
  <2>t. group \in Nat \ {0} /\ residual \in Nat
    BY <2>1, SettingTypes
  <2>n. PICK n \in Nat : n = Tokens
    BY <2>1
  <2>b. PICK b \in Nat : b = Boundary(n)
    BY <2>1, BoundaryFits
  <2>2. PICK q \in Nat : /\ b = group * q
                         /\ q > 0 => b + residual <= n
                         /\ n < residual + b + group
    BY <2>1, <2>b, BoundaryIs
  <2>3. ASSUME NEW a \in Axes, NEW l \in 1 .. Loops
        PROVE  Len(streams[a][l].packed.rows) = b
    <3>1. PICK ss : ss = streams[a] /\ Built(a, ss, Loops, 0, n)
      BY <2>n DEF IInv
    <3>2. Len(ss[l].packed.rows) = Boundary(n)
      BY <2>1, <3>1, BuiltLens
    <3>3. QED
      BY <2>b, <3>1, <3>2
  <2>4. Len(streams["key"][1].packed.rows) = b
    BY <2>3, CacheAssumption DEF Axes
  <2>5. (b % group) = 0
    <3>1. group * q <= b /\ b < group * q + group
      BY <2>t, <2>2
    <3>2. b \div group = q
      BY <2>t, <3>1, Quotient
    <3>3. PICK r \in Int : r = (b % group)
      BY <2>t
    <3>4. b = group * q + r
      <4>1. b = group * (b \div group) + (b % group)
        BY <2>t, Remainder
      <4>2. QED
        BY <3>2, <3>3, <4>1
    <3>5. b = b + r
      BY <2>2, <3>4
    <3>6. QED
      BY <3>3, <3>5
  <2>6. b > 0 => q > 0
    <3>1. q = 0 => b = 0
      BY <2>t, <2>2
    <3>2. QED
      BY <3>1
  <2>7. n - b < residual + group /\ (b > 0 => n - b >= residual)
    BY <2>t, <2>2, <2>6
  <2>8. QED
    BY <2>n, <2>3, <2>4, <2>5, <2>7 DEF TailBounded
<1>2. QED
  BY <1>1, Inductive, PTL

\* Every summand was encoded against the sum of the ones before it.
LEMMA SummandsTelescope ==
    ASSUME Settings, NEW a \in Axes, NEW ss, NEW n \in Nat, Built(a, ss, Loops, 0, n),
           NEW loop \in 1 .. Loops, NEW i \in 1 .. Boundary(n)
    PROVE  Telescopes(Summands(a, ss, loop, i), loop, i)
<1>b. PICK b \in Nat, q \in Nat : b = Boundary(n) /\ b = group * q
  BY BoundaryFits, BoundaryIs
<1>v. PICK v : v = Summands(a, ss, loop, i)
  OBVIOUS
<1>1. loop \in Nat /\ loop <= Loops
  BY CacheAssumption
<1>2. Tuple(v, loop)
  BY <1>v DEF Summands, Tuple
<1>3. Len(v) = loop
  BY <1>1, <1>2, TupleLen
<1>4. ASSUME NEW j \in 1 .. loop
      PROVE  /\ v[j][1] = [of |-> <<j, i>>, minus |-> SubSeq(v, 1, j - 1)]
             /\ v[j][1] \in v[j][2]
  <2>1. j \in 1 .. Loops
    BY <1>1, CacheAssumption
  <2>2. PICK xs : xs = Rows(a, ss, j, 0, b)
    OBVIOUS
  <2>3. ss[j].packed = Pack(a, xs)
    BY <1>b, <2>1, <2>2 DEF Built, Stream
  <2>4. Tuple(xs, b) /\ DOMAIN xs = 1 .. b
    BY <2>2 DEF Rows, Tuple
  <2>5. v[j] = <<xs[i], Mates(a, xs, i)>>
    <3>1. v[j] = Decode(a, Pack(a, xs), i)
      BY <1>v, <2>3 DEF Summands
    <3>2. Tuple(xs, group * q) /\ i \in 1 .. group * q
      BY <1>b, <2>4
    <3>3. QED
      BY <3>1, <3>2, DecodePacked
  <2>6. xs[i] = [of |-> <<j, i>>, minus |-> Summands(a, ss, j - 1, i)]
    <3>1. 0 + i = i
      BY <1>b
    <3>2. QED
      BY <1>b, <2>2, <3>1 DEF Rows
  <2>7. SubSeq(v, 1, j - 1) = Summands(a, ss, j - 1, i)
    <3>1. PICK k \in Nat : k = j - 1
      BY <2>1
    <3>2. SubSeq(v, 1, k) = Slice(v, 1, k)
      BY <1>1, <1>2, <3>1, TupleSub
    <3>3. Slice(v, 1, k) = [m \in 1 .. k |-> v[m]]
      BY <3>1 DEF Slice
    <3>4. \A m \in 1 .. k : v[m] = Decode(a, ss[m].packed, i)
      BY <1>v, <1>1, <3>1 DEF Summands
    <3>5. QED
      BY <3>1, <3>2, <3>3, <3>4 DEF Summands
  <2>8. xs[i] \in Mates(a, xs, i)
    BY <1>b, <2>4 DEF Mates
  <2>9. QED
    BY <2>5, <2>6, <2>7, <2>8
<1>5. QED
  BY <1>v, <1>3, <1>4 DEF Telescopes

\* Whatever appends a cache went through, any interval of its tokens is read
\* back in order, and every packed row decodes to what it was encoded from.
THEOREM RowsStayFaithful == Spec => []RowsFaithful
<1>1. IInv => RowsFaithful
  <2> SUFFICES ASSUME IInv PROVE RowsFaithful
    OBVIOUS
  <2>1. Settings /\ Tokens \in Nat
    BY DEF IInv
  <2>2. ASSUME NEW a \in Axes, NEW loop \in 1 .. Loops,
               NEW start \in 0 .. Tokens - 1, NEW end \in start + 1 .. Tokens
        PROVE  LET rows == Reconstruct(a, streams[a], loop, start, end)
                   boundary == Len(streams[a][1].packed.rows)
               IN  /\ Len(rows) = end - start
                   /\ \A i \in DOMAIN rows :
                        IF start + i <= boundary THEN Telescopes(rows[i], loop, start + i)
                                                 ELSE rows[i] = <<loop, start + i>>
    <3>n. PICK n \in Nat : n = Tokens
      BY <2>1
    <3>s. PICK ss : ss = streams[a] /\ Built(a, ss, Loops, 0, n)
      BY <3>n DEF IInv
    <3>1. PICK b \in Nat : b = Boundary(n)
      BY <2>1, BoundaryFits
    <3>2. start \in Nat /\ end \in Nat /\ start <= end /\ end <= n
      BY <2>1, <3>n
    <3>3. Len(ss[1].packed.rows) = b
      BY <2>1, <3>s, <3>1, BuiltLens, CacheAssumption
    <3>4. PICK rows : rows = Reconstruct(a, ss, loop, start, end)
      OBVIOUS
    <3>5. rows = Rebuilt(a, ss, loop, 0, n, start, end)
      <4>1. Loops \in Nat
        BY CacheAssumption
      <4>2. QED
        BY <2>1, <3>s, <3>2, <3>4, <4>1, ReconstructIs
    <3>6. PICK size \in Nat : size = end - start
      BY <3>2
    <3>7. Tuple(rows, size) /\ DOMAIN rows = 1 .. size
      BY <3>5, <3>6 DEF Rebuilt, Tuple
    <3>8. Len(rows) = size
      BY <3>7, TupleLen
    <3>9. ASSUME NEW i \in 1 .. size
          PROVE  IF start + i <= b THEN Telescopes(rows[i], loop, start + i)
                                   ELSE rows[i] = <<loop, start + i>>
      <4>1. rows[i] = IF start + i <= b THEN Summands(a, ss, loop, start + i)
                                        ELSE <<loop, 0 + start + i>>
        BY <3>1, <3>5, <3>6 DEF Rebuilt
      <4>2. CASE start + i <= b
        <5>1. start + i \in 1 .. Boundary(n)
          BY <3>1, <3>2, <4>2
        <5>2. Telescopes(Summands(a, ss, loop, start + i), loop, start + i)
          BY <2>1, <3>s, <5>1, SummandsTelescope
        <5>3. QED
          BY <4>1, <4>2, <5>2
      <4>3. CASE ~(start + i <= b)
        <5>1. 0 + start + i = start + i
          BY <3>2
        <5>2. QED
          BY <4>1, <4>3, <5>1
      <4>4. QED
        BY <4>2, <4>3
    <3>10. QED
      BY <3>s, <3>3, <3>4, <3>6, <3>7, <3>8, <3>9
  <2>3. QED
    BY <2>2 DEF RowsFaithful
<1>2. QED
  BY <1>1, Inductive, PTL

\* Any sequence of appends gives the cache that one prefill of all tokens gives.
THEOREM AppendsAreOneShot == Spec => []AppendIsOneShot
<1>1. IInv => AppendIsOneShot
  <2> SUFFICES ASSUME IInv PROVE streams = [a \in Axes |-> FromLoops(a, Snapshots(1, Tokens))]
    BY DEF AppendIsOneShot
  <2>1. Settings /\ streams = [a \in Axes |-> streams[a]]
    BY DEF IInv
  <2>2. PICK n \in Nat : n = Tokens
    BY DEF IInv
  <2>3. ASSUME NEW a \in Axes PROVE streams[a] = FromLoops(a, Snapshots(1, n))
    <3>1. Built(a, streams[a], Loops, 0, n)
      BY <2>2 DEF IInv
    <3>2. Built(a, FromLoops(a, Snapshots(1, n)), Loops, 0, n)
      BY <2>1, FromLoopsBuilds, SnapshotsExact
    <3>3. QED
      BY <3>1, <3>2, BuiltUnique
  <2>4. QED
    BY <2>1, <2>2, <2>3
<1>2. QED
  BY <1>1, Inductive, PTL
================================================================================
