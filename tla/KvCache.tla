-------------------------------- MODULE KvCache --------------------------------
(***************************************************************************)
(* The cross-loop KV cache of one layer: experimental/flashloop_mlx/       *)
(* cache.py (Packed4Bit, CacheStream, CrossLoopCache).                     *)
(*                                                                         *)
(* Old tokens are quantized to four bits in groups, young ones are kept    *)
(* exactly.  Loop 1 is the anchor; a later loop packs its difference from  *)
(* what the earlier loops reconstruct.  Numbers are symbolic: a row of KV  *)
(* is <<loop, token>>; a packed value is the difference [of, minus] that   *)
(* was quantized; what it decodes to depends on the values that shared its *)
(* minimum and scale, so its metadata is the set of them.                  *)
(***************************************************************************)
EXTENDS Integers, Sequences

CONSTANTS
    Loops,              \* number of loops, at most 4
    GroupSizes,         \* values of group_size
    ResidualLengths,    \* values of residual_length
    Widths,             \* tokens that one prefill or append brings
    MaxTokens           \* bound: tokens in the cache

ASSUME CacheAssumption ==
    /\ Loops \in 1 .. 4
    /\ GroupSizes \subseteq Nat \ {0} /\ ResidualLengths \subseteq Nat
    /\ Widths \subseteq Nat \ {0} /\ MaxTokens \in Nat

Axes == {"key", "value"}

VARIABLES
    group,      \* group_size
    residual,   \* residual_length
    streams     \* per axis, CrossLoopCache.keys and .values: a stream per loop

vars == <<group, residual, streams>>

\* A stream before the first prefill; packed has no rows where the code has None.
EmptyStream == [packed |-> [rows |-> <<>>, meta |-> <<>>], tail |-> <<>>]

Init ==
    /\ group \in GroupSizes
    /\ residual \in ResidualLengths
    /\ streams = [a \in Axes |-> [l \in 1 .. Loops |-> EmptyStream]]

StreamLen(s) == Len(s.packed.rows) + Len(s.tail)
Tokens == StreamLen(streams["key"][1])

TypeOK ==
    /\ group \in GroupSizes /\ residual \in ResidualLengths
    /\ \A a \in Axes : \A l \in 1 .. Loops :
         LET p == streams[a][l].packed IN
         /\ \A i \in DOMAIN p.rows : p.rows[i].of[1] = l
         /\ Len(p.rows) = Len(p.meta) * (IF a = "key" THEN group ELSE 1)
         /\ StreamLen(streams[a][l]) = Tokens

(***************************************************************************)
(* Packed4Bit: pack, append_groups, rows.                                  *)
(***************************************************************************)

\* K is quantized per channel over groups of tokens, V per token.
Metadata(axis, xs) ==
    IF axis = "key"
      THEN [k \in 1 .. (Len(xs) + group - 1) \div group |->
              {xs[i] : i \in {j \in DOMAIN xs : (j - 1) \div group = k - 1}}]
      ELSE [i \in DOMAIN xs |-> {xs[i]}]

Pack(axis, xs) == [rows |-> xs, meta |-> Metadata(axis, xs)]

\* append_groups: bytes are joined, nothing is decoded.
Join(old, new) == [rows |-> old.rows \o new.rows, meta |-> old.meta \o new.meta]

MetaIndexFrom1(axis, i) ==   \* mutant: the token number is not counted from zero
    IF axis = "key" THEN i \div group + 1 ELSE i

\* Token i of the stream (counted from 1) uses this row of the metadata.
MetaIndex(axis, i) == IF axis = "key" THEN (i - 1) \div group + 1 ELSE i

\* rows(start, end), for one token.
Decode(axis, p, i) ==
    LET k == MetaIndex(axis, i)
    IN  <<p.rows[i], IF k \in DOMAIN p.meta THEN p.meta[k] ELSE {}>>

(***************************************************************************)
(* CacheStream.from_array and CrossLoopCache: from_loops, _reconstruct.    *)
(***************************************************************************)
BoundaryNoResidual(n) == (n \div group) * group   \* mutant: all whole groups are packed

\* How many of n tokens are packed: whole groups older than the residual.
Boundary(n) ==
    LET groups == (n - residual) \div group
    IN  IF groups > 0 THEN groups * group ELSE 0

\* Exact rows xs, of which the packed part encodes the differences ys.
StreamOf(axis, xs, ys) ==
    LET b == Boundary(Len(xs))
    IN  [packed |-> Pack(axis, SubSeq(ys, 1, b)), tail |-> SubSeq(xs, b + 1, Len(xs))]

\* _reconstruct of tokens start .. end - 1, counted from zero: the sum of what
\* the loops up to this one decode to, then this loop's exact tail.
Reconstruct(axis, ss, loop, start, end) ==
    LET boundary == Len(ss[1].packed.rows)
        stop == IF end < boundary THEN end ELSE boundary
        old  == [i \in 1 .. (IF start < boundary THEN stop - start ELSE 0) |->
                   [j \in 1 .. loop |-> Decode(axis, ss[j].packed, start + i)]]
        from == IF start > boundary THEN start - boundary ELSE 0
        young == IF end > boundary THEN SubSeq(ss[loop].tail, from + 1, end - boundary)
                                   ELSE <<>>
    IN  old \o young

Anchored(xs) == [i \in DOMAIN xs |-> [of |-> xs[i], minus |-> <<>>]]

\* What loop Len(ss) + 1 encodes, the streams of the earlier loops being ss.
Residual(axis, xs, ss) ==
    LET previous == Reconstruct(axis, ss, Len(ss), 0, Len(xs))
    IN  [i \in DOMAIN xs |-> [of |-> xs[i], minus |-> previous[i]]]

\* One turn of the loop over the snapshots.
Encode(axis, ss, xs) ==
    Append(ss, StreamOf(axis, xs, IF ss = <<>> THEN Anchored(xs) ELSE Residual(axis, xs, ss)))

\* The streams of all loops, one after the other.
FromLoops(axis, snapshots) ==
    LET result[l \in 0 .. Loops] ==
            IF l = 0 THEN <<>> ELSE Encode(axis, result[l - 1], snapshots[l])
    IN  result[Loops]

(***************************************************************************)
(* CrossLoopCache.append.                                                  *)
(***************************************************************************)
NothingToPackLate(pending) == Len(pending) <= residual + group   \* mutant

NothingToPack(pending) == Len(pending) < residual + group

Appended(axis, ss, new) ==
    LET pending == [l \in 1 .. Loops |-> ss[l].tail \o new[l]]
        fresh == FromLoops(axis, pending)
    IN  IF NothingToPack(pending[1])
          THEN [l \in 1 .. Loops |-> [ss[l] EXCEPT !.tail = pending[l]]]
          ELSE [l \in 1 .. Loops |-> [packed |-> Join(ss[l].packed, fresh[l].packed),
                                      tail |-> fresh[l].tail]]

\* The exact KV of tokens first .. last, per loop.
Snapshots(first, last) ==
    [l \in 1 .. Loops |-> [i \in 1 .. last - first + 1 |-> <<l, first + i - 1>>]]

Prefill ==
    /\ Tokens = 0
    /\ \E w \in Widths :
         /\ w <= MaxTokens
         /\ streams' = [a \in Axes |-> FromLoops(a, Snapshots(1, w))]
    /\ UNCHANGED <<group, residual>>

AppendTokens ==
    /\ Tokens > 0
    /\ \E w \in Widths :
         /\ Tokens + w <= MaxTokens
         /\ streams' = [a \in Axes |->
                          Appended(a, streams[a], Snapshots(Tokens + 1, Tokens + w))]
    /\ UNCHANGED <<group, residual>>

Next == Prefill \/ AppendTokens

Spec == Init /\ [][Next]_vars

(***************************************************************************)
(* Properties.                                                             *)
(***************************************************************************)

\* All streams pack the same tokens, whole groups of them, and no more than the
\* exact tail allows: residual .. residual + group - 1 tokens stay exact.
TailBounded ==
    LET boundary == Len(streams["key"][1].packed.rows)
        tail == Tokens - boundary
    IN  /\ boundary % group = 0
        /\ \A a \in Axes : \A l \in 1 .. Loops :
             Len(streams[a][l].packed.rows) = boundary
        /\ tail < residual + group
        /\ boundary > 0 => tail >= residual

\* A decoded row is right for a loop's token when every summand was encoded
\* against the sum of the ones before it, with its own minimum and scale.
Telescopes(v, loop, t) ==
    /\ Len(v) = loop
    /\ \A j \in 1 .. loop : /\ v[j][1] = [of |-> <<j, t>>, minus |-> SubSeq(v, 1, j - 1)]
                            /\ v[j][1] \in v[j][2]

\* Any interval of tokens is read back in order, unaligned and across the
\* boundary, whatever appends the cache has gone through.
RowsFaithful ==
    \A a \in Axes : \A loop \in 1 .. Loops :
        \A start \in 0 .. Tokens - 1 : \A end \in start + 1 .. Tokens :
            LET rows == Reconstruct(a, streams[a], loop, start, end)
                boundary == Len(streams[a][1].packed.rows)
            IN  /\ Len(rows) = end - start
                /\ \A i \in DOMAIN rows :
                     IF start + i <= boundary THEN Telescopes(rows[i], loop, start + i)
                                              ELSE rows[i] = <<loop, start + i>>

\* Packed history is never requantized and no group is cut differently: any
\* sequence of appends gives the cache that one prefill of all tokens gives.
AppendIsOneShot ==
    Tokens > 0 =>
        streams = [a \in Axes |-> FromLoops(a, Snapshots(1, Tokens))]
=============================================================================
