----------------------------- MODULE StatsProof -----------------------------
(***************************************************************************)
(* Proofs about Stats, for all frames and samples.                         *)
(***************************************************************************)
EXTENDS Stats, FiniteSetTheorems, TLAPS

-----------------------------------------------------------------------------
(* Percentiles *)

\* The places of the percentiles are places of samples.
LEMMA Places ==
    ASSUME NEW n \in Nat \ {0}
    PROVE  Median(n) \in 1 .. n /\ Ninetyninth(n) \in 1 .. n
<1>1. n \div 2 \in Nat /\ n \div 2 <= n - 1
    OBVIOUS
<1>2. n * P99[1] \in Nat
    BY P99Assumption
<1>3. (n * P99[1]) \div P99[2] \in Nat
    <2> DEFINE m == n * P99[1]
    <2>1. \A x \in Nat, y \in Nat \ {0} : x \div y \in Nat
        OBVIOUS
    <2>2. P99[2] \in Nat \ {0}
        BY P99Assumption
    <2> QED BY <1>2, <2>1, <2>2
<1>4. Smaller((n * P99[1]) \div P99[2], n - 1) \in 0 .. n - 1
    BY <1>3 DEF Smaller
<1> QED BY <1>1, <1>4 DEF Median, Ninetyninth

\* A rearrangement takes every sample, through an order of their places.
LEMMA Rearranged ==
    ASSUME NEW s \in Seq(Nat), NEW t \in Rearrangements(s)
    PROVE  \E p \in [DOMAIN s -> DOMAIN s] :
              /\ t = [i \in DOMAIN s |-> s[p[i]]]
              /\ \A j \in DOMAIN s : \E i \in DOMAIN s : p[i] = j
<1>1. PICK p \in Orders : DOMAIN p = DOMAIN s /\ t = [i \in DOMAIN s |-> s[p[i]]]
    BY DEF Rearrangements
<1>2. PICK n \in 0 .. MaxFrames :
         /\ p \in [1 .. n -> 1 .. n]
         /\ \A j \in 1 .. n : \E i \in 1 .. n : p[i] = j
    BY DEF Orders
<1>3. 1 .. n = DOMAIN s
    BY <1>1, <1>2
<1> QED BY <1>1, <1>2, <1>3

\* A rearrangement has the same length.
LEMMA RearrangedSequence ==
    ASSUME NEW s \in Seq(Nat), NEW t \in Rearrangements(s)
    PROVE  t \in Seq(Nat) /\ Len(t) = Len(s)
<1>1. \E p \in [DOMAIN s -> DOMAIN s] :
         /\ t = [i \in DOMAIN s |-> s[p[i]]]
         /\ \A j \in DOMAIN s : \E i \in DOMAIN s : p[i] = j
    BY Rearranged
<1>2. PICK p \in [DOMAIN s -> DOMAIN s] : t = [i \in DOMAIN s |-> s[p[i]]]
    BY <1>1
<1>3. DOMAIN s = 1 .. Len(s) /\ Len(s) \in Nat /\ \A i \in DOMAIN s : s[i] \in Nat
    OBVIOUS
<1>4. t \in [1 .. Len(s) -> Nat]
    BY <1>2, <1>3
<1>5. ASSUME NEW n \in Nat, NEW f \in [1 .. n -> Nat] PROVE f \in Seq(Nat) /\ Len(f) = n
    OBVIOUS
<1> QED BY ONLY <1>3, <1>4, <1>5

\* Of samples in a set there are no more in s than in a rearrangement.
LEMMA RearrangedCount ==
    ASSUME NEW s \in Seq(Nat), NEW t \in Rearrangements(s), NEW R \in SUBSET Nat
    PROVE  LET A == {i \in DOMAIN s : s[i] \in R}
               B == {i \in DOMAIN t : t[i] \in R}
           IN  Cardinality(A) <= Cardinality(B)
<1> DEFINE A == {i \in DOMAIN s : s[i] \in R}
           B == {i \in DOMAIN t : t[i] \in R}
<1>1. PICK p \in [DOMAIN s -> DOMAIN s] :
         /\ t = [i \in DOMAIN s |-> s[p[i]]]
         /\ \A j \in DOMAIN s : \E i \in DOMAIN s : p[i] = j
    BY Rearranged
<1>2. DOMAIN s = 1 .. Len(s) /\ DOMAIN t = 1 .. Len(s) /\ IsFiniteSet(1 .. Len(s))
    BY <1>1, FS_Interval
<1>3. IsFiniteSet(B)
    BY <1>2, FS_Subset
<1> DEFINE f == [i \in B |-> p[i]]
<1>4. f \in Surjection(B, A)
    <2>1. \A i \in B : p[i] \in A
        BY <1>1
    <2>2. \A w \in A : \E i \in B : f[i] = w
        BY <1>1
    <2> QED BY <2>1, <2>2 DEF Surjection
<1> QED BY <1>3, <1>4, FS_Surjection

\* Samples that are at most v, and those that are above it.
LEMMA Complement ==
    ASSUME NEW s \in Seq(Nat), NEW v \in Nat
    PROVE  LET A == {i \in DOMAIN s : s[i] <= v}
               B == {i \in DOMAIN s : s[i] \in {w \in Nat : w > v}}
           IN  /\ Cardinality(A) \in Nat /\ Cardinality(B) \in Nat
               /\ Cardinality(A) + Cardinality(B) = Len(s)
<1> DEFINE A == {i \in DOMAIN s : s[i] <= v}
           B == {i \in DOMAIN s : s[i] \in {w \in Nat : w > v}}
           D == 1 .. Len(s)
<1>1. IsFiniteSet(D) /\ Cardinality(D) = Len(s) /\ DOMAIN s = D
    <2>1. Len(s) \in Nat /\ DOMAIN s = D
        OBVIOUS
    <2>2. IsFiniteSet(D) /\ Cardinality(D) = IF 1 > Len(s) THEN 0 ELSE Len(s) - 1 + 1
        BY <2>1, FS_Interval, SMTT(30)
    <2> QED BY <2>1, <2>2
<1>2. A = D \cap A /\ B = D \ A
    BY <1>1
<1>3. Cardinality(B) = Cardinality(D) - Cardinality(A)
    <2>1. Cardinality(D \ A) = Cardinality(D) - Cardinality(D \cap A)
        BY <1>1, FS_Difference
    <2> QED BY <1>2, <2>1
<1>4. IsFiniteSet(A) /\ IsFiniteSet(B)
    BY <1>1, FS_Subset
<1>5. Cardinality(A) \in Nat /\ Cardinality(B) \in Nat
    BY <1>4, FS_CardinalityType
<1> QED BY <1>1, <1>3, <1>5

\* A rank in a rearrangement is a rank in the samples.
LEMMA RankRearranged ==
    ASSUME NEW s \in Seq(Nat), NEW t \in Rearrangements(s), NEW k \in 1 .. Len(s),
           NEW v \in Nat, IsRanked(t, k, v)
    PROVE  IsRanked(s, k, v)
<1> DEFINE Below == {w \in Nat : w < v}
           Above == {w \in Nat : w > v}
           Count(r, R) == Cardinality({i \in DOMAIN r : r[i] \in R})
<1>1. t \in Seq(Nat) /\ Len(t) = Len(s)
    BY RearrangedSequence
<1>2. Count(s, Below) <= Count(t, Below) /\ Count(s, Above) <= Count(t, Above)
    BY RearrangedCount
<1>3. /\ {i \in DOMAIN s : s[i] < v} = {i \in DOMAIN s : s[i] \in Below}
      /\ {i \in DOMAIN t : t[i] < v} = {i \in DOMAIN t : t[i] \in Below}
    <2>1. ASSUME NEW r \in Seq(Nat)
          PROVE  {i \in DOMAIN r : r[i] < v} = {i \in DOMAIN r : r[i] \in Below}
        OBVIOUS
    <2> QED BY <1>1, <2>1
<1>4. Count(s, Below) \in Nat /\ Count(t, Below) \in Nat
    <2>1. ASSUME NEW r \in Seq(Nat) PROVE Count(r, Below) \in Nat
        <3>1. IsFiniteSet(1 .. Len(r)) /\ DOMAIN r = 1 .. Len(r)
            BY FS_Interval
        <3>2. IsFiniteSet({i \in DOMAIN r : r[i] \in Below})
            BY <3>1, FS_Subset
        <3> QED BY <3>2, FS_CardinalityType
    <2> QED BY <1>1, <2>1
<1>5. Cardinality({i \in DOMAIN s : s[i] < v}) < k
    <2>1. Count(t, Below) < k
        BY <1>3 DEF IsRanked
    <2>2. Cardinality({i \in DOMAIN s : s[i] < v}) = Count(s, Below)
        BY <1>3
    <2> HIDE DEF Count
    <2> QED BY <1>2, <1>4, <2>1, <2>2
<1>6. Cardinality({i \in DOMAIN s : s[i] <= v}) >= k
    <2> DEFINE A(r) == Cardinality({i \in DOMAIN r : r[i] <= v})
    <2>1. A(s) \in Nat /\ Count(s, Above) \in Nat /\ A(s) + Count(s, Above) = Len(s)
        BY Complement
    <2>2. A(t) \in Nat /\ Count(t, Above) \in Nat /\ A(t) + Count(t, Above) = Len(t)
        BY <1>1, Complement
    <2>3. A(t) >= k
        BY DEF IsRanked
    <2> QED BY <1>1, <1>2, <2>1, <2>2, <2>3
<1> QED BY <1>5, <1>6 DEF IsRanked

\* What select_nth_unstable leaves in place has that rank.
LEMMA RankSelected ==
    ASSUME NEW s \in Seq(Nat), NEW k \in 1 .. Len(s), NEW t \in Selected(s, k)
    PROVE  /\ t \in Seq(Nat) /\ Len(t) = Len(s) /\ t[k] \in Nat
           /\ IsRanked(s, k, t[k])
<1>1. /\ t \in Rearrangements(s)
      /\ \A i \in 1 .. k : t[i] <= t[k]
      /\ \A i \in k .. Len(s) : t[k] <= t[i]
    BY DEF Selected
<1>2. t \in Seq(Nat) /\ Len(t) = Len(s) /\ t[k] \in Nat
    BY <1>1, RearrangedSequence
<1> DEFINE A == {i \in DOMAIN t : t[i] < t[k]}
           B == {i \in DOMAIN t : t[i] <= t[k]}
<1>3. Cardinality(A) < k
    <2>1. A \subseteq 1 .. k - 1
        <3>1. ASSUME NEW i \in A PROVE i \in 1 .. k - 1
            <4>1. i \in 1 .. Len(s) /\ t[i] \in Nat /\ t[i] < t[k]
                BY <1>2
            <4>2. ~ i \in k .. Len(s)
                BY <1>1, <1>2, <4>1
            <4> QED BY <4>1, <4>2
        <3> QED BY <3>1
    <2>2. IsFiniteSet(1 .. k - 1) /\ Cardinality(1 .. k - 1) = k - 1
        BY FS_Interval
    <2>3. IsFiniteSet(A) /\ Cardinality(A) <= k - 1
        BY <2>1, <2>2, FS_Subset
    <2> QED BY <2>3, FS_CardinalityType
<1>4. Cardinality(B) >= k
    <2>1. 1 .. k \subseteq B
        BY <1>1, <1>2
    <2>2. IsFiniteSet(1 .. k) /\ Cardinality(1 .. k) = k
        BY FS_Interval
    <2>3. IsFiniteSet(1 .. Len(t)) /\ DOMAIN t = 1 .. Len(t)
        BY <1>2, FS_Interval
    <2>4. IsFiniteSet(B)
        BY <2>3, FS_Subset
    <2>5. k <= Cardinality(B)
        BY <2>1, <2>2, <2>4, FS_Subset
    <2> QED BY <2>4, <2>5, FS_CardinalityType
<1>5. IsRanked(t, k, t[k])
    BY <1>3, <1>4 DEF IsRanked
<1> QED BY <1>1, <1>2, <1>5, RankRearranged

\* A sequence has as many places as it is long.
LEMMA SequenceCount ==
    ASSUME NEW s \in Seq(Nat)
    PROVE  Cardinality(DOMAIN s) = Len(s)
<1>1. Len(s) \in Nat /\ DOMAIN s = 1 .. Len(s)
    OBVIOUS
<1>2. Cardinality(1 .. Len(s)) = IF 1 > Len(s) THEN 0 ELSE Len(s) - 1 + 1
    BY <1>1, FS_Interval, SMTT(30)
<1> QED BY <1>1, <1>2

\* percentiles() returns percentiles, however each pass rearranges the samples.
THEOREM PercentilesRanked ==
    ASSUME NEW s \in Seq(Nat), NEW q \in Percentiles(s)
    PROVE  ArePercentiles(q, s)
<1> DEFINE n == Len(s)
<1>0. Cardinality(DOMAIN s) = n
    BY SequenceCount
<1>1. CASE n = 0
    BY <1>0, <1>1 DEF Percentiles, ArePercentiles
<1>2. CASE n # 0
    <2>1. n \in Nat \ {0} /\ s # <<>>
        BY <1>2
    <2>2. Median(n) \in 1 .. n /\ Ninetyninth(n) \in 1 .. n /\ n \in 1 .. n
        BY <2>1, Places
    <2>3. PICK a \in Selected(s, n) : \E b \in Selected(a, Ninetyninth(n)) :
             \E c \in Selected(b, Median(n)) : q = <<c[Median(n)], b[Ninetyninth(n)], a[n]>>
        BY <1>2 DEF Percentiles
    <2>4. PICK b \in Selected(a, Ninetyninth(n)) :
             \E c \in Selected(b, Median(n)) : q = <<c[Median(n)], b[Ninetyninth(n)], a[n]>>
        BY <2>3
    <2>5. PICK c \in Selected(b, Median(n)) : q = <<c[Median(n)], b[Ninetyninth(n)], a[n]>>
        BY <2>4
    <2>6. a \in Seq(Nat) /\ Len(a) = n /\ IsRanked(s, n, a[n]) /\ a \in Rearrangements(s)
        BY <2>2, RankSelected DEF Selected
    <2>7. /\ b \in Seq(Nat) /\ Len(b) = n /\ b[Ninetyninth(n)] \in Nat
          /\ IsRanked(a, Ninetyninth(n), b[Ninetyninth(n)]) /\ b \in Rearrangements(a)
        BY <2>2, <2>6, RankSelected DEF Selected
    <2>8. c[Median(n)] \in Nat /\ IsRanked(b, Median(n), c[Median(n)])
        BY <2>2, <2>7, RankSelected
    <2>9. IsRanked(s, Ninetyninth(n), b[Ninetyninth(n)])
        BY <2>2, <2>6, <2>7, RankRearranged
    <2>10. IsRanked(a, Median(n), c[Median(n)])
        BY <2>2, <2>6, <2>7, <2>8, RankRearranged
    <2>11. IsRanked(s, Median(n), c[Median(n)])
        BY <2>2, <2>6, <2>8, <2>10, RankRearranged
    <2> QED BY <1>0, <2>1, <2>5, <2>6, <2>9, <2>11 DEF ArePercentiles
<1> QED BY <1>1, <1>2

-----------------------------------------------------------------------------
(* Stats *)

\* Facts about products and quotients of natural numbers.
LEMMA Arithmetic ==
    /\ \A a \in Nat, b \in Nat, n \in Nat : a <= b => a * n <= b * n
    /\ \A a \in Nat, n \in Nat : a * n \in Nat /\ a * (n + 1) = a * n + a
    /\ \A a \in Nat, b \in Nat, n \in Nat \ {0}, m \in Nat :
          a * n <= m /\ m <= b * n => a <= m \div n /\ m \div n <= b
    /\ \A m \in Nat, n \in Nat \ {0} : m \div n \in Nat
    /\ \A d \in Nat, n \in Nat \ {0} : d <= n => (d * 100) \div n \in 0 .. 100
<1>1. \A a \in Nat, b \in Nat, n \in Nat : a <= b => a * n <= b * n
    OBVIOUS
<1>2. \A a \in Nat, n \in Nat : a * n \in Nat /\ a * (n + 1) = a * n + a
    OBVIOUS
<1>3. \A a \in Nat, b \in Nat, n \in Nat \ {0}, m \in Nat :
         a * n <= m /\ m <= b * n => a <= m \div n /\ m \div n <= b
    OBVIOUS
<1>4. \A m \in Nat, n \in Nat \ {0} : m \div n \in Nat
    OBVIOUS
<1>5. \A d \in Nat, n \in Nat \ {0} : d <= n => (d * 100) \div n \in 0 .. 100
    OBVIOUS
<1> QED BY <1>1, <1>2, <1>3, <1>4, <1>5

\* A Stats whose samples are those of its frames, and whose sum of latencies
\* lies between as many minima and maxima.
Sound(s) ==
    /\ s \in StatsType
    /\ s.updates = Len(s.partial_latencies) + Len(s.full_latencies)
    /\ s.delta_updates <= Len(s.partial_latencies)
    /\ s.lifetime_latency_min * s.lifetime_updates <= s.lifetime_latency_sum
    /\ s.lifetime_latency_sum <= s.lifetime_latency_max * s.lifetime_updates

\* Stats::new().
LEMMA NewSound == Sound(NewStats)
<1>1. NewStats \in StatsType
    BY BoundsAssumption DEF NewStats, StatsType
<1> QED BY <1>1, BoundsAssumption, Arithmetic DEF Sound, NewStats

\* record() counts one frame.
LEMMA RecordSound ==
    ASSUME NEW s, Sound(s), NEW f \in Frames, NEW t \in Transits \cup {0}
    PROVE  LET r == Record(s, f, t)
           IN  /\ Sound(r)
               /\ r.updates = s.updates + 1 /\ r.lifetime_updates = s.lifetime_updates + 1
               /\ r.bytes = s.bytes + f.compressed
               /\ r.lifetime_bytes = s.lifetime_bytes + f.compressed
               /\ r.dropped = s.dropped /\ r.lifetime_dropped = s.lifetime_dropped
               /\ f.compressed \in Nat
<1> DEFINE us == f.source_us + t
           delta == IF f.is_delta THEN 1 ELSE 0
           sf == s.full_latencies
           sp == s.partial_latencies
           fulls == IF f.is_full THEN Append(sf, us) ELSE sf
           partials == IF f.is_full THEN sp ELSE Append(sp, us)
           sources == IF ~ f.is_full /\ t > 0 THEN Append(s.source_latencies, f.source_us)
                      ELSE s.source_latencies
           lo == Lowest(s, us)
           hi == Highest(s, us)
           r == [s EXCEPT
                   !.updates = s.updates + 1, !.bytes = s.bytes + f.compressed,
                   !.uncompressed_bytes = s.uncompressed_bytes + f.uncompressed,
                   !.delta_updates = s.delta_updates + delta, !.full_latencies = fulls,
                   !.partial_latencies = partials, !.source_latencies = sources,
                   !.lifetime_updates = s.lifetime_updates + 1,
                   !.lifetime_bytes = s.lifetime_bytes + f.compressed,
                   !.lifetime_uncompressed_bytes = s.lifetime_uncompressed_bytes + f.uncompressed,
                   !.lifetime_latency_sum = s.lifetime_latency_sum + us,
                   !.lifetime_latency_min = lo, !.lifetime_latency_max = hi]
<1>1. Record(s, f, t) = r
    BY DEF Record
<1>2. s \in StatsType
    BY DEF Sound
<1>3. /\ f.compressed \in Nat /\ f.uncompressed \in Nat /\ f.source_us \in Nat
      /\ t \in Nat /\ us \in Nat /\ us <= U64_MAX
    BY FramesAssumption, BoundsAssumption
<1>4. ~ (f.is_full /\ f.is_delta)
    BY FramesAssumption
<1> HIDE DEF us
<1>5. /\ s.updates \in Nat /\ s.bytes \in Nat /\ s.uncompressed_bytes \in Nat
      /\ s.delta_updates \in Nat /\ s.lifetime_updates \in Nat /\ s.lifetime_bytes \in Nat
      /\ s.lifetime_uncompressed_bytes \in Nat /\ s.lifetime_latency_sum \in Nat
      /\ s.lifetime_latency_min \in 0 .. U64_MAX /\ s.lifetime_latency_max \in 0 .. U64_MAX
    BY <1>2 DEF StatsType
<1>6. sp \in Seq(Nat) /\ sf \in Seq(Nat) /\ s.source_latencies \in Seq(Nat)
    BY <1>2 DEF StatsType
<1>7. s.updates = Len(sp) + Len(sf) /\ s.delta_updates <= Len(sp)
    BY DEF Sound
<1> HIDE DEF sp, sf
<1>8. \A q \in Seq(Nat), x \in Nat :
         /\ Append(q, x) \in Seq(Nat) /\ Len(Append(q, x)) = Len(q) + 1 /\ Len(q) \in Nat
    OBVIOUS
<1>9. /\ lo \in 0 .. U64_MAX /\ hi \in 0 .. U64_MAX
      /\ lo <= s.lifetime_latency_min /\ lo <= us /\ s.lifetime_latency_max <= hi /\ us <= hi
    BY <1>3, <1>5, BoundsAssumption DEF Lowest, Highest
<1> HIDE DEF lo, hi
<1>10. /\ delta \in 0 .. 1 /\ fulls \in Seq(Nat) /\ partials \in Seq(Nat)
      /\ Len(partials) + Len(fulls) = Len(sp) + Len(sf) + 1
      /\ Len(sp) + delta <= Len(partials)
    <2>1. CASE f.is_full
        <3>1. delta = 0 /\ partials = sp /\ fulls = Append(sf, us)
            BY <1>4, <2>1, Zenon
        <3> HIDE DEF delta, partials, fulls
        <3> QED BY ONLY <1>3, <1>6, <1>8, <3>1
    <2>2. CASE ~ f.is_full
        <3>1. delta \in 0 .. 1 /\ fulls = sf /\ partials = Append(sp, us)
            BY <2>2
        <3> HIDE DEF delta, partials, fulls
        <3> QED BY ONLY <1>3, <1>6, <1>8, <3>1
    <2> QED BY <2>1, <2>2
<1>11. sources \in Seq(Nat)
    <2>1. sources = s.source_latencies \/ sources = Append(s.source_latencies, f.source_us)
        BY Zenon
    <2> HIDE DEF sources
    <2> QED BY ONLY <1>3, <1>6, <1>8, <2>1
<1> HIDE DEF delta, partials, fulls, sources
<1>12. r \in StatsType
    <2>1. /\ s.updates + 1 \in Nat /\ s.bytes + f.compressed \in Nat
          /\ s.uncompressed_bytes + f.uncompressed \in Nat /\ s.delta_updates + delta \in Nat
          /\ s.lifetime_updates + 1 \in Nat /\ s.lifetime_bytes + f.compressed \in Nat
          /\ s.lifetime_uncompressed_bytes + f.uncompressed \in Nat
          /\ s.lifetime_latency_sum + us \in Nat
        <3>1. delta \in Nat
            BY <1>10
        <3> QED BY ONLY <1>3, <1>5, <3>1
    <2> QED BY ONLY <1>2, <1>9, <1>10, <1>11, <2>1 DEF StatsType
<1>13. /\ r.updates = s.updates + 1 /\ r.lifetime_updates = s.lifetime_updates + 1
       /\ r.bytes = s.bytes + f.compressed
       /\ r.lifetime_bytes = s.lifetime_bytes + f.compressed
       /\ r.dropped = s.dropped /\ r.lifetime_dropped = s.lifetime_dropped
    BY <1>2 DEF StatsType
<1>14. /\ r.delta_updates = s.delta_updates + delta /\ r.full_latencies = fulls
       /\ r.partial_latencies = partials
       /\ r.lifetime_latency_sum = s.lifetime_latency_sum + us
       /\ r.lifetime_latency_min = lo /\ r.lifetime_latency_max = hi
    BY <1>2 DEF StatsType
<1> HIDE DEF r
<1>15. /\ r.updates = Len(r.partial_latencies) + Len(r.full_latencies)
       /\ r.delta_updates <= Len(r.partial_latencies)
    BY ONLY <1>5, <1>10, <1>13, <1>14, <1>6, <1>7
<1>16. /\ r.lifetime_latency_min * r.lifetime_updates <= r.lifetime_latency_sum
       /\ r.lifetime_latency_sum <= r.lifetime_latency_max * r.lifetime_updates
    <2> DEFINE n == s.lifetime_updates
    <2>1. /\ n \in Nat /\ lo \in Nat /\ hi \in Nat
          /\ s.lifetime_latency_min \in Nat /\ s.lifetime_latency_max \in Nat
        BY <1>5, <1>9, BoundsAssumption
    <2>2. lo * n <= s.lifetime_latency_min * n /\ s.lifetime_latency_max * n <= hi * n
        BY <1>9, <2>1, Arithmetic
    <2>3. /\ s.lifetime_latency_min * n <= s.lifetime_latency_sum
          /\ s.lifetime_latency_sum <= s.lifetime_latency_max * n
        BY DEF Sound
    <2>4. /\ lo * (n + 1) = lo * n + lo /\ lo * n \in Nat
          /\ hi * (n + 1) = hi * n + hi /\ hi * n \in Nat
          /\ s.lifetime_latency_min * n \in Nat /\ s.lifetime_latency_max * n \in Nat
        BY <2>1, Arithmetic
    <2>5. /\ lo * (n + 1) <= s.lifetime_latency_sum + us
          /\ s.lifetime_latency_sum + us <= hi * (n + 1)
        BY ONLY <1>3, <1>5, <1>9, <2>1, <2>2, <2>3, <2>4
    <2> QED BY <1>13, <1>14, <2>5
<1>17. Sound(r)
    BY <1>12, <1>15, <1>16 DEF Sound
<1> QED BY <1>1, <1>3, <1>13, <1>17

\* record_dropped() counts nothing else.
LEMMA RecordDroppedSound ==
    ASSUME NEW s, Sound(s), NEW count \in Nat
    PROVE  LET r == RecordDropped(s, count)
           IN  /\ Sound(r)
               /\ r.updates = s.updates /\ r.lifetime_updates = s.lifetime_updates
               /\ r.bytes = s.bytes /\ r.lifetime_bytes = s.lifetime_bytes
               /\ r.dropped = s.dropped + count
               /\ r.lifetime_dropped = s.lifetime_dropped + count
               /\ s.dropped \in Nat /\ s.lifetime_dropped \in Nat
<1> DEFINE r == RecordDropped(s, count)
<1>1. s \in StatsType
    BY DEF Sound
<1>2. r \in StatsType
    <2> DEFINE a == s.dropped + count
               b == s.lifetime_dropped + count
    <2>1. a \in Nat /\ b \in Nat
        <3>1. s.dropped \in Nat /\ s.lifetime_dropped \in Nat
            BY <1>1 DEF StatsType
        <3> QED BY <3>1
    <2>2. r = [s EXCEPT !.dropped = a, !.lifetime_dropped = b]
        BY DEF RecordDropped
    <2> HIDE DEF a, b
    <2> QED BY ONLY <1>1, <2>1, <2>2 DEF StatsType
<1>3. /\ r.updates = s.updates /\ r.lifetime_updates = s.lifetime_updates
      /\ r.bytes = s.bytes /\ r.lifetime_bytes = s.lifetime_bytes
      /\ r.dropped = s.dropped + count /\ r.lifetime_dropped = s.lifetime_dropped + count
      /\ r.partial_latencies = s.partial_latencies /\ r.full_latencies = s.full_latencies
      /\ r.delta_updates = s.delta_updates
      /\ r.lifetime_latency_sum = s.lifetime_latency_sum
      /\ r.lifetime_latency_min = s.lifetime_latency_min
      /\ r.lifetime_latency_max = s.lifetime_latency_max
    BY <1>1 DEF RecordDropped, StatsType
<1>4. s.dropped \in Nat /\ s.lifetime_dropped \in Nat
    BY <1>1 DEF StatsType
<1> HIDE DEF r
<1>5. Sound(r)
    BY <1>2, <1>3 DEF Sound
<1> QED BY <1>3, <1>4, <1>5 DEF r

\* The reset at a line leaves the lifetime totals.
LEMMA StartWindowSound ==
    ASSUME NEW s, Sound(s)
    PROVE  LET r == StartWindow(s)
           IN  /\ Sound(r)
               /\ r.updates = 0 /\ r.bytes = 0 /\ r.dropped = 0
               /\ r.lifetime_updates = s.lifetime_updates
               /\ r.lifetime_bytes = s.lifetime_bytes
               /\ r.lifetime_dropped = s.lifetime_dropped
<1> DEFINE r == StartWindow(s)
<1>1. s \in StatsType
    BY DEF Sound
<1>2. r \in StatsType
    <2>1. ClearCounters(s) \in StatsType
        BY <1>1 DEF ClearCounters, StatsType
    <2>2. <<>> \in Seq(Nat)
        OBVIOUS
    <2>3. \A q \in StatsType : ClearSamples(q) \in StatsType
        BY <2>2 DEF ClearSamples, StatsType
    <2> QED BY <2>1, <2>3 DEF StartWindow
<1>3. /\ r.updates = 0 /\ r.bytes = 0 /\ r.dropped = 0 /\ r.delta_updates = 0
      /\ r.partial_latencies = <<>> /\ r.full_latencies = <<>>
      /\ r.lifetime_updates = s.lifetime_updates
      /\ r.lifetime_bytes = s.lifetime_bytes
      /\ r.lifetime_dropped = s.lifetime_dropped
      /\ r.lifetime_latency_sum = s.lifetime_latency_sum
      /\ r.lifetime_latency_min = s.lifetime_latency_min
      /\ r.lifetime_latency_max = s.lifetime_latency_max
    BY <1>1 DEF StartWindow, ClearCounters, ClearSamples, StatsType
<1> HIDE DEF r
<1>4. Sound(r)
    BY <1>2, <1>3 DEF Sound
<1> QED BY <1>3, <1>4 DEF r

\* The average is a latency between the extremes.
LEMMA AverageSound ==
    ASSUME NEW s, Sound(s)
    PROVE  /\ Average(s) \in Nat
           /\ s.lifetime_updates > 0 =>
                 s.lifetime_latency_min <= Average(s) /\ Average(s) <= s.lifetime_latency_max
<1>1. /\ s.lifetime_updates \in Nat /\ s.lifetime_latency_sum \in Nat
      /\ s.lifetime_latency_min \in Nat /\ s.lifetime_latency_max \in Nat
    BY BoundsAssumption DEF Sound, StatsType
<1>2. CASE s.lifetime_updates = 0
    BY <1>1, <1>2 DEF Average
<1>3. CASE s.lifetime_updates # 0
    <2>1. Average(s) = s.lifetime_latency_sum \div s.lifetime_updates
        BY <1>1, <1>3 DEF Average
    <2>2. s.lifetime_updates \in Nat \ {0}
        BY <1>1, <1>3
    <2>3. /\ s.lifetime_latency_min * s.lifetime_updates <= s.lifetime_latency_sum
          /\ s.lifetime_latency_sum <= s.lifetime_latency_max * s.lifetime_updates
        BY DEF Sound
    <2>4. \A a \in Nat, b \in Nat, n \in Nat \ {0}, m \in Nat :
             a * n <= m /\ m <= b * n => a <= m \div n /\ m \div n <= b
        BY Arithmetic
    <2>5. \A m \in Nat, n \in Nat \ {0} : m \div n \in Nat
        BY Arithmetic
    <2> QED BY ONLY <1>1, <2>1, <2>2, <2>3, <2>4, <2>5
<1> QED BY <1>2, <1>3

\* A line shows the counters, and no more delta frames than partial ones.
LEMMA LineSound ==
    ASSUME NEW s, Sound(s), NEW l \in Lines(s)
    PROVE  /\ l.updates = s.updates /\ l.bytes = s.bytes /\ l.dropped = s.dropped
           /\ l.delta_percent \in 0 .. 100
<1> DEFINE fulls == Len(s.full_latencies)
           partials == IF s.updates > fulls THEN s.updates - fulls ELSE 0
           percent == IF s.delta_updates > 0 /\ partials > 0
                      THEN (s.delta_updates * 100) \div partials ELSE 0
<1>1. /\ l.updates = s.updates /\ l.bytes = s.bytes /\ l.dropped = s.dropped
      /\ l.delta_percent = percent
    BY DEF Lines
<1>2. fulls \in Nat /\ s.updates \in Nat /\ s.delta_updates \in Nat
    BY DEF Sound, StatsType
<1>3. partials \in Nat /\ s.delta_updates <= partials
    <2> DEFINE p == Len(s.partial_latencies)
    <2>1. s.updates = p + fulls /\ s.delta_updates <= p
        BY DEF Sound
    <2>2. p \in Nat
        <3>1. s.partial_latencies \in Seq(Nat)
            BY DEF Sound, StatsType
        <3> QED BY <3>1
    <2> HIDE DEF p, fulls
    <2> QED BY <1>2, <2>1, <2>2
<1> HIDE DEF partials
<1>4. percent \in 0 .. 100
    <2>1. CASE s.delta_updates > 0 /\ partials > 0
        <3>1. partials \in Nat \ {0}
            BY <1>3, <2>1
        <3>2. \A d \in Nat, n \in Nat \ {0} : d <= n => (d * 100) \div n \in 0 .. 100
            BY Arithmetic
        <3> QED BY <1>2, <1>3, <2>1, <3>1, <3>2
    <2>2. CASE ~ (s.delta_updates > 0 /\ partials > 0)
        BY <2>2
    <2> QED BY <2>1, <2>2
<1> QED BY <1>1, <1>4

-----------------------------------------------------------------------------
(* The loops *)

\* What holds of a Stats before the line of its pass is printed.
Balanced(s) ==
    /\ Sound(s)
    /\ printed.updates + s.updates = s.lifetime_updates
    /\ printed.bytes + s.bytes = s.lifetime_bytes
    /\ printed.dropped + s.dropped = s.lifetime_dropped

IInv ==
    /\ TypeOK
    /\ Sound(stats)
    /\ LinesAddUp
    /\ DropsCountedOnce
    /\ role = "source" => dropped_sequences = 0

\* A line moves the counters of the window to the lines printed.
LEMMA Printed ==
    ASSUME IInv, NEW s, Balanced(s), NEW frames, MaybePrint(s, frames)
    PROVE  /\ Sound(stats') /\ LinesAddUp'
           /\ stats'.lifetime_dropped = s.lifetime_dropped
           /\ window_age' \in 0 .. PRINT_INTERVAL
           /\ line'.delta_percent \in 0 .. 100
           /\ reported' \in [messages : Nat, bytes : Nat, latency : Nat]
           /\ printed' \in [updates : Nat, bytes : Nat, dropped : Nat]
<1>1. /\ s.updates \in Nat /\ s.bytes \in Nat /\ s.dropped \in Nat
      /\ printed \in [updates : Nat, bytes : Nat, dropped : Nat]
      /\ printed.updates \in Nat /\ printed.bytes \in Nat /\ printed.dropped \in Nat
    BY DEF Balanced, Sound, StatsType, IInv, TypeOK
<1>2. CASE window_age < PRINT_INTERVAL
    <2>1. /\ stats' = s
          /\ UNCHANGED <<window_age, line, reported, printed>>
        BY <1>2 DEF MaybePrint
    <2>2. Sound(stats') /\ LinesAddUp'
        BY <2>1 DEF Balanced, LinesAddUp
    <2> QED BY <1>1, <2>1, <2>2 DEF IInv, TypeOK
<1>3. CASE ~ window_age < PRINT_INTERVAL
    <2>1. /\ line' \in Lines(s)
          /\ stats' = StartWindow(s)
          /\ window_age' = 0
          /\ reported' = LifetimeSnapshot(stats')
          /\ printed' = [updates |-> printed.updates + line'.updates,
                         bytes |-> printed.bytes + line'.bytes,
                         dropped |-> printed.dropped + line'.dropped]
        BY <1>3 DEF MaybePrint
    <2>2. /\ line'.updates = s.updates /\ line'.bytes = s.bytes /\ line'.dropped = s.dropped
          /\ line'.delta_percent \in 0 .. 100
        BY <2>1, LineSound DEF Balanced
    <2>3. /\ Sound(stats')
          /\ stats'.updates = 0 /\ stats'.bytes = 0 /\ stats'.dropped = 0
          /\ stats'.lifetime_updates = s.lifetime_updates
          /\ stats'.lifetime_bytes = s.lifetime_bytes
          /\ stats'.lifetime_dropped = s.lifetime_dropped
        BY <2>1, StartWindowSound DEF Balanced
    <2>4. /\ printed'.updates = s.lifetime_updates
          /\ printed'.bytes = s.lifetime_bytes
          /\ printed'.dropped = s.lifetime_dropped
          /\ printed'.updates \in Nat /\ printed'.bytes \in Nat /\ printed'.dropped \in Nat
        BY <1>1, <2>1, <2>2 DEF Balanced
    <2>5. printed' \in [updates : Nat, bytes : Nat, dropped : Nat]
        BY <1>1, <2>1, <2>2
    <2>6. LinesAddUp'
        BY <2>3, <2>4 DEF LinesAddUp
    <2>7. reported' \in [messages : Nat, bytes : Nat, latency : Nat]
        <3>1. Average(stats') \in Nat
            BY <2>3, AverageSound
        <3>2. stats'.lifetime_updates \in Nat /\ stats'.lifetime_bytes \in Nat
            BY <2>3, <2>4
        <3> QED BY <2>1, <2>3, <3>1, <3>2 DEF LifetimeSnapshot
    <2>8. 0 \in 0 .. PRINT_INTERVAL
        BY BoundsAssumption
    <2> QED BY <2>1, <2>2, <2>3, <2>5, <2>6, <2>7, <2>8
<1> QED BY <1>2, <1>3

\* After the line of a pass, the books are kept if the drops are counted.
LEMMA PassKept ==
    ASSUME IInv, NEW s, Balanced(s), NEW frames, MaybePrint(s, frames),
           role' = role, recorded' \in 0 .. MaxFrames, dropped' \in Nat,
           dropped_sequences' \in Nat, role = "source" => dropped_sequences' = 0,
           s.lifetime_dropped + dropped_sequences' = dropped'
    PROVE  IInv'
<1>1. /\ Sound(stats') /\ LinesAddUp'
      /\ stats'.lifetime_dropped = s.lifetime_dropped
      /\ window_age' \in 0 .. PRINT_INTERVAL
      /\ line'.delta_percent \in 0 .. 100
      /\ reported' \in [messages : Nat, bytes : Nat, latency : Nat]
      /\ printed' \in [updates : Nat, bytes : Nat, dropped : Nat]
    BY Printed
<1>2. stats' \in StatsType
    BY <1>1 DEF Sound
<1>3. role \in {"source", "target"}
    BY DEF IInv, TypeOK
<1>4. TypeOK'
    BY <1>1, <1>2, <1>3 DEF TypeOK
<1>5. DropsCountedOnce'
    BY <1>1 DEF DropsCountedOnce
<1> QED BY <1>1, <1>4, <1>5 DEF IInv

\* A frame in the window is a frame in the totals.
LEMMA RecordBalanced ==
    ASSUME TypeOK, Balanced(stats), NEW f \in Frames, NEW t \in Transits \cup {0}
    PROVE  /\ Balanced(Record(stats, f, t))
           /\ Record(stats, f, t).lifetime_dropped = stats.lifetime_dropped
<1> DEFINE s == Record(stats, f, t)
<1>1. /\ Sound(s)
      /\ s.updates = stats.updates + 1 /\ s.lifetime_updates = stats.lifetime_updates + 1
      /\ s.bytes = stats.bytes + f.compressed
      /\ s.lifetime_bytes = stats.lifetime_bytes + f.compressed
      /\ s.dropped = stats.dropped /\ s.lifetime_dropped = stats.lifetime_dropped
      /\ f.compressed \in Nat
    BY RecordSound DEF Balanced
<1> HIDE DEF s
<1>2. /\ stats.updates \in Nat /\ stats.bytes \in Nat
      /\ printed.updates \in Nat /\ printed.bytes \in Nat
    BY DEF TypeOK, StatsType
<1>3. /\ printed.updates + stats.updates = stats.lifetime_updates
      /\ printed.bytes + stats.bytes = stats.lifetime_bytes
      /\ printed.dropped + stats.dropped = stats.lifetime_dropped
    BY DEF Balanced
<1>4. printed.updates + s.updates = s.lifetime_updates
    BY ONLY <1>1, <1>2, <1>3
<1>5. printed.bytes + s.bytes = s.lifetime_bytes
    <2>1. s.bytes = stats.bytes + f.compressed
          /\ s.lifetime_bytes = stats.lifetime_bytes + f.compressed
        BY <1>1
    <2> QED BY ONLY <1>1, <1>2, <1>3, <2>1
<1>6. printed.dropped + s.dropped = s.lifetime_dropped
    BY <1>1, <1>3
<1> QED BY <1>1, <1>4, <1>5, <1>6 DEF Balanced, s

\* A drop in the window is a drop in the totals.
LEMMA DropBalanced ==
    ASSUME TypeOK, NEW s, Balanced(s), NEW count \in Nat
    PROVE  /\ Balanced(RecordDropped(s, count))
           /\ RecordDropped(s, count).lifetime_dropped = s.lifetime_dropped + count
<1> DEFINE r == RecordDropped(s, count)
<1>1. /\ Sound(r)
      /\ r.updates = s.updates /\ r.lifetime_updates = s.lifetime_updates
      /\ r.bytes = s.bytes /\ r.lifetime_bytes = s.lifetime_bytes
      /\ r.dropped = s.dropped + count
      /\ r.lifetime_dropped = s.lifetime_dropped + count
      /\ s.dropped \in Nat /\ s.lifetime_dropped \in Nat
    BY RecordDroppedSound DEF Balanced
<1> HIDE DEF r
<1>2. /\ printed.updates + s.updates = s.lifetime_updates
      /\ printed.bytes + s.bytes = s.lifetime_bytes
      /\ printed.dropped + s.dropped = s.lifetime_dropped
    BY DEF Balanced
<1>3. printed.dropped \in Nat
    BY DEF TypeOK
<1>4. /\ printed.updates + r.updates = r.lifetime_updates
      /\ printed.bytes + r.bytes = r.lifetime_bytes
    BY <1>1, <1>2
<1>5. printed.dropped + r.dropped = r.lifetime_dropped
    BY <1>1, <1>2, <1>3
<1> QED BY <1>1, <1>4, <1>5 DEF Balanced, r

\* Every step keeps the books.
LEMMA IInvKept ==
    ASSUME IInv, Next
    PROVE  IInv'
<1>1. TypeOK /\ Balanced(stats) /\ DropsCountedOnce
    BY DEF Balanced, IInv, LinesAddUp
<1>2. /\ stats.lifetime_dropped \in Nat /\ dropped_sequences \in Nat /\ dropped \in Nat
      /\ recorded \in 0 .. MaxFrames /\ stats.lifetime_dropped + dropped_sequences = dropped
      /\ role = "source" => dropped_sequences = 0
    BY DEF IInv, TypeOK, StatsType, DropsCountedOnce
<1>3. CountFrame => recorded' \in 0 .. MaxFrames
    BY <1>2, BoundsAssumption DEF CountFrame
<1>4. ASSUME NEW f \in Frames, SourceSent(f) PROVE IInv'
    <2> DEFINE s == Record(stats, f, 0)
    <2>1. Balanced(s) /\ s.lifetime_dropped = stats.lifetime_dropped
        BY <1>1, RecordBalanced
    <2>2. \E frames : MaybePrint(s, frames)
        BY <1>4 DEF SourceSent
    <2> HIDE DEF s
    <2>3. /\ role' = role /\ dropped_sequences' = dropped_sequences /\ dropped' = dropped
          /\ recorded' \in 0 .. MaxFrames
        BY <1>3, <1>4 DEF SourceSent
    <2> QED BY <1>2, <2>1, <2>2, <2>3, PassKept
<1>5. ASSUME NEW f \in Frames, NEW t \in Transits, TargetWrote(f, t) PROVE IInv'
    <2> DEFINE q == Record(stats, f, t)
               s == RecordDropped(q, dropped_sequences)
    <2>1. Balanced(q) /\ q.lifetime_dropped = stats.lifetime_dropped
        BY <1>1, RecordBalanced
    <2> HIDE DEF q
    <2>2. Balanced(s) /\ s.lifetime_dropped = q.lifetime_dropped + dropped_sequences
        BY <1>1, <1>2, <2>1, DropBalanced
    <2>3. \E frames : MaybePrint(s, frames)
        BY <1>5 DEF TargetWrote, q
    <2> HIDE DEF s
    <2>4. /\ role' = role /\ dropped_sequences' = 0 /\ dropped' = dropped
          /\ recorded' \in 0 .. MaxFrames
        BY <1>3, <1>5 DEF TargetWrote
    <2>5. s.lifetime_dropped + dropped_sequences' = dropped'
        BY <1>2, <2>1, <2>2, <2>4
    <2> QED BY <1>2, <2>2, <2>3, <2>4, <2>5, PassKept
<1>6. CASE SourceBlocked
    <2> DEFINE s == RecordDropped(stats, 1)
    <2>1. Balanced(s) /\ s.lifetime_dropped = stats.lifetime_dropped + 1
        BY <1>1, DropBalanced
    <2>2. \E frames : MaybePrint(s, frames)
        BY <1>6 DEF SourceBlocked
    <2> HIDE DEF s
    <2>3. /\ role' = role /\ role = "source" /\ dropped_sequences' = dropped_sequences
          /\ dropped' = dropped + 1 /\ recorded' = recorded
        BY <1>6 DEF SourceBlocked
    <2>4. s.lifetime_dropped + dropped_sequences' = dropped'
        BY <1>2, <2>1, <2>3
    <2> QED BY <1>2, <2>1, <2>2, <2>3, <2>4, PassKept
<1>7. CASE SourceFailed
    <2>1. \E frames : MaybePrint(stats, frames)
        BY <1>7 DEF SourceFailed
    <2>2. /\ role' = role /\ dropped_sequences' = dropped_sequences /\ dropped' = dropped
          /\ recorded' = recorded
        BY <1>7 DEF SourceFailed
    <2> QED BY <1>1, <1>2, <2>1, <2>2, PassKept
<1>8. CASE SourceTorn
    <2> DEFINE s == RecordDropped(stats, 1)
    <2>1. Balanced(s) /\ s.lifetime_dropped = stats.lifetime_dropped + 1
        BY <1>1, DropBalanced
    <2>2. /\ stats' = s /\ dropped' = dropped + 1
          /\ UNCHANGED <<role, window_age, dropped_sequences, line, reported, window, shown,
                         printed, recorded>>
        BY <1>8 DEF SourceTorn
    <2> HIDE DEF s
    <2>3. Sound(stats') /\ LinesAddUp'
        BY <2>1, <2>2 DEF Balanced, LinesAddUp
    <2>4. DropsCountedOnce'
        BY <1>2, <2>1, <2>2 DEF DropsCountedOnce
    <2>5. TypeOK'
        BY <1>1, <1>2, <2>2, <2>3 DEF TypeOK, Sound
    <2> QED BY <1>2, <2>2, <2>3, <2>4, <2>5 DEF IInv
<1>9. CASE SourceReconnects
    <2>1. /\ stats' = NewStats /\ window_age' = 0 /\ printed' = Nothing /\ dropped' = 0
          /\ UNCHANGED <<role, dropped_sequences, line, reported, recorded>>
          /\ role = "source"
        BY <1>9 DEF SourceReconnects
    <2>2. Sound(stats')
        BY <2>1, NewSound
    <2>3. LinesAddUp' /\ DropsCountedOnce'
        BY <1>2, <2>1 DEF NewStats, Nothing, LinesAddUp, DropsCountedOnce
    <2>4. TypeOK'
        BY <1>1, <2>1, <2>2, BoundsAssumption DEF TypeOK, Sound, Nothing
    <2> QED BY <1>2, <2>1, <2>2, <2>3, <2>4 DEF IInv
<1>10. CASE TargetAbandons
    <2>1. /\ role = "target"
          /\ dropped' = dropped + 1 /\ dropped_sequences' = dropped_sequences + 1
          /\ UNCHANGED <<role, stats, window_age, line, reported, printed, recorded>>
        BY <1>10 DEF TargetAbandons
    <2>2. Sound(stats') /\ LinesAddUp'
        BY <2>1 DEF IInv, LinesAddUp
    <2>3. DropsCountedOnce'
        BY <1>2, <2>1 DEF DropsCountedOnce
    <2>4. TypeOK'
        BY <1>1, <1>2, <2>1 DEF TypeOK
    <2> QED BY <2>1, <2>2, <2>3, <2>4 DEF IInv
<1>11. CASE Tick
    <2>1. /\ window_age < PRINT_INTERVAL /\ window_age' = window_age + 1
          /\ UNCHANGED <<role, stats, dropped_sequences, line, reported, printed, recorded,
                         dropped>>
        BY <1>11 DEF Tick
    <2>2. Sound(stats') /\ LinesAddUp' /\ DropsCountedOnce'
        BY <2>1 DEF IInv, LinesAddUp, DropsCountedOnce
    <2>3. TypeOK'
        BY <1>1, <2>1, BoundsAssumption DEF TypeOK
    <2> QED BY <1>2, <2>1, <2>2, <2>3 DEF IInv
<1> QED BY <1>4, <1>5, <1>6, <1>7, <1>8, <1>9, <1>10, <1>11 DEF Next

\* The books are kept in every state.
LEMMA Books == Spec => []IInv
<1>1. Init => IInv
    <2> SUFFICES ASSUME Init PROVE IInv
        OBVIOUS
    <2>1. /\ role \in {"source", "target"} /\ stats = NewStats /\ window_age = 0
          /\ dropped_sequences = 0 /\ line \in Lines(NewStats)
          /\ reported = LifetimeSnapshot(NewStats) /\ printed = Nothing
          /\ recorded = 0 /\ dropped = 0
        BY DEF Init
    <2>2. Sound(stats) /\ line.delta_percent \in 0 .. 100 /\ Average(NewStats) \in Nat
        BY <2>1, NewSound, LineSound, AverageSound
    <2>3. reported \in [messages : Nat, bytes : Nat, latency : Nat]
        <3>1. NewStats.lifetime_updates = 0 /\ NewStats.lifetime_bytes = 0
            BY DEF NewStats
        <3> QED BY <2>1, <2>2, <3>1 DEF LifetimeSnapshot
    <2>4. TypeOK
        BY <2>1, <2>2, <2>3, BoundsAssumption DEF TypeOK, Sound, Nothing
    <2>5. LinesAddUp /\ DropsCountedOnce
        BY <2>1 DEF NewStats, Nothing, LinesAddUp, DropsCountedOnce
    <2> QED BY <2>1, <2>2, <2>4, <2>5 DEF IInv
<1>2. IInv /\ [Next]_vars => IInv'
    <2>1. ASSUME IInv, UNCHANGED vars PROVE IInv'
        BY <2>1 DEF vars, IInv, TypeOK, LinesAddUp, DropsCountedOnce
    <2> QED BY <2>1, IInvKept
<1> QED BY <1>1, <1>2, PTL DEF Spec

\* The types of the variables; a line's share of delta frames is a share.
THEOREM BooksTyped == Spec => []TypeOK
<1>1. IInv => TypeOK
    BY DEF IInv
<1> QED BY <1>1, Books, PTL

\* The lines printed since Stats::new() and the open window add up to the totals.
THEOREM BooksBalance == Spec => []LinesAddUp
<1>1. IInv => LinesAddUp
    BY DEF IInv
<1> QED BY <1>1, Books, PTL

\* Every drop is in the totals or still counted by the receiver, once.
THEOREM DropsInBooks == Spec => []DropsCountedOnce
<1>1. IInv => DropsCountedOnce
    BY DEF IInv
<1> QED BY <1>1, Books, PTL

\* The average latency of the summary is between its extremes.
THEOREM AverageBounded == Spec => []AverageInRange
<1>1. IInv => AverageInRange
    BY AverageSound DEF IInv, AverageInRange
<1> QED BY <1>1, Books, PTL

-----------------------------------------------------------------------------
(* Lines and the frames they are of.  The samples of a Stats are those of    *)
(* the entries of the window in another form: as many of each value.         *)

\* Samples, at the places of any finite set.
AreSamples(f) == IsFiniteSet(DOMAIN f) /\ \A i \in DOMAIN f : f[i] \in Nat

\* How many samples are in R.
SamplesIn(f, R) == Cardinality({i \in DOMAIN f : f[i] \in R})

SameSamples(f, g) == \A R \in SUBSET Nat : SamplesIn(f, R) = SamplesIn(g, R)

\* g has one sample more than f, and it is x.
Extends(g, f, x) ==
    \E a : /\ a \notin DOMAIN f
           /\ DOMAIN g = DOMAIN f \cup {a}
           /\ g[a] = x
           /\ \A i \in DOMAIN f : g[i] = f[i]

\* One sample more counts once.
LEMMA ExtendedCount ==
    ASSUME NEW f, NEW g, NEW x \in Nat, AreSamples(f), Extends(g, f, x)
    PROVE  /\ AreSamples(g)
           /\ \A R \in SUBSET Nat :
                 SamplesIn(g, R) = SamplesIn(f, R) + IF x \in R THEN 1 ELSE 0
<1>1. PICK a : /\ a \notin DOMAIN f
               /\ DOMAIN g = DOMAIN f \cup {a}
               /\ g[a] = x
               /\ \A i \in DOMAIN f : g[i] = f[i]
    BY DEF Extends
<1>2. AreSamples(g)
    BY <1>1, FS_AddElement DEF AreSamples
<1>3. ASSUME NEW R \in SUBSET Nat
      PROVE  SamplesIn(g, R) = SamplesIn(f, R) + IF x \in R THEN 1 ELSE 0
    <2> DEFINE F == {i \in DOMAIN f : f[i] \in R}
               G == {i \in DOMAIN g : g[i] \in R}
    <2>1. IsFiniteSet(F) /\ a \notin F
        BY <1>1, FS_Subset DEF AreSamples
    <2>2. G = IF x \in R THEN F \cup {a} ELSE F
        BY <1>1
    <2>3. Cardinality(F \cup {a}) = Cardinality(F) + 1 /\ Cardinality(F) \in Nat
        BY <2>1, FS_AddElement, FS_CardinalityType
    <2> HIDE DEF F, G
    <2>4. Cardinality(G) = Cardinality(F) + IF x \in R THEN 1 ELSE 0
        BY <2>2, <2>3
    <2> QED BY <2>4 DEF SamplesIn, F, G
<1> QED BY <1>2, <1>3

LEMMA SameExtended ==
    ASSUME NEW f, NEW g, NEW f2, NEW g2, NEW x \in Nat, AreSamples(f), AreSamples(g),
           SameSamples(f, g), Extends(f2, f, x), Extends(g2, g, x)
    PROVE  SameSamples(f2, g2)
  BY ExtendedCount DEF SameSamples

\* The same samples are as many.
LEMMA SamePlaces ==
    ASSUME NEW f, NEW g, AreSamples(f), AreSamples(g), SameSamples(f, g)
    PROVE  Cardinality(DOMAIN f) = Cardinality(DOMAIN g)
<1>1. SamplesIn(f, Nat) = SamplesIn(g, Nat)
    BY DEF SameSamples
<1>2. {i \in DOMAIN f : f[i] \in Nat} = DOMAIN f /\ {i \in DOMAIN g : g[i] \in Nat} = DOMAIN g
    BY DEF AreSamples
<1> QED BY <1>1, <1>2 DEF SamplesIn

\* The same samples have the same percentiles.
LEMMA SamePercentiles ==
    ASSUME NEW f, NEW g, AreSamples(f), AreSamples(g), SameSamples(f, g),
           NEW q, ArePercentiles(q, f)
    PROVE  ArePercentiles(q, g)
<1>1. Cardinality(DOMAIN f) = Cardinality(DOMAIN g)
    BY SamePlaces
<1>2. ASSUME NEW k, NEW v, IsRanked(f, k, v)
      PROVE  IsRanked(g, k, v)
    <2> DEFINE Below == {w \in Nat : w < v}
               UpTo == {w \in Nat : w <= v}
    <2>1. ASSUME NEW h, AreSamples(h)
          PROVE  /\ {i \in DOMAIN h : h[i] < v} = {i \in DOMAIN h : h[i] \in Below}
                 /\ {i \in DOMAIN h : h[i] <= v} = {i \in DOMAIN h : h[i] \in UpTo}
        BY <2>1 DEF AreSamples
    <2>2. SamplesIn(f, Below) = SamplesIn(g, Below) /\ SamplesIn(f, UpTo) = SamplesIn(g, UpTo)
        BY DEF SameSamples
    <2> HIDE DEF Below, UpTo
    <2>3. /\ Cardinality({i \in DOMAIN f : f[i] < v}) = Cardinality({i \in DOMAIN g : g[i] < v})
          /\ Cardinality({i \in DOMAIN f : f[i] <= v}) = Cardinality({i \in DOMAIN g : g[i] <= v})
        BY <2>1, <2>2 DEF SamplesIn
    <2> QED BY <1>2, <2>3 DEF IsRanked
<1> QED BY <1>1, <1>2 DEF ArePercentiles

\* A sequence is samples, and Append adds one.
LEMMA SequenceSamples ==
    ASSUME NEW s \in Seq(Nat)
    PROVE  /\ AreSamples(s)
           /\ \A x \in Nat : Extends(Append(s, x), s, x)
<1>1. Len(s) \in Nat /\ DOMAIN s = 1 .. Len(s) /\ \A i \in 1 .. Len(s) : s[i] \in Nat
    OBVIOUS
<1>2. IsFiniteSet(1 .. Len(s))
    BY <1>1, FS_Interval
<1>3. AreSamples(s)
    BY <1>1, <1>2 DEF AreSamples
<1>4. ASSUME NEW x \in Nat PROVE Extends(Append(s, x), s, x)
    <2>1. /\ DOMAIN Append(s, x) = 1 .. Len(s) + 1
          /\ Append(s, x)[Len(s) + 1] = x
          /\ \A i \in 1 .. Len(s) : Append(s, x)[i] = s[i]
        OBVIOUS
    <2>2. Len(s) + 1 \notin DOMAIN s /\ 1 .. Len(s) + 1 = DOMAIN s \cup {Len(s) + 1}
        BY <1>1
    <2> QED BY <1>1, <2>1, <2>2 DEF Extends
<1> QED BY <1>3, <1>4

Entry == [frame : Frames, transit_us : Transits \cup {0}]

LEMMA EntryTypes ==
    ASSUME NEW e \in Entry
    PROVE  /\ e.frame \in Frames /\ e.transit_us \in Nat /\ e.frame.source_us \in Nat
           /\ e.frame.source_us + e.transit_us \in Nat
<1>1. e.frame \in Frames /\ e.transit_us \in Transits \cup {0}
    BY DEF Entry
<1>2. Transits \subseteq Nat /\ \A f \in Frames : f.source_us \in Nat
    BY FramesAssumption
<1>3. e.transit_us \in Nat
    <2>1. Transits \cup {0} \subseteq Nat
        BY <1>2
    <2> QED BY <1>1, <2>1, Zenon
<1>4. e.frame.source_us \in Nat
    BY <1>1, <1>2, Zenon
<1> QED BY <1>1, <1>3, <1>4

\* The places of a window, and the samples at them.
LEMMA WindowSamples ==
    ASSUME NEW w \in Seq(Entry)
    PROVE  /\ AreSamples(LatenciesOf(w)) /\ AreSamples(SourceLatenciesOf(w))
           /\ IsFiniteSet(PartialsOf(w)) /\ IsFiniteSet(DeltasOf(w))
           /\ DOMAIN LatenciesOf(w) = PartialsOf(w)
           /\ DOMAIN SourceLatenciesOf(w) = MeasuredOf(w)
<1>1. Len(w) \in Nat /\ DOMAIN w = 1 .. Len(w) /\ \A i \in 1 .. Len(w) : w[i] \in Entry
    OBVIOUS
<1>2. IsFiniteSet(DOMAIN w)
    BY <1>1, FS_Interval
<1>3. PartialsOf(w) \subseteq DOMAIN w /\ MeasuredOf(w) \subseteq DOMAIN w /\ DeltasOf(w) \subseteq DOMAIN w
    BY DEF PartialsOf, MeasuredOf, DeltasOf
<1>4. IsFiniteSet(PartialsOf(w)) /\ IsFiniteSet(MeasuredOf(w)) /\ IsFiniteSet(DeltasOf(w))
    BY <1>2, <1>3, FS_Subset
<1>5. \A i \in DOMAIN w : w[i].frame.source_us + w[i].transit_us \in Nat /\ w[i].frame.source_us \in Nat
    BY <1>1, EntryTypes
<1> QED BY <1>3, <1>4, <1>5 DEF AreSamples, LatenciesOf, SourceLatenciesOf

\* What one more entry adds to them.
LEMMA WindowExtended ==
    ASSUME NEW w \in Seq(Entry), NEW e \in Entry
    PROVE  LET v == Append(w, e)
           IN  /\ IF e.frame.is_full
                  THEN LatenciesOf(v) = LatenciesOf(w)
                  ELSE Extends(LatenciesOf(v), LatenciesOf(w), e.frame.source_us + e.transit_us)
               /\ IF ~ e.frame.is_full /\ e.transit_us > 0
                  THEN Extends(SourceLatenciesOf(v), SourceLatenciesOf(w), e.frame.source_us)
                  ELSE SourceLatenciesOf(v) = SourceLatenciesOf(w)
               /\ Cardinality(DeltasOf(v)) =
                     Cardinality(DeltasOf(w)) + IF e.frame.is_delta THEN 1 ELSE 0
<1> DEFINE v == Append(w, e)
           n == Len(w) + 1
<1>1. /\ Len(w) \in Nat /\ DOMAIN w = 1 .. Len(w) /\ n \notin 1 .. Len(w)
      /\ DOMAIN v = (1 .. Len(w)) \cup {n}
      /\ v[n] = e /\ \A i \in 1 .. Len(w) : v[i] = w[i]
    <2>1. /\ DOMAIN v = 1 .. Len(w) + 1
          /\ v[n] = e /\ \A i \in 1 .. Len(w) : v[i] = w[i]
        OBVIOUS
    <2> QED BY <2>1
<1> HIDE DEF v, n
<1>2. PartialsOf(v) = IF e.frame.is_full THEN PartialsOf(w) ELSE PartialsOf(w) \cup {n}
    BY <1>1 DEF PartialsOf
<1>3. /\ PartialsOf(w) \subseteq 1 .. Len(w) /\ MeasuredOf(w) \subseteq 1 .. Len(w)
      /\ DeltasOf(w) \subseteq 1 .. Len(w)
    BY <1>1 DEF PartialsOf, MeasuredOf, DeltasOf
<1>4. MeasuredOf(v) = IF ~ e.frame.is_full /\ e.transit_us > 0 THEN MeasuredOf(w) \cup {n}
                      ELSE MeasuredOf(w)
    BY <1>1, <1>2, <1>3 DEF MeasuredOf
<1>5. DeltasOf(v) = IF e.frame.is_delta THEN DeltasOf(w) \cup {n} ELSE DeltasOf(w)
    BY <1>1 DEF DeltasOf
<1>6. CASE e.frame.is_full
    <2>1. LatenciesOf(v) = LatenciesOf(w)
        BY <1>1, <1>2, <1>3, <1>6 DEF LatenciesOf
    <2>2. SourceLatenciesOf(v) = SourceLatenciesOf(w)
        BY <1>1, <1>3, <1>4, <1>6 DEF SourceLatenciesOf
    <2>3. Cardinality(DeltasOf(v)) = Cardinality(DeltasOf(w)) + IF e.frame.is_delta THEN 1 ELSE 0
        BY <1>1, <1>3, <1>5, WindowSamples, FS_AddElement, FS_CardinalityType
    <2> QED BY <1>6, <2>1, <2>2, <2>3 DEF v
<1>7. CASE ~ e.frame.is_full
    <2>1. Extends(LatenciesOf(v), LatenciesOf(w), e.frame.source_us + e.transit_us)
        BY <1>1, <1>2, <1>3, <1>7 DEF LatenciesOf, Extends
    <2>2. ASSUME e.transit_us > 0
          PROVE  Extends(SourceLatenciesOf(v), SourceLatenciesOf(w), e.frame.source_us)
        BY <1>1, <1>3, <1>4, <1>7, <2>2 DEF SourceLatenciesOf, Extends
    <2>3. ASSUME ~ e.transit_us > 0
          PROVE  SourceLatenciesOf(v) = SourceLatenciesOf(w)
        BY <1>1, <1>3, <1>4, <1>7, <2>3 DEF SourceLatenciesOf
    <2>4. Cardinality(DeltasOf(v)) = Cardinality(DeltasOf(w)) + IF e.frame.is_delta THEN 1 ELSE 0
        BY <1>1, <1>3, <1>5, WindowSamples, FS_AddElement, FS_CardinalityType
    <2> QED BY <1>7, <2>1, <2>2, <2>3, <2>4 DEF v
<1> QED BY <1>6, <1>7

\* The counters and samples of a Stats are those of the entries.
Matches(s, entries) ==
    /\ entries \in Seq(Entry)
    /\ s.updates = Len(entries)
    /\ SameSamples(s.partial_latencies, LatenciesOf(entries))
    /\ SameSamples(s.source_latencies, SourceLatenciesOf(entries))
    /\ s.delta_updates = Cardinality(DeltasOf(entries))

\* An empty window.
LEMMA EmptyMatches ==
    ASSUME NEW s, s.updates = 0, s.delta_updates = 0,
           s.partial_latencies = <<>>, s.source_latencies = <<>>
    PROVE  Matches(s, <<>>)
<1>1. PartialsOf(<<>>) = {} /\ MeasuredOf(<<>>) = {} /\ DeltasOf(<<>>) = {}
    BY DEF PartialsOf, MeasuredOf, DeltasOf
<1>2. DOMAIN LatenciesOf(<<>>) = {} /\ DOMAIN SourceLatenciesOf(<<>>) = {}
    BY <1>1 DEF LatenciesOf, SourceLatenciesOf
<1>3. ASSUME NEW f, NEW g, DOMAIN f = {}, DOMAIN g = {} PROVE SameSamples(f, g)
    <2>1. \A R : {i \in DOMAIN f : f[i] \in R} = {i \in DOMAIN g : g[i] \in R}
        BY <1>3
    <2> QED BY <2>1 DEF SameSamples, SamplesIn
<1>4. <<>> \in Seq(Entry) /\ Len(<<>>) = 0 /\ DOMAIN <<>> = {}
    OBVIOUS
<1>5. Cardinality({}) = 0
    BY FS_EmptySet
<1> QED BY <1>1, <1>2, <1>3, <1>4, <1>5 DEF Matches

\* record() does to a Stats what the frame does to the window.
LEMMA RecordMatches ==
    ASSUME NEW s, Sound(s), NEW entries, Matches(s, entries),
           NEW f \in Frames, NEW t \in Transits \cup {0}
    PROVE  Matches(Record(s, f, t), Append(entries, [frame |-> f, transit_us |-> t]))
<1> DEFINE e == [frame |-> f, transit_us |-> t]
           v == Append(entries, e)
           r == Record(s, f, t)
           us == f.source_us + t
<1>1. /\ e \in Entry /\ e.frame = f /\ e.transit_us = t
      /\ us \in Nat /\ f.source_us \in Nat
    <2>1. e \in Entry /\ e.frame = f /\ e.transit_us = t
        BY DEF Entry
    <2> QED BY <2>1, EntryTypes
<1>2. s \in StatsType /\ entries \in Seq(Entry)
    BY DEF Sound, Matches
<1>3. /\ r.updates = s.updates + 1
      /\ r.delta_updates = s.delta_updates + IF f.is_delta THEN 1 ELSE 0
      /\ r.partial_latencies =
            IF f.is_full THEN s.partial_latencies ELSE Append(s.partial_latencies, us)
      /\ r.source_latencies =
            IF ~ f.is_full /\ t > 0 THEN Append(s.source_latencies, f.source_us)
            ELSE s.source_latencies
    BY <1>2 DEF Record, StatsType
<1>4. v \in Seq(Entry) /\ Len(v) = Len(entries) + 1
    BY <1>1, <1>2
<1>5. /\ IF f.is_full
         THEN LatenciesOf(v) = LatenciesOf(entries)
         ELSE Extends(LatenciesOf(v), LatenciesOf(entries), us)
      /\ IF ~ f.is_full /\ t > 0
         THEN Extends(SourceLatenciesOf(v), SourceLatenciesOf(entries), f.source_us)
         ELSE SourceLatenciesOf(v) = SourceLatenciesOf(entries)
      /\ Cardinality(DeltasOf(v)) =
            Cardinality(DeltasOf(entries)) + IF f.is_delta THEN 1 ELSE 0
    BY <1>1, <1>2, WindowExtended
<1>6. /\ AreSamples(s.partial_latencies) /\ AreSamples(s.source_latencies)
      /\ Extends(Append(s.partial_latencies, us), s.partial_latencies, us)
      /\ Extends(Append(s.source_latencies, f.source_us), s.source_latencies, f.source_us)
    <2>1. s.partial_latencies \in Seq(Nat) /\ s.source_latencies \in Seq(Nat)
        BY <1>2 DEF StatsType
    <2> QED BY <1>1, <2>1, SequenceSamples
<1>7. AreSamples(LatenciesOf(entries)) /\ AreSamples(SourceLatenciesOf(entries))
    BY <1>2, WindowSamples
<1>8. /\ s.updates = Len(entries) /\ s.delta_updates = Cardinality(DeltasOf(entries))
      /\ SameSamples(s.partial_latencies, LatenciesOf(entries))
      /\ SameSamples(s.source_latencies, SourceLatenciesOf(entries))
    BY DEF Matches
<1> HIDE DEF e, v, r, us
<1>9. SameSamples(r.partial_latencies, LatenciesOf(v))
    <2>1. CASE f.is_full
        BY <1>3, <1>5, <1>8, <2>1
    <2>2. CASE ~ f.is_full
        BY <1>1, <1>3, <1>5, <1>6, <1>7, <1>8, <2>2, SameExtended
    <2> QED BY <2>1, <2>2
<1>10. SameSamples(r.source_latencies, SourceLatenciesOf(v))
    <2>1. CASE ~ f.is_full /\ t > 0
        BY <1>1, <1>3, <1>5, <1>6, <1>7, <1>8, <2>1, SameExtended
    <2>2. CASE ~ (~ f.is_full /\ t > 0)
        BY <1>3, <1>5, <1>8, <2>2
    <2> QED BY <2>1, <2>2
<1>11. r.updates = Len(v) /\ r.delta_updates = Cardinality(DeltasOf(v))
    BY <1>3, <1>4, <1>5, <1>8
<1>12. Matches(r, v)
    BY <1>4, <1>9, <1>10, <1>11 DEF Matches
<1> QED BY <1>12 DEF r, v, e

\* record_dropped() leaves all of it.
LEMMA DropMatches ==
    ASSUME NEW s, Sound(s), NEW entries, Matches(s, entries), NEW count
    PROVE  Matches(RecordDropped(s, count), entries)
<1> DEFINE r == RecordDropped(s, count)
<1>1. s \in StatsType
    BY DEF Sound
<1>2. /\ r.updates = s.updates /\ r.delta_updates = s.delta_updates
      /\ r.partial_latencies = s.partial_latencies /\ r.source_latencies = s.source_latencies
    BY <1>1 DEF RecordDropped, StatsType
<1> HIDE DEF r
<1>3. Matches(r, entries)
    BY <1>2 DEF Matches
<1> QED BY <1>3 DEF r

\* A line printed of a Stats tells of the entries.
LEMMA LineTells ==
    ASSUME NEW s, Sound(s), NEW entries, Matches(s, entries), NEW l \in Lines(s)
    PROVE  Tells(l, entries)
<1>1. /\ s \in StatsType /\ entries \in Seq(Entry)
      /\ s.updates = Len(s.partial_latencies) + Len(s.full_latencies)
      /\ s.updates = Len(entries) /\ s.delta_updates = Cardinality(DeltasOf(entries))
      /\ SameSamples(s.partial_latencies, LatenciesOf(entries))
      /\ SameSamples(s.source_latencies, SourceLatenciesOf(entries))
    BY DEF Sound, Matches
<1>2. /\ s.partial_latencies \in Seq(Nat) /\ s.full_latencies \in Seq(Nat)
      /\ s.source_latencies \in Seq(Nat) /\ s.updates \in Nat /\ s.delta_updates \in Nat
    BY <1>1 DEF StatsType
<1> DEFINE fulls == Len(s.full_latencies)
           partials == IF s.updates > fulls THEN s.updates - fulls ELSE 0
<1>3. PICK p \in Percentiles(s.partial_latencies), q \in Percentiles(s.source_latencies) :
         /\ l.updates = s.updates /\ l.latencies = p /\ l.source_latencies = q
         /\ l.delta_percent = IF s.delta_updates > 0 /\ partials > 0
                              THEN (s.delta_updates * 100) \div partials ELSE 0
    BY DEF Lines
<1>4. AreSamples(LatenciesOf(entries)) /\ AreSamples(SourceLatenciesOf(entries))
    BY <1>1, WindowSamples
<1>5. AreSamples(s.partial_latencies) /\ AreSamples(s.source_latencies)
    BY <1>2, SequenceSamples
<1>6. ArePercentiles(l.latencies, LatenciesOf(entries))
    <2>1. ArePercentiles(l.latencies, s.partial_latencies)
        BY <1>2, <1>3, PercentilesRanked
    <2> QED BY <1>1, <1>4, <1>5, <2>1, SamePercentiles
<1>7. ArePercentiles(l.source_latencies, SourceLatenciesOf(entries))
    <2>1. ArePercentiles(l.source_latencies, s.source_latencies)
        BY <1>2, <1>3, PercentilesRanked
    <2> QED BY <1>1, <1>4, <1>5, <2>1, SamePercentiles
<1>8. Cardinality(PartialsOf(entries)) = Len(s.partial_latencies)
    <2>1. Cardinality(DOMAIN s.partial_latencies) = Cardinality(DOMAIN LatenciesOf(entries))
        BY <1>1, <1>4, <1>5, SamePlaces
    <2> QED BY <1>1, <1>2, <2>1, SequenceCount, WindowSamples
<1>9. partials = Len(s.partial_latencies) /\ partials \in Nat
    <2>1. Len(s.partial_latencies) \in Nat /\ fulls \in Nat
        BY <1>2
    <2>2. s.updates = Len(s.partial_latencies) + fulls
        BY <1>1
    <2> HIDE DEF fulls
    <2>3. s.updates > fulls <=> Len(s.partial_latencies) > 0
        BY <2>1, <2>2
    <2> QED BY <2>1, <2>2, <2>3
<1> HIDE DEF fulls, partials
<1>10. ASSUME partials > 0
       PROVE  l.delta_percent = (s.delta_updates * 100) \div partials
    <2>1. CASE s.delta_updates > 0
        BY <1>3, <1>10, <2>1
    <2>2. CASE s.delta_updates = 0
        <3>1. \A n \in Nat \ {0} : (0 * 100) \div n = 0
            OBVIOUS
        <3> QED BY <1>3, <1>9, <1>10, <2>2, <3>1
    <2> QED BY <1>2, <2>1, <2>2
<1> QED BY <1>1, <1>3, <1>6, <1>7, <1>8, <1>9, <1>10 DEF Tells

WindowInv == Matches(stats, window) /\ LineTellsItsWindow

\* The end of a pass, with a line or without.
LEMMA PassMatches ==
    ASSUME WindowInv, NEW s, Sound(s), NEW entries, Matches(s, entries), MaybePrint(s, entries)
    PROVE  WindowInv'
<1>1. CASE window_age < PRINT_INTERVAL
    BY <1>1 DEF MaybePrint, WindowInv, LineTellsItsWindow
<1>2. CASE ~ window_age < PRINT_INTERVAL
    <2>1. /\ line' \in Lines(s) /\ stats' = StartWindow(s)
          /\ window' = <<>> /\ shown' = entries
        BY <1>2 DEF MaybePrint
    <2>2. Tells(line', shown')
        BY <2>1, LineTells
    <2>3. Matches(stats', window')
        <3> DEFINE r == StartWindow(s)
        <3>1. s \in StatsType
            BY DEF Sound
        <3>2. /\ r.updates = 0 /\ r.delta_updates = 0
              /\ r.partial_latencies = <<>> /\ r.source_latencies = <<>>
            BY <3>1 DEF StartWindow, ClearCounters, ClearSamples, StatsType
        <3> HIDE DEF r
        <3>3. Matches(r, <<>>)
            BY <3>2, EmptyMatches
        <3> QED BY <2>1, <3>3 DEF r
    <2> QED BY <2>2, <2>3 DEF WindowInv, LineTellsItsWindow
<1> QED BY <1>1, <1>2

LEMMA NewMatches == Matches(NewStats, <<>>)
<1>1. /\ NewStats.updates = 0 /\ NewStats.delta_updates = 0
      /\ NewStats.partial_latencies = <<>> /\ NewStats.source_latencies = <<>>
    BY DEF NewStats
<1> QED BY <1>1, EmptyMatches

LEMMA WindowKept ==
    ASSUME IInv, WindowInv, Next
    PROVE  WindowInv'
<1>1. Sound(stats) /\ Matches(stats, window)
    BY DEF IInv, WindowInv
<1>2. dropped_sequences \in Nat
    BY DEF IInv, TypeOK
<1>3. ASSUME NEW f \in Frames, SourceSent(f) PROVE WindowInv'
    <2> DEFINE s == Record(stats, f, 0)
               entries == Append(window, [frame |-> f, transit_us |-> 0])
    <2>1. Sound(s) /\ Matches(s, entries)
        BY <1>1, RecordSound, RecordMatches
    <2>2. MaybePrint(s, entries)
        BY <1>3 DEF SourceSent
    <2> HIDE DEF s, entries
    <2> QED BY <2>1, <2>2, PassMatches
<1>4. ASSUME NEW f \in Frames, NEW t \in Transits, TargetWrote(f, t) PROVE WindowInv'
    <2> DEFINE q == Record(stats, f, t)
               s == RecordDropped(q, dropped_sequences)
               entries == Append(window, [frame |-> f, transit_us |-> t])
    <2>1. Sound(q) /\ Matches(q, entries)
        BY <1>1, RecordSound, RecordMatches
    <2>2. MaybePrint(s, entries)
        BY <1>4 DEF TargetWrote
    <2> HIDE DEF q, entries
    <2>3. Sound(s) /\ Matches(s, entries)
        BY <1>2, <2>1, RecordDroppedSound, DropMatches
    <2> HIDE DEF s
    <2> QED BY <2>2, <2>3, PassMatches
<1>5. CASE SourceBlocked \/ SourceTorn
    <2> DEFINE s == RecordDropped(stats, 1)
    <2>1. Sound(s) /\ Matches(s, window)
        BY <1>1, RecordDroppedSound, DropMatches
    <2>2. MaybePrint(s, window) \/ (stats' = s /\ UNCHANGED <<window, line, shown>>)
        BY <1>5 DEF SourceBlocked, SourceTorn
    <2> HIDE DEF s
    <2> QED BY <2>1, <2>2, PassMatches DEF WindowInv, LineTellsItsWindow
<1>6. CASE SourceFailed
    BY <1>1, <1>6, PassMatches DEF SourceFailed
<1>7. CASE SourceReconnects
    BY <1>7, NewMatches DEF SourceReconnects, WindowInv, LineTellsItsWindow
<1>8. CASE TargetAbandons \/ Tick
    BY <1>8 DEF TargetAbandons, Tick, WindowInv, LineTellsItsWindow
<1> QED BY <1>3, <1>4, <1>5, <1>6, <1>7, <1>8 DEF Next

\* A line shows the percentiles of the partial frames of its own window, and
\* its share of delta frames, for any number of samples: each pass of
\* percentiles() may leave them in another order, and a window starts with none
\* of the last one's (stats.rs:60-217).
THEOREM LinesTell == Spec => []LineTellsItsWindow
<1>1. Init => WindowInv
    <2> SUFFICES ASSUME Init PROVE WindowInv
        OBVIOUS
    <2>1. line \in Lines(NewStats) /\ shown = <<>> /\ stats = NewStats /\ window = <<>>
        BY DEF Init
    <2>2. Tells(line, shown)
        BY <2>1, NewMatches, NewSound, LineTells
    <2> QED BY <2>1, <2>2, NewMatches DEF WindowInv, LineTellsItsWindow
<1>2. IInv /\ WindowInv /\ [Next]_vars => WindowInv'
    <2>1. ASSUME WindowInv, UNCHANGED vars PROVE WindowInv'
        BY <2>1 DEF vars, WindowInv, LineTellsItsWindow
    <2> QED BY <2>1, WindowKept
<1>3. WindowInv => LineTellsItsWindow
    BY DEF WindowInv
<1> QED BY <1>1, <1>2, <1>3, Books, PTL DEF Spec

=============================================================================
