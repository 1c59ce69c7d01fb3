---------------------------- MODULE ChannelProof ----------------------------
(***************************************************************************)
(* Theorems about Reassembly on a path that keeps the order of datagrams   *)
(* and does not duplicate them: it may only lose them.                     *)
(***************************************************************************)
EXTENDS ReassemblyProof

OrderedPath == Faults \subseteq {"lose"}

-----------------------------------------------------------------------------
(* The datagrams on the path are in the order in which they were sent *)

\* Datagram d carries fragment f of message m.
IsPiece(d, m, f) == d.fragments # 0 /\ d.source_us = m /\ d.fragment = f

\* d was sent before e.
Before(d, e) ==
    \/ d.source_us < e.source_us
    \/ d.source_us = e.source_us /\ d.fragment < e.fragment

PathOrder(p) ==
    \A i, j \in DOMAIN p :
        i < j /\ p[i].fragments # 0 /\ p[j].fragments # 0 => Before(p[i], p[j])

PathSent(p, n) == \A i \in DOMAIN p : p[i].fragments # 0 => p[i].source_us \in 1 .. n

\* The source_us of what ingest() reported last.
Latest(ds) == IF ds = <<>> THEN 0 ELSE ds[Len(ds)].source_us

\* When fragment 0 of the open sequence is there, its stamp is not reported yet.
OpenIsNew(r, newest) ==
    r.current_seq # None /\ r.total_frags > 0 /\ 0 \in r.received => newest < r.last_source_us

OrderInv ==
    /\ CountInv
    /\ PathOrder(net)
    /\ PathSent(net, Len(sent))
    /\ rx.last_source_us <= Len(sent)
    /\ \A i \in DOMAIN net :
          net[i].fragments # 0 /\ net[i].fragment = 0 => rx.last_source_us < net[i].source_us
    /\ Latest(delivered) <= rx.last_source_us
    /\ OpenIsNew(rx, Latest(delivered))

LEMMA Joined ==
    ASSUME NEW S, NEW a \in Seq(S), NEW b \in Seq(S), NEW c, c = a \o b
    PROVE  /\ c \in Seq(S)
           /\ Len(c) = Len(a) + Len(b)
           /\ \A j \in 1 .. Len(a) + Len(b) :
                 c[j] = IF j <= Len(a) THEN a[j] ELSE b[j - Len(a)]
OBVIOUS

\* What is left of a sequence without its i-th element.
Without(s, i) == SubSeq(s, 1, i - 1) \o SubSeq(s, i + 1, Len(s))

LEMMA Removed ==
    ASSUME NEW S, NEW s \in Seq(S), NEW i \in DOMAIN s
    PROVE  /\ Without(s, i) \in Seq(S)
           /\ Len(Without(s, i)) = Len(s) - 1
           /\ \A j \in DOMAIN Without(s, i) : Without(s, i)[j] = s[IF j < i THEN j ELSE j + 1]
<1>1. i \in 1 .. Len(s) /\ Len(s) \in Nat
    OBVIOUS
<1> DEFINE t == Without(s, i)
           a == SubSeq(s, 1, i - 1)
           b == SubSeq(s, i + 1, Len(s))
<1>2. /\ a \in Seq(S) /\ Len(a) = i - 1
      /\ \A j \in 1 .. i - 1 : a[j] = s[j]
    BY <1>1
<1>3. /\ b \in Seq(S) /\ Len(b) = Len(s) - i
      /\ \A j \in 1 .. Len(s) - i : b[j] = s[i + j]
    BY <1>1
<1> HIDE DEF a, b
<1>4. t = a \o b
    BY DEF a, b, t, Without
<1> HIDE DEF t
<1>4a. /\ t \in Seq(S)
       /\ Len(t) = Len(a) + Len(b)
       /\ \A j \in 1 .. Len(a) + Len(b) : t[j] = IF j <= Len(a) THEN a[j] ELSE b[j - Len(a)]
    <2>1. a \in Seq(S) /\ b \in Seq(S)
        BY <1>2, <1>3
    <2> QED BY <1>4, <2>1, Joined
<1>5. t \in Seq(S) /\ Len(t) = Len(s) - 1
    BY <1>1, <1>2, <1>3, <1>4a
<1>6. ASSUME NEW j \in DOMAIN t
      PROVE  t[j] = s[IF j < i THEN j ELSE j + 1]
    <2>1. j \in 1 .. Len(s) - 1
        BY <1>5
    <2>2. CASE j < i
        <3>1. j \in 1 .. Len(a) + Len(b) /\ j <= Len(a)
            BY <1>1, <1>2, <1>3, <2>1, <2>2
        <3>2. t[j] = a[j]
            BY <1>4a, <3>1
        <3> QED BY <1>1, <1>2, <2>1, <2>2, <3>2
    <2>3. CASE ~ (j < i)
        <3>0. j \in 1 .. Len(a) + Len(b) /\ ~ (j <= Len(a))
            BY <1>1, <1>2, <1>3, <2>1, <2>3
        <3>1. t[j] = b[j - (i - 1)]
            BY <1>2, <1>4a, <3>0
        <3>2. j - (i - 1) \in 1 .. Len(s) - i /\ i + (j - (i - 1)) = j + 1
            BY <1>1, <2>1, <2>3
        <3> QED BY <1>3, <2>3, <3>1, <3>2
    <2> QED BY <2>2, <2>3
<1> QED BY <1>5, <1>6 DEF t

\* A path that loses, or hands over, one datagram keeps the order of the rest.
LEMMA OrderKept ==
    ASSUME NEW p \in Seq(Datagram), NEW i \in DOMAIN p, NEW q, q = Without(p, i),
           PathOrder(p)
    PROVE  /\ PathOrder(q)
           /\ q \in Seq(Datagram)
           /\ \A j \in DOMAIN q : \E k \in DOMAIN p : q[j] = p[k]
           /\ i = 1 /\ p[1].fragments # 0 =>
                 \A j \in DOMAIN q : q[j].fragments # 0 => Before(p[1], q[j])
<1>1. /\ q \in Seq(Datagram) /\ Len(q) = Len(p) - 1
      /\ \A j \in DOMAIN q : q[j] = p[IF j < i THEN j ELSE j + 1]
    BY Removed
<1>2. /\ i \in 1 .. Len(p) /\ Len(p) \in Nat
      /\ DOMAIN p = 1 .. Len(p)
    OBVIOUS
<1>2a. DOMAIN q = 1 .. Len(p) - 1
    BY <1>1
<1>3. ASSUME NEW j \in DOMAIN q
      PROVE  (IF j < i THEN j ELSE j + 1) \in DOMAIN p
    BY <1>2, <1>2a
<1>4. PathOrder(q)
    <2> SUFFICES ASSUME NEW j \in DOMAIN q, NEW k \in DOMAIN q, j < k,
                        q[j].fragments # 0, q[k].fragments # 0
                 PROVE  Before(q[j], q[k])
        BY DEF PathOrder
    <2> DEFINE jj == IF j < i THEN j ELSE j + 1
               kk == IF k < i THEN k ELSE k + 1
    <2>1. jj \in DOMAIN p /\ kk \in DOMAIN p /\ jj < kk
        <3>1. j \in 1 .. Len(p) - 1 /\ k \in 1 .. Len(p) - 1
            BY <1>2a
        <3>2. j \in Int /\ k \in Int /\ i \in Int
            BY <1>2, <3>1
        <3> QED BY <1>2, <3>1, <3>2
    <2>2. q[j] = p[jj] /\ q[k] = p[kk]
        BY <1>1
    <2> HIDE DEF jj, kk
    <2> QED BY <2>1, <2>2 DEF PathOrder
<1>5. ASSUME NEW j \in DOMAIN q
      PROVE  \E k \in DOMAIN p : q[j] = p[k]
    BY <1>1, <1>3
<1>6. ASSUME NEW j \in DOMAIN q, i = 1, p[1].fragments # 0, q[j].fragments # 0
      PROVE  Before(p[1], q[j])
    <2>1. q[j] = p[j + 1] /\ 1 \in DOMAIN p /\ j + 1 \in DOMAIN p /\ 1 < j + 1
        BY <1>1, <1>2, <1>2a, <1>6
    <2> QED BY <1>6, <2>1 DEF PathOrder
<1> QED BY <1>1, <1>4, <1>5, <1>6

\* The datagrams of one send().
Burst(s, m, msg, k) == [i \in 1 .. k |-> Fragment(s, m, msg, i - 1)]

\* The path after that send().
Extended(p, s, m, msg, k) == p \o Burst(s, m, msg, k)

\* q is the path p with the first k fragments of message m, the newest, behind it.
Behind(q, p, s, m, msg, k) ==
    /\ PathOrder(q)
    /\ PathSent(q, m)
    /\ \A j \in DOMAIN q : q[j].fragments # 0 =>
          (\E i \in DOMAIN p : q[j] = p[i]) \/ q[j].source_us = m
    /\ DOMAIN q = 1 .. Len(p) + k
    /\ \A i \in DOMAIN p : q[i] = p[i]
    /\ \A i \in 1 .. k : q[Len(p) + i] = Fragment(s, m, msg, i - 1)

\* send() puts the fragments of one more message behind what is on the path.
LEMMA BurstOrder ==
    ASSUME NEW p \in Seq(Datagram), NEW n \in Nat, PathOrder(p), PathSent(p, n),
           NEW msg \in Messages, NEW k \in 1 .. FragmentCount(msg.length),
           NEW s \in 0 .. SeqMod - 1
    PROVE  Behind(Extended(p, s, n + 1, msg, k), p, s, n + 1, msg, k)
<1> DEFINE b == Burst(s, n + 1, msg, k)
           q == Extended(p, s, n + 1, msg, k)
<1>1. FragmentCount(msg.length) \in Nat /\ k \in Nat /\ Len(p) \in Nat /\ n + 1 \in Nat
    BY MessagesAssumption, FragmentCountLemma
<1>2. b \in Seq(Datagram)
    <2>1. ASSUME NEW i \in 1 .. k
          PROVE  Fragment(s, n + 1, msg, i - 1) \in Datagram
        <3>1. i - 1 \in Nat /\ i - 1 < FragmentCount(msg.length)
            BY <1>1
        <3> QED BY <1>1, <3>1, FragmentType
    <2>2. b \in [1 .. k -> Datagram]
        BY <2>1 DEF Burst
    <2> HIDE DEF b
    <2> QED BY <1>1, <2>2, BurstType
<1>3. Len(b) = k /\ \A i \in 1 .. k : b[i].source_us = n + 1 /\ b[i].fragment = i - 1
    BY <1>1 DEF Burst, Fragment
<1>3a. \A i \in 1 .. k : b[i] = Fragment(s, n + 1, msg, i - 1)
    BY DEF Burst
<1> HIDE DEF b
<1>4. q = p \o b
    BY DEF b, q, Extended
<1> HIDE DEF q
<1>4a. /\ q \in Seq(Datagram) /\ Len(q) = Len(p) + k
       /\ \A j \in 1 .. Len(p) + k : q[j] = IF j <= Len(p) THEN p[j] ELSE b[j - Len(p)]
    <2>1. /\ q \in Seq(Datagram) /\ Len(q) = Len(p) + Len(b)
          /\ \A j \in 1 .. Len(p) + Len(b) : q[j] = IF j <= Len(p) THEN p[j] ELSE b[j - Len(p)]
        <3>1. p \in Seq(Datagram)
            OBVIOUS
        <3> QED BY ONLY <1>2, <1>4, <3>1, Joined
    <2> QED BY <1>3, <2>1
<1>5. /\ DOMAIN q = 1 .. Len(p) + k /\ DOMAIN p = 1 .. Len(p) /\ Len(q) = Len(p) + k
      /\ \A j \in 1 .. Len(p) : q[j] = p[j]
      /\ \A j \in Len(p) + 1 .. Len(p) + k : q[j] = b[j - Len(p)] /\ j - Len(p) \in 1 .. k
    <2>1. DOMAIN q = 1 .. Len(p) + k /\ DOMAIN p = 1 .. Len(p) /\ Len(q) = Len(p) + k
        BY <1>4a
    <2>2. \A j \in 1 .. Len(p) : q[j] = p[j]
        BY <1>1, <1>4a
    <2>3. ASSUME NEW j \in Len(p) + 1 .. Len(p) + k
          PROVE  q[j] = b[j - Len(p)] /\ j - Len(p) \in 1 .. k
        <3>1. j \in 1 .. Len(p) + k /\ ~ (j <= Len(p)) /\ j - Len(p) \in 1 .. k
            BY <1>1
        <3> QED BY <1>4a, <3>1
    <2> QED BY <2>1, <2>2, <2>3
<1>6. \A j \in Len(p) + 1 .. Len(p) + k : q[j].source_us = n + 1 /\ q[j].fragment = j - Len(p) - 1
    BY <1>3, <1>5
<1>7. \A j \in 1 .. Len(p) : q[j].fragments # 0 => q[j].source_us \in 1 .. n
    BY <1>5 DEF PathSent
<1>8. PathOrder(q)
    <2> SUFFICES ASSUME NEW i \in DOMAIN q, NEW j \in DOMAIN q, i < j,
                        q[i].fragments # 0, q[j].fragments # 0
                 PROVE  Before(q[i], q[j])
        BY DEF PathOrder
    <2>1. CASE j <= Len(p)
        <3>1. i \in DOMAIN p /\ j \in DOMAIN p /\ q[i] = p[i] /\ q[j] = p[j]
            BY <1>1, <1>5, <2>1
        <3> QED BY <3>1 DEF PathOrder
    <2>2. CASE ~ (j <= Len(p)) /\ i <= Len(p)
        <3>1. q[i].source_us \in 1 .. n /\ q[j].source_us = n + 1
            BY <1>1, <1>5, <1>6, <1>7, <2>2, SMTT(30)
        <3> QED BY <3>1 DEF Before
    <2>3. CASE ~ (j <= Len(p)) /\ ~ (i <= Len(p))
        <3>1. i \in Len(p) + 1 .. Len(p) + k /\ j \in Len(p) + 1 .. Len(p) + k
            BY <1>1, <1>5, <2>3
        <3>2. q[i].fragment < q[j].fragment /\ q[i].source_us = q[j].source_us
            <4>1. /\ q[i].source_us = n + 1 /\ q[i].fragment = i - Len(p) - 1
                  /\ q[j].source_us = n + 1 /\ q[j].fragment = j - Len(p) - 1
                BY <1>6, <3>1
            <4>2. i \in Int /\ j \in Int
                BY <3>1, <1>1
            <4> QED BY <1>1, <4>1, <4>2
        <3> QED BY <3>2 DEF Before
    <2> QED BY <2>1, <2>2, <2>3
<1>9. ASSUME NEW j \in DOMAIN q, q[j].fragments # 0
      PROVE  /\ q[j].source_us \in 1 .. n + 1
             /\ (\E i \in DOMAIN p : q[j] = p[i]) \/ q[j].source_us = n + 1
    <2>1. j \in 1 .. Len(p) \/ j \in Len(p) + 1 .. Len(p) + k
        BY <1>1, <1>5
    <2>2. CASE j \in 1 .. Len(p)
        <3>1. q[j].source_us \in 1 .. n
            BY <1>7, <1>9, <2>2
        <3> QED BY <1>5, <2>2, <3>1
    <2>3. CASE j \in Len(p) + 1 .. Len(p) + k
        BY <1>6, <2>3
    <2> QED BY <2>1, <2>2, <2>3
<1>10. \A i \in 1 .. k : q[Len(p) + i] = Fragment(s, n + 1, msg, i - 1)
    <2> SUFFICES ASSUME NEW i \in 1 .. k PROVE q[Len(p) + i] = b[i]
        BY <1>3a
    <2>1. Len(p) + i \in Len(p) + 1 .. Len(p) + k /\ (Len(p) + i) - Len(p) = i
        BY <1>1
    <2> QED BY <1>5, <2>1
<1>11. PathSent(q, n + 1)
    BY <1>9 DEF PathSent
<1>12. \A j \in DOMAIN q : q[j].fragments # 0 =>
          (\E i \in DOMAIN p : q[j] = p[i]) \/ q[j].source_us = n + 1
    BY <1>9
<1>13. DOMAIN q = 1 .. Len(p) + k /\ \A i \in DOMAIN p : q[i] = p[i]
    BY <1>5
<1> QED BY <1>8, <1>10, <1>11, <1>12, <1>13 DEF q, Behind

\* n different fragments of n are all of them.
LEMMA AllFragments ==
    ASSUME NEW n \in Nat, n > 0, NEW S, S \subseteq 0 .. n - 1
    PROVE  /\ IsFiniteSet(S)
           /\ Cardinality(S) = n => S = 0 .. n - 1
<1> DEFINE hi == n - 1
<1>1. hi \in Int /\ 0 <= hi /\ hi - 0 + 1 = n
    OBVIOUS
<1> HIDE DEF hi
<1>2. IsFiniteSet(0 .. hi) /\ Cardinality(0 .. hi) = hi - 0 + 1
    BY <1>1, FS_Interval
<1>3. S \subseteq 0 .. hi
    BY DEF hi
<1>4. IsFiniteSet(S) /\ (Cardinality(S) = Cardinality(0 .. hi) => S = 0 .. hi)
    BY <1>2, <1>3, FS_Subset
<1> QED BY <1>1, <1>2, <1>4 DEF hi

\* What a datagram does to the stamp and to the open sequence.  When the
\* message is complete its fragment 0 is there, with a stamp of its own.
LEMMA IngestOrder ==
    ASSUME NEW r \in ReceiverType, Counts(r), NEW d \in Datagram, d.fragments # 0,
           NEW newest \in Nat, newest <= r.last_source_us, OpenIsNew(r, newest),
           d.fragment = 0 => r.last_source_us < d.source_us
    PROVE  LET q == Ingest(r, d)
           IN  /\ q.last_source_us = IF d.fragment = 0 THEN d.source_us ELSE r.last_source_us
               /\ ~ Completes(r, d) => OpenIsNew(q, newest)
               /\ Completes(r, d) => newest < q.last_source_us /\ q.current_seq = None
<1> DEFINE st == Stamp(r, d)
           t == Tune(r, d)
           u == Detect(t, d)
           p == Place(u, d)
           q == Ingest(r, d)
           stamp == IF d.fragment = 0 THEN d.source_us ELSE r.last_source_us
<1>1. /\ st \in ReceiverType /\ st.last_source_us = stamp
      /\ st.current_seq = r.current_seq /\ st.total_frags = r.total_frags
      /\ st.received = r.received
    BY DEF Stamp, ReceiverType, Datagram
<1>2. stamp \in Nat /\ newest <= stamp /\ (d.fragment = 0 => newest < stamp)
    <2>1. d.source_us \in Nat /\ r.last_source_us \in Nat
        BY DEF Datagram, ReceiverType
    <2>2. CASE d.fragment = 0
        BY <2>1, <2>2
    <2>3. CASE d.fragment # 0
        BY <2>1, <2>3
    <2> QED BY <2>2, <2>3
<1>3. OpenIsNew(st, newest)
    BY <1>1, <1>2 DEF OpenIsNew, ReceiverType
<1> HIDE DEF st, stamp
<1>4. t \in ReceiverType /\ Counts(t) /\ t.current_seq = d.sequence
    BY TuneType
<1>5. t.last_source_us = stamp /\ OpenIsNew(t, newest)
    <2>1. CASE st.current_seq = d.sequence
        BY <1>1, <1>3, <2>1 DEF Tune, st
    <2>2. CASE st.current_seq # d.sequence
        <3>1. t = Reset(st, d)
            BY <2>2 DEF Tune, st
        <3> HIDE DEF t
        <3>2. t.last_source_us = st.last_source_us /\ (t.total_frags = 0 \/ t.received = {})
            <4>1. CASE Malformed(d)
                BY <1>1, <3>1, <4>1 DEF Reset, ReceiverType
            <4>2. CASE ~ Malformed(d)
                BY <1>1, <3>1, <4>2 DEF Reset, ReceiverType
            <4> QED BY <4>1, <4>2
        <3>3. OpenIsNew(t, newest)
            BY <3>2 DEF OpenIsNew
        <3> QED BY <1>1, <3>2, <3>3
    <2> QED BY <2>1, <2>2
<1> HIDE DEF t
<1>6. CASE Ignored(t, d)
    <2>1. q = t /\ ~ Completes(r, d)
        BY <1>6 DEF Ingest, Completes, t
    <2> HIDE DEF q
    <2> QED BY <1>5, <2>1 DEF q, stamp
<1>7. CASE ~ Ignored(t, d)
    <2>1. /\ p \in ReceiverType
          /\ p.current_seq = t.current_seq
          /\ \/ Counts(p) /\ ~ (d.fragment \in p.received)
             \/ /\ d.fragment \in p.received
                /\ p.got_frags = Cardinality(p.received)
                /\ p.received \subseteq 0 .. p.total_frags - 1
                /\ p.got_frags <= p.total_frags
        BY <1>4, <1>7, PlaceType
    <2>2. /\ u.last_source_us = t.last_source_us /\ u.total_frags = t.total_frags
          /\ u.current_seq = t.current_seq /\ u.received = t.received
          /\ u = [t EXCEPT !.detected_frag_size = u.detected_frag_size]
        BY <1>4 DEF Detect, ReceiverType
    <2>2a. t.last_source_us \in Nat
        BY <1>4 DEF ReceiverType
    <2>3. /\ p.last_source_us = t.last_source_us
          /\ p.total_frags = t.total_frags
          /\ p.received = t.received \/ p.received = t.received \cup {d.fragment}
        <3>1. DOMAIN u = DOMAIN t
            BY <2>2
        <3> HIDE DEF u
        <3>2. CASE d.fragment * Stride(u) + d.size > MaxPayload
            BY <2>2, <3>2 DEF Place
        <3>3. CASE ~ (d.fragment * Stride(u) + d.size > MaxPayload)
            BY <1>4, <2>2, <3>1, <3>3 DEF Place, ReceiverType
        <3> QED BY <3>2, <3>3
    <2> HIDE DEF u, p
    <2>4. OpenIsNew(p, newest)
        <3>1. SUFFICES ASSUME p.current_seq # None, p.total_frags > 0, 0 \in p.received
                       PROVE  newest < p.last_source_us
            BY DEF OpenIsNew
        <3>2. CASE 0 \in t.received
            BY <1>5, <2>1, <2>3, <3>1, <3>2 DEF OpenIsNew
        <3>3. CASE ~ (0 \in t.received)
            <4>1. d.fragment = 0
                BY <2>3, <3>1, <3>3
            <4> QED BY <1>2, <1>5, <2>3, <4>1
        <3> QED BY <3>2, <3>3
    <2>5. Completes(r, d) <=> d.fragment \in p.received /\ p.got_frags = p.total_frags
        BY <1>7 DEF Completes, t, u, p
    <2>6. q = IF Completes(r, d) THEN [p EXCEPT !.current_seq = None] ELSE p
        BY <1>7 DEF Ingest, t, u, p
    <2> HIDE DEF q
    <2>7. q.last_source_us = stamp
        BY <1>5, <2>1, <2>3, <2>6 DEF ReceiverType
    <2>8. CASE Completes(r, d)
        <3>1. q.current_seq = None
            BY <2>1, <2>6, <2>8 DEF ReceiverType
        <3>2. p.received = 0 .. p.total_frags - 1 /\ p.total_frags > 0
            <4>1. /\ d.fragment \in p.received
                  /\ p.received \subseteq 0 .. p.total_frags - 1
                  /\ Cardinality(p.received) = p.total_frags
                  /\ p.total_frags \in Nat
                <5>1. p.total_frags \in Nat /\ p.current_seq # None
                    BY <1>4, <2>1, SizesAssumption DEF ReceiverType, Datagram, None
                <5>2. ~ Counts(p) \/ p.total_frags = 0
                    BY <2>5, <2>8, <5>1 DEF Counts
                <5>3. p.total_frags # 0
                    BY <1>7, <2>3, <1>4, SizesAssumption DEF Ignored, Datagram, ReceiverType
                <5> QED BY <2>1, <2>5, <2>8, <5>1, <5>2, <5>3
            <4>2. p.total_frags > 0
                BY <4>1
            <4> QED BY <4>1, <4>2, AllFragments
        <3>3. p.total_frags \in Nat /\ p.current_seq # None
            BY <1>4, <2>1, SizesAssumption DEF ReceiverType, Datagram, None
        <3>4. newest < p.last_source_us
            BY <2>4, <3>2, <3>3 DEF OpenIsNew
        <3>5. newest < q.last_source_us
            BY <1>5, <2>3, <2>7, <3>4
        <3> QED BY <2>7, <2>8, <3>1, <3>5 DEF q, stamp
    <2>9. CASE ~ Completes(r, d)
        BY <2>4, <2>6, <2>7, <2>9 DEF q, stamp
    <2> QED BY <2>8, <2>9
<1> QED BY <1>6, <1>7

LEMMA OrderInit == Init => OrderInv
<1> SUFFICES ASSUME Init PROVE OrderInv
    OBVIOUS
<1>1. CountInv
    BY CountInit
<1>2. Latest(delivered) = 0 /\ rx.last_source_us = 0 /\ rx.current_seq = None
    BY DEF Init, Latest, NewReceiver
<1> QED BY <1>1, <1>2 DEF Init, OrderInv, PathOrder, PathSent, OpenIsNew

\* The last of what was delivered has a stamp.
LEMMA LatestType == TypeOK => Latest(delivered) \in Nat
<1> SUFFICES ASSUME TypeOK, delivered # <<>>
             PROVE  delivered[Len(delivered)].source_us \in Nat
    BY DEF Latest
<1> DEFINE D == [bytes : Seq(Byte), buf_offset : 0 .. U32_MAX, source_us : Nat]
<1>1. delivered \in Seq(D)
    BY DEF TypeOK
<1>2. \A e \in D : e.source_us \in Nat
    OBVIOUS
<1> HIDE DEF D
<1>3. Len(delivered) \in DOMAIN delivered
    BY <1>1
<1>4. delivered[Len(delivered)] \in D
    BY <1>1, <1>3
<1> QED BY <1>2, <1>4

\* The step that hands the first datagram to the receiver.
LEMMA ReceiveOrder ==
    ASSUME OrderInv, 1 \in DOMAIN net, Receive(1)
    PROVE  /\ PathOrder(net')
           /\ PathSent(net', Len(sent))
           /\ rx'.last_source_us <= Len(sent)
           /\ \A i \in DOMAIN net' :
                 net'[i].fragments # 0 /\ net'[i].fragment = 0 =>
                     rx'.last_source_us < net'[i].source_us
           /\ Latest(delivered') <= rx'.last_source_us
           /\ OpenIsNew(rx', Latest(delivered'))
           /\ Completes(rx, net[1]) =>
                 /\ rx'.last_source_us \in DOMAIN sent
                 /\ Latest(delivered) < rx'.last_source_us
<1> DEFINE d == net[1]
<1>1. /\ net \in Seq(Datagram) /\ rx \in ReceiverType /\ sent \in Seq(Messages)
      /\ PathOrder(net) /\ PathSent(net, Len(sent))
      /\ rx.last_source_us <= Len(sent)
      /\ \A i \in DOMAIN net :
            net[i].fragments # 0 /\ net[i].fragment = 0 => rx.last_source_us < net[i].source_us
      /\ Latest(delivered) <= rx.last_source_us
      /\ OpenIsNew(rx, Latest(delivered))
      /\ Latest(delivered) \in Nat
    BY LatestType DEF OrderInv, CountInv, TypeOK
<1>2. Counts(rx)
    BY DEF OrderInv, CountInv, Counts, CountsFragments
<1>3. d \in Datagram /\ Len(sent) \in Nat
    BY <1>1
<1>4. rx' = Ingest(rx, d) /\ net' = Without(net, 1)
    BY DEF Receive, Without
<1>5. /\ PathOrder(net') /\ net' \in Seq(Datagram)
      /\ \A j \in DOMAIN net' : \E k \in DOMAIN net : net'[j] = net[k]
      /\ d.fragments # 0 => \A j \in DOMAIN net' : net'[j].fragments # 0 => Before(d, net'[j])
    BY <1>1, <1>4, OrderKept
<1>6. PathSent(net', Len(sent))
    BY <1>1, <1>5 DEF PathSent
<1>7. CASE d.fragments = 0
    <2>1. rx' = rx /\ ~ Completes(rx, d)
        BY <1>4, <1>7 DEF Ingest, Completes
    <2>2. delivered' = delivered
        BY <2>1 DEF Receive
    <2>3. \A i \in DOMAIN net' :
              net'[i].fragments # 0 /\ net'[i].fragment = 0 => rx.last_source_us < net'[i].source_us
        BY <1>1, <1>5
    <2> QED BY <1>1, <1>5, <1>6, <2>1, <2>2, <2>3
<1>8. CASE d.fragments # 0
    <2> DEFINE stamp == IF d.fragment = 0 THEN d.source_us ELSE rx.last_source_us
    <2>1. d.fragment = 0 => rx.last_source_us < d.source_us
        BY <1>1, <1>8
    <2>2. /\ rx'.last_source_us = stamp
          /\ ~ Completes(rx, d) => OpenIsNew(rx', Latest(delivered))
          /\ Completes(rx, d) => Latest(delivered) < rx'.last_source_us /\ rx'.current_seq = None
        BY <1>1, <1>2, <1>3, <1>4, <1>8, <2>1, IngestOrder
    <2>3. d.source_us \in 1 .. Len(sent)
        BY <1>1, <1>8 DEF PathSent
    <2>4. stamp \in Nat /\ stamp <= Len(sent) /\ Latest(delivered) <= stamp
        BY <1>1, <1>3, <2>1, <2>3 DEF ReceiverType
    <2>5. ASSUME NEW i \in DOMAIN net', net'[i].fragments # 0, net'[i].fragment = 0
          PROVE  stamp < net'[i].source_us
        <3>1. Before(d, net'[i])
            BY <1>5, <1>8, <2>5
        <3>2. d.fragment \in Nat /\ d.source_us \in Nat /\ net'[i].source_us \in Nat
            <4>1. net'[i] \in Datagram
                BY <1>5
            <4> QED BY <1>3, <4>1 DEF Datagram
        <3>3. d.source_us < net'[i].source_us
            BY <2>5, <3>1, <3>2 DEF Before
        <3>4. PICK k \in DOMAIN net : net'[i] = net[k]
            BY <1>5
        <3>5. rx.last_source_us < net'[i].source_us
            BY <1>1, <2>5, <3>4
        <3> QED BY <3>3, <3>5
    <2> HIDE DEF stamp
    <2>6. CASE Completes(rx, d)
        <3>1. delivered' = Append(delivered, Assembled(rx'))
            BY <2>6 DEF Receive
        <3>2. delivered' # <<>> /\ delivered'[Len(delivered')] = Assembled(rx')
            <4> DEFINE D == [bytes : Seq(Byte), buf_offset : 0 .. U32_MAX, source_us : Nat]
            <4>1. delivered \in Seq(D)
                BY DEF OrderInv, CountInv, TypeOK
            <4> HIDE DEF D
            <4> QED BY ONLY <3>1, <4>1
        <3>3. Latest(delivered') = rx'.last_source_us
            BY <3>2 DEF Latest, Assembled
        <3>4. OpenIsNew(rx', Latest(delivered'))
            BY <2>2, <2>6 DEF OpenIsNew
        <3>5. rx'.last_source_us \in DOMAIN sent
            <4>1. stamp \in 1 .. Len(sent)
                BY <1>1, <2>2, <2>4, <2>6, <1>3
            <4>2. DOMAIN sent = 1 .. Len(sent)
                BY <1>1
            <4> QED BY <2>2, <4>1, <4>2
        <3> QED BY <1>5, <1>6, <2>2, <2>4, <2>5, <2>6, <3>3, <3>4, <3>5
    <2>7. CASE ~ Completes(rx, d)
        <3>1. delivered' = delivered
            BY <2>7 DEF Receive
        <3> QED BY <1>5, <1>6, <2>2, <2>4, <2>5, <2>7, <3>1
    <2> QED BY <2>6, <2>7
<1> QED BY <1>7, <1>8

LEMMA OrderNext == ASSUME OrderedPath PROVE OrderInv /\ [Next]_vars => OrderInv'
<1> SUFFICES ASSUME OrderInv, [Next]_vars PROVE OrderInv'
    OBVIOUS
<1>1. CountInv'
    BY CountNext DEF OrderInv
<1>2. /\ net \in Seq(Datagram) /\ rx \in ReceiverType /\ sent \in Seq(Messages)
      /\ sequence \in 0 .. SeqMod - 1
      /\ PathOrder(net) /\ PathSent(net, Len(sent))
      /\ rx.last_source_us <= Len(sent) /\ rx.last_source_us \in Nat
      /\ \A i \in DOMAIN net :
            net[i].fragments # 0 /\ net[i].fragment = 0 => rx.last_source_us < net[i].source_us
      /\ Latest(delivered) <= rx.last_source_us
      /\ OpenIsNew(rx, Latest(delivered))
    BY DEF OrderInv, CountInv, TypeOK, ReceiverType
<1>3. Len(sent) \in Nat
    BY <1>2
<1>4. ASSUME NEW msg \in Messages, NEW k \in 1 .. FragmentCount(msg.length), Send(msg, k)
      PROVE  OrderInv'
    <2> DEFINE n == Len(sent)
    <2>1. /\ net' = Extended(net, sequence, n + 1, msg, k)
          /\ sent' = Append(sent, msg) /\ rx' = rx /\ delivered' = delivered
        BY <1>4 DEF Send, Burst, Extended
    <2>2. Len(sent') = n + 1
        BY <1>2, <2>1
    <2>2a. n \in Nat /\ PathSent(net, n) /\ net \in Seq(Datagram) /\ PathOrder(net)
        BY <1>2, <1>3
    <2>2b. sequence \in 0 .. SeqMod - 1
        BY <1>2
    <2> HIDE DEF n
    <2>3. /\ PathOrder(net') /\ PathSent(net', n + 1)
          /\ \A j \in DOMAIN net' : net'[j].fragments # 0 =>
                (\E i \in DOMAIN net : net'[j] = net[i]) \/ net'[j].source_us = n + 1
        <3>1. Behind(Extended(net, sequence, n + 1, msg, k), net, sequence, n + 1, msg, k)
            BY <2>2a, <2>2b, BurstOrder
        <3> QED BY <2>1, <3>1 DEF Behind
    <2>4. \A i \in DOMAIN net' :
              net'[i].fragments # 0 /\ net'[i].fragment = 0 => rx.last_source_us < net'[i].source_us
        BY <1>2, <1>3, <2>3 DEF n
    <2>5. rx.last_source_us <= Len(sent')
        BY <1>2, <1>3, <2>2 DEF n
    <2> QED BY <1>1, <1>2, <2>1, <2>2, <2>3, <2>4, <2>5 DEF OrderInv
<1>5. CASE SendHeartbeat
    <2>1. /\ net' = Append(net, Heartbeat) /\ UNCHANGED <<rx, sent, delivered>>
        BY <1>5 DEF SendHeartbeat
    <2>2. /\ DOMAIN net' = 1 .. Len(net) + 1 /\ Len(net) \in Nat /\ DOMAIN net = 1 .. Len(net)
          /\ \A i \in DOMAIN net : net'[i] = net[i]
          /\ net'[Len(net) + 1] = Heartbeat
        BY <1>2, <2>1
    <2>3. Heartbeat.fragments = 0
        BY DEF Heartbeat
    <2>4. \A i \in DOMAIN net' : net'[i].fragments # 0 => i \in DOMAIN net /\ net'[i] = net[i]
        BY <2>2, <2>3
    <2>5. PathOrder(net') /\ PathSent(net', Len(sent))
        BY <1>2, <2>4 DEF PathOrder, PathSent
    <2> QED BY <1>1, <1>2, <2>1, <2>4, <2>5 DEF OrderInv
<1>6. ASSUME NEW i \in DOMAIN net, Receive(i)
      PROVE  OrderInv'
    <2>1. i = 1
        BY <1>6 DEF Receive, OrderedPath
    <2>2. sent' = sent
        BY <1>6 DEF Receive
    <2> QED BY <1>1, <1>6, <2>1, <2>2, ReceiveOrder DEF OrderInv
<1>7. ASSUME NEW i \in DOMAIN net, Lose(i)
      PROVE  OrderInv'
    <2>1. net' = Without(net, i) /\ UNCHANGED <<rx, sent, delivered>>
        BY <1>7 DEF Lose, Without
    <2>2. PathOrder(net') /\ \A j \in DOMAIN net' : \E k \in DOMAIN net : net'[j] = net[k]
        BY <1>2, <2>1, OrderKept
    <2>3. PathSent(net', Len(sent))
        BY <1>2, <2>2 DEF PathSent
    <2>4. \A j \in DOMAIN net' :
              net'[j].fragments # 0 /\ net'[j].fragment = 0 => rx.last_source_us < net'[j].source_us
        BY <1>2, <2>2
    <2> QED BY <1>1, <1>2, <2>1, <2>2, <2>3, <2>4 DEF OrderInv
<1>8. ASSUME NEW i \in DOMAIN net, Duplicate(i)
      PROVE  OrderInv'
    BY <1>8 DEF Duplicate, OrderedPath
<1>9. CASE UNCHANGED vars
    BY <1>1, <1>2, <1>9 DEF vars, OrderInv
<1> QED BY <1>4, <1>5, <1>6, <1>7, <1>8, <1>9 DEF Next

\* A step of Reassembly is a step of MessageChannel, or none.
LEMMA ChannelStep ==
    ASSUME OrderedPath, OrderInv, [Next]_vars
    PROVE  [Channel!Next]_(Channel!vars)
<1> DEFINE arr(ds) == [k \in DOMAIN ds |-> ds[k].source_us]
<1> USE DEF Channel!Next, Channel!vars, Channel!Submit, Channel!Arrive
<1>1. ASSUME NEW msg \in Messages, NEW k \in 1 .. FragmentCount(msg.length), Send(msg, k)
      PROVE  Channel!Next
    BY <1>1 DEF Send
<1>2. ASSUME NEW i \in DOMAIN net, Receive(i), Completes(rx, net[i])
      PROVE  Channel!Next
    <2> DEFINE k == rx'.last_source_us
               D == [bytes : Seq(Byte), buf_offset : 0 .. U32_MAX, source_us : Nat]
    <2>1. i = 1
        BY <1>2 DEF Receive, OrderedPath
    <2>2. k \in DOMAIN sent /\ Latest(delivered) < k
        BY <1>2, <2>1, ReceiveOrder
    <2>3. delivered' = Append(delivered, Assembled(rx')) /\ sent' = sent
        BY <1>2 DEF Receive
    <2>4. delivered \in Seq(D)
        BY DEF OrderInv, CountInv, TypeOK
    <2> HIDE DEF D
    <2>5. Assembled(rx').source_us = k
        BY DEF Assembled
    <2> HIDE DEF k
    <2>6. arr(delivered') = Append(arr(delivered), k)
        <3>1. /\ DOMAIN delivered' = 1 .. Len(delivered) + 1 /\ DOMAIN delivered = 1 .. Len(delivered)
              /\ Len(delivered) \in Nat
              /\ \A j \in 1 .. Len(delivered) : delivered'[j] = delivered[j]
              /\ delivered'[Len(delivered) + 1] = Assembled(rx')
            BY ONLY <2>3, <2>4
        <3> DEFINE n == Len(delivered)
                   a == arr(delivered)
                   b == Append(a, k)
        <3>2. /\ a = [j \in 1 .. n |-> delivered[j].source_us] /\ n \in Nat
            BY <3>1
        <3>3. arr(delivered') = [j \in 1 .. n + 1 |-> delivered'[j].source_us]
            BY <3>1
        <3> HIDE DEF n, a
        <3>4. b = [j \in 1 .. n + 1 |-> IF j = n + 1 THEN k ELSE a[j]]
            <4>1. Len(a) = n /\ DOMAIN a = 1 .. n
                BY <3>2
            <4> QED BY <3>2, <4>1
        <3>5. ASSUME NEW j \in 1 .. n + 1
              PROVE  delivered'[j].source_us = IF j = n + 1 THEN k ELSE a[j]
            BY <2>5, <3>1, <3>2 DEF n
        <3> HIDE DEF b
        <3> QED BY <3>3, <3>4, <3>5 DEF a, b
    <2>7. Channel!Newest = Latest(delivered)
        <3>1. DOMAIN delivered = 1 .. Len(delivered) /\ Len(delivered) \in Nat
            BY ONLY <2>4
        <3>2. Len(arr(delivered)) = Len(delivered) /\ (arr(delivered) = <<>> <=> delivered = <<>>)
            BY ONLY <2>4
        <3>3. delivered # <<>> => Len(delivered) \in DOMAIN delivered
            BY ONLY <2>4
        <3> QED BY <3>2, <3>3 DEF Channel!Newest, Latest
    <2>8. Channel!Arrive(k)
        BY <2>2, <2>3, <2>6, <2>7
    <2> QED BY <2>2, <2>8
<1>3. ASSUME NEW i \in DOMAIN net, Receive(i), ~ Completes(rx, net[i])
      PROVE  UNCHANGED Channel!vars
    BY <1>3 DEF Receive
<1>4. ASSUME NEW i \in DOMAIN net, Lose(i) \/ Duplicate(i)
      PROVE  UNCHANGED Channel!vars
    BY <1>4 DEF Lose, Duplicate
<1>5. CASE SendHeartbeat
    BY <1>5 DEF SendHeartbeat
<1>6. CASE UNCHANGED vars
    BY <1>6 DEF vars
<1> QED BY <1>1, <1>2, <1>3, <1>4, <1>5, <1>6 DEF Next

\* On a path that may lose but neither duplicates nor reorders, ingest()
\* reports messages of send() at most once and in the order in which they were
\* sent, whatever send_fn does, for every size of a datagram and every width of
\* the sequence number (protocol.rs:191, 220-247, 285-333).
THEOREM ImplementsChannel ==
    ASSUME OrderedPath
    PROVE  Spec => RefinesMessageChannel
<1>1. Init => Channel!Init
    BY DEF Init, Channel!Init
<1>2. OrderInv /\ [Next]_vars => OrderInv'
    BY OrderNext
<1>3. OrderInv /\ [Next]_vars => [Channel!Next]_(Channel!vars)
    BY ChannelStep
<1> QED BY OrderInit, <1>1, <1>2, <1>3, PTL DEF Spec, RefinesMessageChannel, Channel!Spec

-----------------------------------------------------------------------------
(* What is dropped or missing had lost a fragment of its own *)

\* A message of which the receiver takes nothing.
Oversized(msg) == ~ Deliverable(msg)

OnNet(p, m, f) == \E i \in DOMAIN p : IsPiece(p[i], m, f)

\* The fragments of message m that r holds.
Held(r, m) == IF r.current_seq = m - 1 THEN r.received ELSE {}

\* As far as the receiver has begun with message m, or will begin with it,
\* every fragment of it is there or still on the path.
Intact(r, p, m, msg) ==
    r.current_seq = m - 1 \/ (\E f \in Nat : OnNet(p, m, f)) =>
        \A f \in 0 .. FragmentCount(msg.length) - 1 : f \in Held(r, m) \/ OnNet(p, m, f)

\* What r took from the headers and the first fragment of msg.
View(r, msg) ==
    /\ Oversized(msg) => r.total_frags = 0
    /\ ~ Oversized(msg) =>
          /\ r.total_frags = FragmentCount(msg.length)
          /\ r.detected_frag_size \in {0, PayloadPerDatagram}
          /\ 0 \in r.received /\ r.total_frags > 1 => r.detected_frag_size # 0

\* A sequence that can be given up belongs to a message, and shows it.
Follows(r, s) ==
    /\ r.current_seq = None => ~ Abandoned(r)
    /\ r.current_seq # None =>
          r.current_seq + 1 \in DOMAIN s /\ View(r, s[r.current_seq + 1])

\* What is on the path comes after what r has.
Ahead(r, p) ==
    r.current_seq # None =>
        \A i \in DOMAIN p : p[i].fragments # 0 =>
            /\ p[i].source_us >= r.current_seq + 1
            /\ p[i].source_us = r.current_seq + 1 /\ r.total_frags > 0 =>
                  \A f \in r.received : f < p[i].fragment

\* When fragment 0 of the open sequence is there, the stamp is its message's.
Stamped(r) ==
    r.current_seq # None /\ r.total_frags > 0 /\ 0 \in r.received =>
        r.last_source_us = r.current_seq + 1

\* hit: the messages that lost a fragment; gone: those counted as dropped.
Explains(hit, gone) ==
    /\ Cardinality(hit) <= lost
    /\ Cardinality(gone) = rx.dropped_sequences
    /\ \A m \in gone :
          /\ rx.current_seq # None => m < rx.current_seq + 1
          /\ \A i \in DOMAIN net : net[i].fragments # 0 => m < net[i].source_us
    /\ \A m \in DOMAIN sent \ hit :
          ~ Oversized(sent[m]) =>
              Intact(rx, net, m, sent[m]) /\ (Arrived(m) \/ OnTheWay(m))

LossInv ==
    /\ PathInv
    /\ PathOrder(net)
    /\ Follows(rx, sent)
    /\ Ahead(rx, net)
    /\ Stamped(rx)
    /\ \E hit \in SUBSET (1 .. Len(sent)) : \E gone \in SUBSET hit : Explains(hit, gone)

\* No datagram of the sender is longer than the receiver takes.
FitsDatagram == PayloadPerDatagram <= MAX_PAYLOAD_PER_DATAGRAM

\* Looking at the header of fragment i of message m.
LEMMA TuneView ==
    ASSUME NEW msg \in Messages, NEW m \in Nat \ {0}, NEW i \in Nat,
           i < FragmentCount(msg.length),
           NEW r \in ReceiverType, Counts(r), NEW d \in Datagram,
           d = Fragment(m - 1, m, msg, i),
           r.current_seq = None => ~ Abandoned(r),
           r.current_seq = m - 1 => View(r, msg)
    PROVE  LET t == Tune(r, d)
           IN  /\ t \in ReceiverType /\ Counts(t)
               /\ t.current_seq = m - 1
               /\ View(t, msg)
               /\ t.received = Held(r, m) \/ t.total_frags = 0
               /\ t.dropped_sequences =
                     r.dropped_sequences
                         + IF r.current_seq # m - 1 /\ Abandoned(r) THEN 1 ELSE 0
<1> DEFINE st == Stamp(r, d)
           t == Tune(r, d)
<1>1. /\ d.sequence = m - 1 /\ d.fragments = FragmentCount(msg.length)
      /\ d.payload_size = msg.length /\ d.fragments # 0
      /\ msg.length \in Nat /\ FragmentCount(msg.length) \in Nat
    BY MessagesAssumption, FragmentCountLemma DEF Fragment
<1>2. t \in ReceiverType /\ Counts(t) /\ t.current_seq = m - 1
    BY <1>1, TuneType
<1>3. /\ st \in ReceiverType
      /\ st.current_seq = r.current_seq /\ st.total_frags = r.total_frags
      /\ st.got_frags = r.got_frags /\ st.received = r.received
      /\ st.detected_frag_size = r.detected_frag_size
      /\ st.dropped_sequences = r.dropped_sequences
    BY DEF Stamp, ReceiverType, Datagram
<1>4. Abandoned(st) <=> Abandoned(r)
    BY <1>3 DEF Abandoned
<1>4a. r.dropped_sequences \in Nat
    BY DEF ReceiverType
<1>5. CASE r.current_seq = m - 1
    <2>1. t = st
        BY <1>1, <1>3, <1>5 DEF Tune
    <2> HIDE DEF t, st
    <2>2. View(t, msg)
        BY <1>3, <1>5, <2>1 DEF View
    <2>3. t.received = Held(r, m)
        BY <1>3, <1>5, <2>1 DEF Held
    <2>4. t.dropped_sequences = r.dropped_sequences
              + IF r.current_seq # m - 1 /\ Abandoned(r) THEN 1 ELSE 0
        BY <1>3, <1>4a, <1>5, <2>1
    <2> QED BY <1>2, <2>2, <2>3, <2>4 DEF t
<1>6. CASE r.current_seq # m - 1
    <2>1. t = Reset(st, d)
        BY <1>1, <1>3, <1>6 DEF Tune
    <2> HIDE DEF t, st
    <2>2. t.dropped_sequences = st.dropped_sequences + IF Abandoned(st) THEN 1 ELSE 0
        <3>1. CASE Malformed(d)
            BY <1>3, <2>1, <3>1 DEF Reset, ReceiverType
        <3>2. CASE ~ Malformed(d)
            BY <1>3, <2>1, <3>2 DEF Reset, ReceiverType
        <3> QED BY <3>1, <3>2
    <2>3. Malformed(d) <=> Oversized(msg)
        BY <1>1, SizesAssumption DEF Malformed, Oversized, Deliverable
    <2>4. CASE Malformed(d)
        <3>1. t.total_frags = 0
            BY <1>3, <2>1, <2>4 DEF Reset, ReceiverType
        <3>2. View(t, msg)
            BY <2>3, <2>4, <3>1 DEF View
        <3> QED BY <1>2, <1>3, <1>4, <1>6, <2>2, <3>1, <3>2 DEF t
    <2>5. CASE ~ Malformed(d)
        <3>1. t.total_frags = d.fragments /\ t.detected_frag_size = 0 /\ t.received = {}
            BY <1>3, <2>1, <2>5 DEF Reset, ReceiverType
        <3>2. View(t, msg) /\ t.received = Held(r, m)
            BY <1>1, <1>6, <2>3, <2>5, <3>1 DEF View, Held
        <3> QED BY <1>2, <1>3, <1>4, <1>6, <2>2, <3>2 DEF t
    <2> QED BY <2>4, <2>5
<1> QED BY <1>5, <1>6

\* Fragment i of message m is placed, whenever fragment 0 was placed first.
LEMMA PlaceView ==
    ASSUME FitsDatagram,
           NEW msg \in Messages, NEW m \in Nat \ {0}, NEW i \in Nat,
           i < FragmentCount(msg.length),
           NEW t \in ReceiverType, Counts(t), NEW d \in Datagram,
           d = Fragment(m - 1, m, msg, i),
           t.current_seq = m - 1, View(t, msg), ~ Ignored(t, d)
    PROVE  LET p == Place(Detect(t, d), d)
           IN  /\ View(p, msg)
               /\ p.total_frags = t.total_frags
               /\ p.dropped_sequences = t.dropped_sequences
               /\ p.received \subseteq t.received \cup {i}
               /\ i = 0 \/ 0 \in t.received => p.received = t.received \cup {i}
<1> DEFINE P == PayloadPerDatagram
           u == Detect(t, d)
           p == Place(u, d)
           dest == d.fragment * Stride(u)
<1>1. /\ d.fragment = i /\ d.size = FragmentSize(msg.length, i)
      /\ msg.length \in Nat /\ FragmentCount(msg.length) \in Nat
      /\ P \in Nat \ {0}
    BY MessagesAssumption, SizesAssumption, FragmentCountLemma DEF Fragment
<1>2. /\ d.size \in Nat /\ i * P \in Nat /\ i * P + d.size <= msg.length
      /\ i < FragmentCount(msg.length) - 1 => d.size = P
    BY <1>1, FragmentSizeLemma
<1>3. i < t.total_frags /\ t.total_frags \in Nat
    BY <1>1, SizesAssumption, SMTT(30) DEF Ignored, ReceiverType
<1>4. /\ ~ Oversized(msg)
      /\ t.total_frags = FragmentCount(msg.length)
      /\ t.detected_frag_size \in {0, P}
      /\ 0 \in t.received /\ t.total_frags > 1 => t.detected_frag_size # 0
      /\ msg.length <= MaxPayload
    <2>1. ~ Oversized(msg)
        BY <1>3 DEF View
    <2>2. msg.length <= MaxPayload
        BY <1>1, <2>1, SizesAssumption DEF Oversized, Deliverable
    <2> QED BY <2>1, <2>2 DEF View
<1>5. /\ u.received = t.received /\ u.total_frags = t.total_frags
      /\ u.dropped_sequences = t.dropped_sequences
      /\ u.detected_frag_size \in {0, P}
      /\ i < t.total_frags - 1 => u.detected_frag_size = P
      /\ t.detected_frag_size # 0 => u.detected_frag_size = t.detected_frag_size
      /\ DOMAIN u = DOMAIN t
    BY <1>1, <1>2, <1>4 DEF Detect, ReceiverType
<1> HIDE DEF u
<1>6. /\ p.total_frags = u.total_frags
      /\ p.dropped_sequences = u.dropped_sequences
      /\ p.detected_frag_size = u.detected_frag_size
      /\ p.received = IF dest + d.size > MaxPayload THEN u.received ELSE u.received \cup {i}
    <2>1. CASE dest + d.size > MaxPayload
        BY <2>1 DEF Place
    <2>2. CASE ~ (dest + d.size > MaxPayload)
        BY <1>1, <1>5, <2>2 DEF Place, ReceiverType
    <2> QED BY <2>1, <2>2
<1>7. ASSUME i = 0 \/ 0 \in t.received
      PROVE  ~ (dest + d.size > MaxPayload)
    <2>1. dest = i * P
        <3>1. CASE i = 0
            <4>1. Stride(u) \in Nat
                BY <1>1, <1>5, SizesAssumption DEF Stride
            <4> QED BY <1>1, <3>1, <4>1
        <3>2. CASE i # 0
            <4>1. t.total_frags > 1
                BY <1>3, <3>2
            <4>2. u.detected_frag_size = P
                BY <1>4, <1>5, <1>7, <3>2, <4>1
            <4> QED BY <1>1, <4>2 DEF Stride
        <3> QED BY <3>1, <3>2
    <2> HIDE DEF dest
    <2> QED BY <1>1, <1>2, <1>4, <2>1, SizesAssumption
<1> HIDE DEF dest, p
<1>8. View(p, msg)
    <2>1. 0 \in p.received /\ p.total_frags > 1 => p.detected_frag_size # 0
        <3> SUFFICES ASSUME 0 \in p.received, p.total_frags > 1 PROVE p.detected_frag_size # 0
            OBVIOUS
        <3>1. CASE 0 \in t.received
            BY <1>1, <1>4, <1>5, <1>6, <3>1
        <3>2. CASE ~ (0 \in t.received)
            <4>1. i = 0
                BY <1>5, <1>6, <3>2
            <4>2. i < t.total_frags - 1
                BY <1>3, <1>5, <1>6, <4>1
            <4> QED BY <1>1, <1>5, <1>6, <4>2
        <3> QED BY <3>1, <3>2
    <2> QED BY <1>4, <1>5, <1>6, <2>1 DEF View
<1> QED BY <1>5, <1>6, <1>7, <1>8 DEF p, u

\* What the first datagram on the path does to the receiver: it gives up at
\* most the sequence it had open, and then holds one fragment more of m.
LEMMA IngestView ==
    ASSUME FitsDatagram,
           NEW msg \in Messages, NEW m \in Nat \ {0}, NEW i \in Nat,
           i < FragmentCount(msg.length),
           NEW r \in ReceiverType, Counts(r), NEW d \in Datagram,
           d = Fragment(m - 1, m, msg, i),
           r.current_seq = None => ~ Abandoned(r),
           r.current_seq = m - 1 => View(r, msg)
    PROVE  LET q == Ingest(r, d)
               n == FragmentCount(msg.length)
           IN  /\ q.dropped_sequences =
                     r.dropped_sequences
                         + IF r.current_seq # m - 1 /\ Abandoned(r) THEN 1 ELSE 0
               /\ q.current_seq \in {None, m - 1}
               /\ q.current_seq = None =>
                     /\ Completes(r, d)
                     /\ ~ Abandoned(q)
                     /\ ~ Oversized(msg)
                     /\ 0 .. n - 1 \subseteq Held(r, m) \cup {i}
               /\ q.current_seq = m - 1 =>
                     /\ View(q, msg)
                     /\ q.total_frags > 0 => q.received \subseteq Held(r, m) \cup {i}
                     /\ ~ Oversized(msg) /\ (i = 0 \/ 0 \in Held(r, m)) =>
                            Held(r, m) \cup {i} \subseteq q.received
<1> DEFINE t == Tune(r, d)
           u == Detect(t, d)
           p == Place(u, d)
           q == Ingest(r, d)
           n == FragmentCount(msg.length)
           dropped == r.dropped_sequences
                          + IF r.current_seq # m - 1 /\ Abandoned(r) THEN 1 ELSE 0
<1>1. /\ d.fragments = n /\ d.fragment = i /\ d.size = FragmentSize(msg.length, i)
      /\ msg.length \in Nat /\ n \in Nat /\ d.fragments # 0 /\ d.sequence = m - 1
    BY MessagesAssumption, FragmentCountLemma DEF Fragment
<1>1a. m - 1 # None
    BY DEF None
<1>2. /\ t \in ReceiverType /\ Counts(t) /\ t.current_seq = m - 1
      /\ View(t, msg)
      /\ t.received = Held(r, m) \/ t.total_frags = 0
      /\ t.dropped_sequences = dropped
    BY TuneView
<1> HIDE DEF t, dropped, n
<1>3. CASE Ignored(t, d)
    <2>1. q = t
        BY <1>1, <1>3 DEF Ingest, t
    <2> HIDE DEF q
    <2>2. ~ Oversized(msg) => i \in t.received /\ t.received = Held(r, m)
        <3> SUFFICES ASSUME ~ Oversized(msg) PROVE i \in t.received /\ t.received = Held(r, m)
            OBVIOUS
        <3>1. t.total_frags = n /\ n > 0
            BY <1>1, <1>2 DEF View, n
        <3>2. d.size <= PayloadPerDatagram /\ d.size \in Nat
            BY <1>1, FragmentSizeLemma
        <3>3. ~ (d.size > MAX_PAYLOAD_PER_DATAGRAM)
            BY <3>2, SizesAssumption DEF FitsDatagram
        <3>4. ~ (d.fragment >= t.total_frags)
            BY <1>1, <3>1 DEF n
        <3>5. i \in t.received
            BY <1>1, <1>3, <3>3, <3>4 DEF Ignored
        <3> QED BY <1>2, <3>1, <3>5
    <2>3. q.total_frags > 0 => q.received \subseteq Held(r, m) \cup {i}
        <3>1. q.total_frags = 0 => ~ (q.total_frags > 0)
            OBVIOUS
        <3> QED BY <1>2, <2>1, <3>1
    <2>4. q.current_seq = m - 1 /\ View(q, msg) /\ q.dropped_sequences = dropped
        BY <1>2, <2>1
    <2>5. ~ Oversized(msg) => Held(r, m) \cup {i} \subseteq q.received
        BY <2>1, <2>2
    <2> QED BY <1>1a, <2>3, <2>4, <2>5 DEF q, dropped
<1>4. CASE ~ Ignored(t, d)
    <2>1. /\ p \in ReceiverType
          /\ p.current_seq = t.current_seq
          /\ \/ Counts(p) /\ ~ (d.fragment \in p.received)
             \/ /\ d.fragment \in p.received
                /\ p.got_frags = Cardinality(p.received)
                /\ p.received \subseteq 0 .. p.total_frags - 1
                /\ p.got_frags <= p.total_frags
        BY <1>1, <1>2, <1>4, PlaceType
    <2>2. /\ View(p, msg)
          /\ p.total_frags = t.total_frags
          /\ p.dropped_sequences = t.dropped_sequences
          /\ p.received \subseteq t.received \cup {i}
          /\ i = 0 \/ 0 \in t.received => p.received = t.received \cup {i}
        BY <1>2, <1>4, PlaceView
    <2> HIDE DEF u
    <2>3. Completes(r, d) <=> d.fragment \in p.received /\ p.got_frags = p.total_frags
        BY <1>1, <1>4 DEF Completes, t, u, p
    <2>4. q = IF Completes(r, d) THEN [p EXCEPT !.current_seq = None] ELSE p
        BY <1>1, <1>4 DEF Ingest, t, u, p
    <2> HIDE DEF p, q
    <2>5. /\ t.total_frags \in Nat /\ t.total_frags > 0 /\ t.total_frags = n
          /\ t.received = Held(r, m) /\ ~ Oversized(msg)
        <3>1. t.total_frags \in Nat /\ t.total_frags > 0
            <4>1. t.total_frags \in Nat
                BY <1>2, SizesAssumption DEF ReceiverType
            <4>2. ~ (d.fragment >= t.total_frags)
                BY <1>4 DEF Ignored
            <4> QED BY <1>1, <4>1, <4>2
        <3> QED BY <1>2, <3>1 DEF View, n
    <2>6. CASE Completes(r, d)
        <3>1. /\ q.current_seq = None /\ q.got_frags = p.got_frags /\ q.total_frags = p.total_frags
              /\ q.dropped_sequences = p.dropped_sequences
            BY <2>1, <2>4, <2>6 DEF ReceiverType
        <3>2. ~ Abandoned(q)
            BY <2>2, <2>3, <2>5, <2>6, <3>1 DEF Abandoned
        <3>3. /\ Cardinality(p.received) = p.total_frags
              /\ p.received \subseteq 0 .. p.total_frags - 1
            BY <1>1, <1>1a, <1>2, <2>1, <2>2, <2>3, <2>5, <2>6 DEF Counts
        <3>4. p.received = 0 .. n - 1
            BY <2>2, <2>5, <3>3, AllFragments
        <3> QED BY <1>1a, <1>2, <2>2, <2>5, <2>6, <3>1, <3>2, <3>4 DEF q, dropped, n
    <2>7. CASE ~ Completes(r, d)
        <3>1. q = p
            BY <2>4, <2>7
        <3> QED BY <1>1a, <1>2, <2>1, <2>2, <2>5, <3>1 DEF q, dropped, n
    <2> QED BY <2>6, <2>7
<1> QED BY <1>3, <1>4

LEMMA OnNetWithout ==
    ASSUME NEW p \in Seq(Datagram), NEW i \in DOMAIN p, NEW q, q = Without(p, i),
           NEW m, NEW f
    PROVE  /\ OnNet(q, m, f) => OnNet(p, m, f)
           /\ OnNet(p, m, f) /\ ~ IsPiece(p[i], m, f) => OnNet(q, m, f)
<1>1. /\ q \in Seq(Datagram) /\ Len(q) = Len(p) - 1
      /\ \A j \in DOMAIN q : q[j] = p[IF j < i THEN j ELSE j + 1]
    BY Removed
<1>2. /\ i \in 1 .. Len(p) /\ Len(p) \in Nat /\ DOMAIN p = 1 .. Len(p)
    OBVIOUS
<1>3. DOMAIN q = 1 .. Len(p) - 1
    BY <1>1
<1>4. ASSUME NEW j \in DOMAIN q
      PROVE  \E k \in DOMAIN p : q[j] = p[k]
    <2>1. (IF j < i THEN j ELSE j + 1) \in DOMAIN p
        BY <1>2, <1>3
    <2> QED BY <1>1, <2>1
<1>5. ASSUME NEW k \in DOMAIN p, k # i
      PROVE  \E j \in DOMAIN q : q[j] = p[k]
    <2>1. CASE k < i
        <3>1. k \in DOMAIN q
            BY <1>2, <1>3, <2>1
        <3> QED BY <1>1, <2>1, <3>1
    <2>2. CASE ~ (k < i)
        <3>1. k - 1 \in DOMAIN q /\ ~ (k - 1 < i) /\ (k - 1) + 1 = k
            BY <1>2, <1>3, <1>5, <2>2
        <3>2. q[k - 1] = p[k]
            BY <1>1, <3>1
        <3> QED BY <3>1, <3>2
    <2> QED BY <2>1, <2>2
<1> QED BY <1>4, <1>5 DEF OnNet

\* What a datagram on the path is.
LEMMA PieceLemma ==
    ASSUME sent \in Seq(Messages), net \in Seq(OnPath(sent)),
           NEW k \in DOMAIN net, net[k].fragments # 0
    PROVE  /\ net[k] \in Datagram
           /\ net[k].source_us \in DOMAIN sent
           /\ net[k].fragment \in Nat
           /\ net[k].fragment < FragmentCount(sent[net[k].source_us].length)
           /\ net[k] = Fragment(net[k].source_us - 1, net[k].source_us,
                                sent[net[k].source_us], net[k].fragment)
<1>1. net[k] \in OnPath(sent)
    OBVIOUS
<1>2. Heartbeat.fragments = 0
    BY DEF Heartbeat
<1>3. PICK m \in DOMAIN sent, i \in Nat :
          i < FragmentCount(sent[m].length) /\ net[k] = Fragment(m - 1, m, sent[m], i)
    BY <1>1, <1>2 DEF OnPath, IsFragment
<1>4. net[k].source_us = m /\ net[k].fragment = i
    BY <1>3 DEF Fragment
<1> QED BY <1>1, <1>3, <1>4 DEF OnPath

\* What LossInv says of the variables, in the form the steps use.
LEMMA LossFacts ==
    ASSUME LossInv
    PROVE  /\ net \in Seq(Datagram) /\ net \in Seq(OnPath(sent))
           /\ sent \in Seq(Messages) /\ Len(sent) \in Nat /\ DOMAIN sent = 1 .. Len(sent)
           /\ rx \in ReceiverType /\ Counts(rx) /\ lost \in Nat
           /\ PathOrder(net) /\ Follows(rx, sent) /\ Ahead(rx, net) /\ Stamped(rx)
           /\ \A m \in DOMAIN sent : sent[m] \in Messages
<1>1. TypeOK /\ net \in Seq(OnPath(sent)) /\ Counts(rx)
    BY DEF LossInv, PathInv, CountInv, Counts, CountsFragments
<1> QED BY <1>1 DEF LossInv, TypeOK

\* When the first datagram on the path is of another message than the open
\* sequence, a fragment of the sequence given up was lost.
LEMMA GivenUpWasHit ==
    ASSUME LossInv, 1 \in DOMAIN net, net[1].fragments # 0,
           NEW hit \in SUBSET (1 .. Len(sent)), NEW gone \in SUBSET hit, Explains(hit, gone),
           Abandoned(rx), rx.current_seq # net[1].source_us - 1
    PROVE  /\ rx.current_seq # None
           /\ rx.current_seq + 1 \in hit
           /\ rx.current_seq + 1 < net[1].source_us
           /\ rx.current_seq + 1 \notin gone
<1> DEFINE m == rx.current_seq + 1
           d == net[1]
<1>1. /\ net \in Seq(Datagram) /\ net \in Seq(OnPath(sent)) /\ sent \in Seq(Messages)
      /\ DOMAIN sent = 1 .. Len(sent) /\ Len(sent) \in Nat
      /\ rx \in ReceiverType /\ Counts(rx)
      /\ PathOrder(net) /\ Follows(rx, sent) /\ Ahead(rx, net)
    BY LossFacts
<1>2. rx.current_seq # None /\ rx.current_seq \in Nat
    BY <1>1, SizesAssumption DEF Follows, ReceiverType
<1>3. m \in DOMAIN sent /\ View(rx, sent[m])
    BY <1>1, <1>2 DEF Follows
<1>4. /\ rx.got_frags < rx.total_frags /\ rx.total_frags \in Nat /\ rx.total_frags > 0
      /\ rx.got_frags \in Nat
    BY <1>1, SizesAssumption, SMTT(30) DEF Abandoned, ReceiverType
<1>5. ~ Oversized(sent[m]) /\ rx.total_frags = FragmentCount(sent[m].length)
    BY <1>3, <1>4 DEF View
<1>6. d.source_us \in DOMAIN sent /\ d.source_us >= m /\ d.source_us \in Nat
    BY <1>1, <1>2, PieceLemma DEF Ahead
<1>7. m < d.source_us
    BY <1>2, <1>6
<1>8. PICK f \in 0 .. rx.total_frags - 1 : f \notin rx.received
    <2>1. rx.received \subseteq 0 .. rx.total_frags - 1 /\ rx.got_frags = Cardinality(rx.received)
        BY <1>1, <1>2, <1>4 DEF Counts
    <2> SUFFICES ASSUME rx.received = 0 .. rx.total_frags - 1 PROVE FALSE
        BY <2>1
    <2> DEFINE hi == rx.total_frags - 1
    <2>2. hi \in Int /\ 0 <= hi /\ hi - 0 + 1 = rx.total_frags
        BY <1>4
    <2> HIDE DEF hi
    <2>3. Cardinality(0 .. hi) = hi - 0 + 1
        BY <2>2, FS_Interval
    <2> QED BY <1>4, <2>1, <2>2, <2>3 DEF hi
<1>9. ~ OnNet(net, m, f)
    <2> SUFFICES ASSUME NEW k \in DOMAIN net, IsPiece(net[k], m, f) PROVE FALSE
        BY DEF OnNet
    <2>1. k # 1
        BY <1>6, <1>7, <1>2 DEF IsPiece
    <2>2. 1 < k
        BY <1>1, <2>1
    <2>3. Before(d, net[k])
        BY <1>1, <2>2 DEF PathOrder, IsPiece
    <2> QED BY <1>2, <1>6, <1>7, <2>3 DEF Before, IsPiece
<1>10. m \in hit
    <2> SUFFICES ASSUME m \notin hit PROVE FALSE
        OBVIOUS
    <2>1. Intact(rx, net, m, sent[m])
        BY <1>3, <1>5 DEF Explains
    <2>2. rx.current_seq = m - 1 /\ Held(rx, m) = rx.received
        BY <1>2 DEF Held
    <2> QED BY <1>5, <1>8, <1>9, <2>1, <2>2 DEF Intact
<1>11. m \notin gone
    BY <1>2 DEF Explains
<1> QED BY <1>2, <1>7, <1>10, <1>11

\* The same of the datagram at the head of the path, which is fragment i of m.
LEMMA HeadView ==
    ASSUME FitsDatagram, LossInv, 1 \in DOMAIN net, net[1].fragments # 0,
           rx' = Ingest(rx, net[1]),
           NEW m, m = net[1].source_us, NEW i, i = net[1].fragment,
           NEW n, n = FragmentCount(sent[m].length)
    PROVE  /\ net[1] \in Datagram /\ net[1] = Fragment(m - 1, m, sent[m], i)
           /\ m \in DOMAIN sent /\ m \in Nat \ {0} /\ sent[m] \in Messages
           /\ i \in Nat /\ i < n /\ n \in Nat /\ n > 0
           /\ rx.current_seq = None => ~ Abandoned(rx)
           /\ rx.current_seq = m - 1 => View(rx, sent[m])
           /\ rx'.dropped_sequences =
                 rx.dropped_sequences
                     + IF rx.current_seq # m - 1 /\ Abandoned(rx) THEN 1 ELSE 0
           /\ rx'.current_seq \in {None, m - 1}
           /\ rx'.current_seq = None =>
                 /\ Completes(rx, net[1])
                 /\ ~ Abandoned(rx')
                 /\ ~ Oversized(sent[m])
                 /\ 0 .. n - 1 \subseteq Held(rx, m) \cup {i}
           /\ rx'.current_seq = m - 1 =>
                 /\ View(rx', sent[m])
                 /\ rx'.total_frags > 0 => rx'.received \subseteq Held(rx, m) \cup {i}
                 /\ ~ Oversized(sent[m]) /\ (i = 0 \/ 0 \in Held(rx, m)) =>
                        Held(rx, m) \cup {i} \subseteq rx'.received
<1> DEFINE d == net[1]
<1>1. /\ net \in Seq(Datagram) /\ net \in Seq(OnPath(sent)) /\ sent \in Seq(Messages)
      /\ DOMAIN sent = 1 .. Len(sent) /\ Len(sent) \in Nat
      /\ rx \in ReceiverType /\ Counts(rx) /\ Follows(rx, sent)
      /\ \A y \in DOMAIN sent : sent[y] \in Messages
    BY LossFacts
<1>2. /\ d \in Datagram /\ m \in DOMAIN sent /\ i \in Nat /\ i < FragmentCount(sent[m].length)
      /\ d = Fragment(m - 1, m, sent[m], i)
    BY <1>1, PieceLemma
<1>3. /\ m \in Nat \ {0} /\ sent[m] \in Messages /\ n \in Nat /\ n > 0
    <2>1. sent[m] \in Messages /\ m \in Nat \ {0}
        <3>1. m \in 1 .. Len(sent)
            BY <1>1, <1>2
        <3>2. m \in Nat \ {0}
            BY ONLY <1>1, <3>1
        <3> QED BY <1>1, <1>2, <3>2, SMTT(30)
    <2>2. sent[m].length \in Nat
        BY <2>1, MessagesAssumption
    <2>3. n \in Nat
        BY <2>2, FragmentCountLemma, SMTT(30)
    <2> QED BY <1>2, <2>1, <2>3
<1>4. /\ rx.current_seq = None => ~ Abandoned(rx)
      /\ rx.current_seq = m - 1 => View(rx, sent[m])
    <2>1. m - 1 # None /\ (m - 1) + 1 = m
        BY <1>3 DEF None
    <2> QED BY <1>1, <1>2, <2>1 DEF Follows
<1>5. /\ rx' = Ingest(rx, d)
      /\ rx \in ReceiverType /\ Counts(rx)
      /\ n = FragmentCount(sent[m].length)
    BY <1>1
<1> HIDE DEF d
<1> QED BY ONLY <1>2, <1>3, <1>4, <1>5, FitsDatagram, IngestView, SMTT(30) DEF d

\* The datagrams of m are its fragments.
LEMMA PiecesOnNet ==
    ASSUME NEW p \in Seq(Datagram), NEW m
    PROVE  (\E k \in DOMAIN p : p[k].fragments # 0 /\ p[k].source_us = m)
               <=> \E f \in Nat : OnNet(p, m, f)
<1>1. ASSUME NEW k \in DOMAIN p, p[k].fragments # 0, p[k].source_us = m
      PROVE  \E f \in Nat : OnNet(p, m, f)
    <2>1. p[k] \in Datagram
        OBVIOUS
    <2>2. p[k].fragment \in Nat /\ IsPiece(p[k], m, p[k].fragment)
        BY <1>1, <2>1 DEF IsPiece, Datagram
    <2> QED BY <2>2 DEF OnNet
<1>2. ASSUME NEW f \in Nat, OnNet(p, m, f)
      PROVE  \E k \in DOMAIN p : p[k].fragments # 0 /\ p[k].source_us = m
    BY <1>2 DEF OnNet, IsPiece
<1> QED BY <1>1, <1>2

\* What a datagram does to the stamp.
LEMMA IngestStamp ==
    ASSUME NEW r \in ReceiverType, Counts(r), NEW d \in Datagram, d.fragments # 0
    PROVE  Ingest(r, d).last_source_us =
               IF d.fragment = 0 THEN d.source_us ELSE r.last_source_us
<1> DEFINE st == Stamp(r, d)
           t == Tune(r, d)
           u == Detect(t, d)
           p == Place(u, d)
           q == Ingest(r, d)
           stamp == IF d.fragment = 0 THEN d.source_us ELSE r.last_source_us
<1>1. st \in ReceiverType /\ st.last_source_us = stamp
    BY DEF Stamp, ReceiverType, Datagram
<1> HIDE DEF st, stamp
<1>2. t \in ReceiverType
    BY TuneType
<1>3. t.last_source_us = stamp
    <2>1. CASE st.current_seq = d.sequence
        BY <1>1, <2>1 DEF Tune, st
    <2>2. CASE st.current_seq # d.sequence
        <3>1. t = Reset(st, d)
            BY <2>2 DEF Tune, st
        <3> HIDE DEF t
        <3>2. CASE Malformed(d)
            BY <1>1, <3>1, <3>2 DEF Reset, ReceiverType
        <3>3. CASE ~ Malformed(d)
            BY <1>1, <3>1, <3>3 DEF Reset, ReceiverType
        <3> QED BY <3>2, <3>3
    <2> QED BY <2>1, <2>2
<1> HIDE DEF t
<1>4. CASE Ignored(t, d)
    <2>1. q = t
        BY <1>4 DEF Ingest, t
    <2> HIDE DEF q
    <2> QED BY <1>3, <2>1 DEF q, stamp
<1>5. CASE ~ Ignored(t, d)
    <2>1. u.last_source_us = t.last_source_us /\ DOMAIN u = DOMAIN t
        BY <1>2 DEF Detect, ReceiverType
    <2> HIDE DEF u
    <2>2. p.last_source_us = u.last_source_us /\ DOMAIN p = DOMAIN u
        <3>1. CASE d.fragment * Stride(u) + d.size > MaxPayload
            BY <3>1 DEF Place
        <3>2. CASE ~ (d.fragment * Stride(u) + d.size > MaxPayload)
            BY <1>2, <2>1, <3>2 DEF Place, ReceiverType
        <3> QED BY <3>1, <3>2
    <2>3. q = IF Completes(r, d) THEN [p EXCEPT !.current_seq = None] ELSE p
        BY <1>5 DEF Ingest, t, u, p
    <2> HIDE DEF p, q
    <2>4. q.last_source_us = p.last_source_us
        BY <1>2, <2>1, <2>2, <2>3 DEF ReceiverType
    <2> QED BY <1>3, <2>1, <2>2, <2>4 DEF q, stamp
<1> QED BY <1>4, <1>5

\* The receiver takes the last fragment of a message that lost none: the message
\* is complete, and ingest() reports it under its own stamp.
LEMMA ReceiveAccounts ==
    ASSUME FitsDatagram, LossInv, PathInv', 1 \in DOMAIN net, net[1].fragments # 0,
           rx' = Ingest(rx, net[1]), net' = Without(net, 1), sent' = sent,
           delivered' = IF Completes(rx, net[1]) THEN Append(delivered, Assembled(rx'))
                                                 ELSE delivered
    PROVE  /\ Stamped(rx')
           /\ \A y \in DOMAIN sent :
                 /\ ~ Oversized(sent[y]) /\ Intact(rx, net, y, sent[y])
                 /\ Arrived(y) \/ OnTheWay(y)
                 => (Arrived(y) \/ OnTheWay(y))'
<1> DEFINE d == net[1]
           m == d.source_us
           i == d.fragment
           n == FragmentCount(sent[m].length)
<1>1. /\ net \in Seq(Datagram) /\ rx \in ReceiverType /\ Counts(rx) /\ Stamped(rx)
      /\ delivered \in Seq([bytes : Seq(Byte), buf_offset : 0 .. U32_MAX, source_us : Nat])
    BY LossFacts DEF LossInv, PathInv, CountInv, TypeOK
<1>2. net' \in Seq(Datagram) /\ rx' \in ReceiverType /\ Counts(rx')
    BY DEF PathInv, CountInv, TypeOK, Counts, CountsFragments
<1>3. /\ d \in Datagram /\ m \in DOMAIN sent /\ m \in Nat \ {0}
      /\ i \in Nat /\ i < n /\ n \in Nat /\ n > 0
      /\ rx.current_seq = m - 1 => View(rx, sent[m])
    BY HeadView
<1>4. /\ rx'.current_seq \in {None, m - 1}
      /\ rx'.current_seq = None => Completes(rx, d)
      /\ rx'.current_seq = m - 1 =>
            /\ View(rx', sent[m])
            /\ rx'.total_frags > 0 => rx'.received \subseteq Held(rx, m) \cup {i}
            /\ ~ Oversized(sent[m]) /\ (i = 0 \/ 0 \in Held(rx, m)) =>
                   Held(rx, m) \cup {i} \subseteq rx'.received
    BY HeadView
<1>5. rx'.last_source_us = IF i = 0 THEN m ELSE rx.last_source_us
    BY <1>1, <1>3, IngestStamp
<1>6. \A y, f : /\ OnNet(net', y, f) => OnNet(net, y, f)
                /\ OnNet(net, y, f) /\ ~ IsPiece(d, y, f) => OnNet(net', y, f)
    BY <1>1, OnNetWithout
<1>7. \A y : /\ OnTheWay(y) <=> \E f \in Nat : OnNet(net, y, f)
             /\ OnTheWay(y)' <=> \E f \in Nat : OnNet(net', y, f)
    BY <1>1, <1>2, PiecesOnNet DEF OnTheWay
<1>8. \A y : Arrived(y) => Arrived(y)'
    <2>1. \A k \in DOMAIN delivered : k \in DOMAIN delivered' /\ delivered'[k] = delivered[k]
        BY <1>1, SMTT(30)
    <2> QED BY <2>1 DEF Arrived
<1> HIDE DEF n, d
<1>9. m - 1 # None /\ (m - 1) + 1 = m /\ None # m - 1
    BY <1>3 DEF None
\* The stamp of fragment 0, when it is there.
<1>10. ASSUME 0 \in Held(rx, m) \cup {i}, ~ Oversized(sent[m])
       PROVE  rx'.last_source_us = m
    <2>1. CASE i = 0
        BY <1>5, <2>1
    <2>2. CASE i # 0
        <3>1. rx.current_seq = m - 1 /\ 0 \in rx.received
            BY <1>10, <2>2 DEF Held
        <3>2. rx.total_frags > 0
            BY <1>3, <1>10, <3>1 DEF View, n
        <3> QED BY <1>1, <1>5, <1>9, <2>2, <3>1, <3>2 DEF Stamped
    <2> QED BY <2>1, <2>2
<1>11. Stamped(rx')
    <2> SUFFICES ASSUME rx'.current_seq # None, rx'.total_frags > 0, 0 \in rx'.received
                 PROVE  rx'.last_source_us = rx'.current_seq + 1
        BY DEF Stamped
    <2>1. rx'.current_seq = m - 1
        BY <1>4
    <2>2. ~ Oversized(sent[m]) /\ 0 \in Held(rx, m) \cup {i}
        BY <1>4, <2>1 DEF View
    <2> QED BY <1>9, <1>10, <2>1, <2>2
<1>12. ASSUME NEW y \in DOMAIN sent, ~ Oversized(sent[y]), Intact(rx, net, y, sent[y]),
              Arrived(y) \/ OnTheWay(y)
       PROVE  (Arrived(y) \/ OnTheWay(y))'
    <2>1. CASE Arrived(y)
        BY <1>8, <2>1
    <2>2. CASE OnTheWay(y) /\ y # m
        <3>1. PICK f \in Nat : OnNet(net, y, f)
            BY <1>7, <2>2
        <3>2. OnNet(net', y, f)
            BY <1>6, <2>2, <3>1 DEF IsPiece
        <3> QED BY <1>7, <3>2
    <2>3. CASE OnTheWay(y) /\ y = m
        <3> SUFFICES ASSUME ~ OnTheWay(y)' PROVE Arrived(y)'
            OBVIOUS
        <3>1. 0 .. n - 1 \subseteq Held(rx, m) \cup {i}
            <4> SUFFICES ASSUME NEW f \in 0 .. n - 1 PROVE f \in Held(rx, m) \cup {i}
                OBVIOUS
            <4>1. f \in Held(rx, m) \/ OnNet(net, m, f)
                BY <1>7, <1>12, <2>3 DEF Intact, n
            <4>2. ~ OnNet(net', m, f)
                BY <1>7, <2>3
            <4> QED BY <1>6, <4>1, <4>2 DEF IsPiece
        <3>2. 0 \in 0 .. n - 1
            BY <1>3
        <3>3. Completes(rx, d)
            <4> SUFFICES ASSUME rx'.current_seq = m - 1 PROVE FALSE
                BY <1>4
            <4>1. /\ Held(rx, m) \cup {i} \subseteq rx'.received
                  /\ rx'.total_frags = n
                BY <1>4, <1>12, <2>3, <3>1, <3>2 DEF View, n
            <4>2. /\ rx'.got_frags = Cardinality(rx'.received)
                  /\ rx'.received \subseteq 0 .. n - 1
                  /\ rx'.got_frags < n
                BY <1>2, <1>3, <1>9, <4>1 DEF Counts
            <4>3. rx'.received = 0 .. n - 1
                BY <3>1, <4>1, <4>2
            <4> DEFINE hi == n - 1
            <4>4. hi \in Int /\ 0 <= hi /\ hi - 0 + 1 = n
                BY <1>3
            <4> HIDE DEF hi
            <4>5. Cardinality(0 .. hi) = hi - 0 + 1
                BY ONLY <4>4, FS_Interval
            <4> QED BY <1>3, <4>2, <4>3, <4>4, <4>5 DEF hi
        <3>4. Assembled(rx').source_us = y
            BY <1>10, <1>12, <2>3, <3>1, <3>2 DEF Assembled
        <3>5. delivered' = Append(delivered, Assembled(rx'))
            BY <3>3 DEF d
        <3>6. /\ Len(delivered) + 1 \in DOMAIN delivered'
              /\ delivered'[Len(delivered) + 1] = Assembled(rx')
            BY <1>1, <3>5
        <3> QED BY <3>4, <3>6 DEF Arrived
    <2> QED BY <1>12, <2>1, <2>2, <2>3
<1> QED BY <1>11, <1>12

\* The receiver takes a fragment of message m from the path.  What it can still
\* complete stays complete, and what it gives up had lost a fragment.
LEMMA ReceiveLoss ==
    ASSUME FitsDatagram, LossInv, 1 \in DOMAIN net, net[1].fragments # 0,
           rx' = Ingest(rx, net[1]), net' = Without(net, 1), PathInv',
           delivered' = IF Completes(rx, net[1]) THEN Append(delivered, Assembled(rx'))
                                                 ELSE delivered,
           UNCHANGED <<sent, lost>>
    PROVE  /\ Follows(rx', sent)
           /\ Ahead(rx', net')
           /\ Stamped(rx')
           /\ \E hit \in SUBSET (1 .. Len(sent)) : \E gone \in SUBSET hit : Explains(hit, gone)'
<1> DEFINE d == net[1]
           m == d.source_us
           i == d.fragment
           n == FragmentCount(sent[m].length)
<1>1. /\ net \in Seq(Datagram) /\ net \in Seq(OnPath(sent)) /\ sent \in Seq(Messages)
      /\ DOMAIN sent = 1 .. Len(sent) /\ Len(sent) \in Nat
      /\ rx \in ReceiverType /\ Counts(rx)
      /\ PathOrder(net) /\ Follows(rx, sent) /\ Ahead(rx, net)
      /\ \A y \in DOMAIN sent : sent[y] \in Messages
    BY LossFacts
<1>2. /\ d \in Datagram /\ m \in DOMAIN sent /\ i \in Nat /\ i < n
      /\ d = Fragment(m - 1, m, sent[m], i)
    BY HeadView
<1>3. /\ m \in Nat \ {0} /\ sent[m] \in Messages /\ n \in Nat /\ n > 0
    BY HeadView
<1>4. /\ rx.current_seq = None => ~ Abandoned(rx)
      /\ rx.current_seq = m - 1 => View(rx, sent[m])
    BY HeadView
<1>5. /\ rx'.dropped_sequences =
            rx.dropped_sequences
                + IF rx.current_seq # m - 1 /\ Abandoned(rx) THEN 1 ELSE 0
      /\ rx'.current_seq \in {None, m - 1}
      /\ rx'.current_seq = None =>
            /\ ~ Abandoned(rx')
            /\ ~ Oversized(sent[m])
            /\ 0 .. n - 1 \subseteq Held(rx, m) \cup {i}
      /\ rx'.current_seq = m - 1 =>
            /\ View(rx', sent[m])
            /\ rx'.total_frags > 0 => rx'.received \subseteq Held(rx, m) \cup {i}
            /\ ~ Oversized(sent[m]) /\ (i = 0 \/ 0 \in Held(rx, m)) =>
                   Held(rx, m) \cup {i} \subseteq rx'.received
    BY HeadView
<1>6. /\ PathOrder(net') /\ net' \in Seq(Datagram)
      /\ \A j \in DOMAIN net' : \E k \in DOMAIN net : net'[j] = net[k]
      /\ \A j \in DOMAIN net' : net'[j].fragments # 0 => Before(d, net'[j])
    BY <1>1, OrderKept
<1>7. \A y, f : /\ OnNet(net', y, f) => OnNet(net, y, f)
                /\ OnNet(net, y, f) /\ ~ IsPiece(d, y, f) => OnNet(net', y, f)
    BY <1>1, OnNetWithout
<1> HIDE DEF n
<1> HIDE DEF d
<1>8. m - 1 # None /\ (m - 1) + 1 = m /\ None # m - 1
    BY <1>3 DEF None
\* Fragments of m that are still on the path come after those that rx has.
<1>9. ASSUME NEW j \in DOMAIN net', net'[j].fragments # 0
      PROVE  /\ net'[j].source_us >= m
             /\ net'[j].source_us = m => i < net'[j].fragment
             /\ net'[j].source_us = m /\ ~ Oversized(sent[m]) =>
                   \A f \in Held(rx, m) : f < net'[j].fragment
    <2>1. Before(d, net'[j])
        BY <1>6, <1>9
    <2>2. PICK k \in DOMAIN net : net'[j] = net[k]
        BY <1>6
    <2>3. net'[j].source_us \in Nat /\ net'[j].fragment \in Nat
        <3>1. net'[j] \in Datagram
            BY <1>6
        <3> QED BY <3>1 DEF Datagram
    <2>4. net'[j].source_us >= m /\ (net'[j].source_us = m => i < net'[j].fragment)
        BY <1>3, <2>1, <2>3 DEF Before
    <2>5. ASSUME net'[j].source_us = m, ~ Oversized(sent[m]), NEW f \in Held(rx, m)
          PROVE  f < net'[j].fragment
        <3>1. rx.current_seq = m - 1 /\ f \in rx.received
            BY <2>5 DEF Held
        <3>2. rx.total_frags > 0 /\ rx.current_seq # None /\ rx.current_seq + 1 = m
            BY <1>3, <1>4, <1>8, <2>5, <3>1 DEF View, n
        <3> QED BY <1>1, <1>9, <2>2, <2>5, <3>1, <3>2 DEF Ahead
    <2> QED BY <2>4, <2>5
<1>10. Follows(rx', sent)
    BY <1>2, <1>5, <1>8 DEF Follows
<1>11. Ahead(rx', net')
    <2> SUFFICES ASSUME rx'.current_seq # None, NEW j \in DOMAIN net', net'[j].fragments # 0
                 PROVE  /\ net'[j].source_us >= rx'.current_seq + 1
                        /\ net'[j].source_us = rx'.current_seq + 1 /\ rx'.total_frags > 0 =>
                              \A f \in rx'.received : f < net'[j].fragment
        BY DEF Ahead
    <2>1. rx'.current_seq = m - 1 /\ rx'.current_seq + 1 = m
        BY <1>5, <1>8
    <2>2. ASSUME net'[j].source_us = m, rx'.total_frags > 0, NEW f \in rx'.received
          PROVE  f < net'[j].fragment
        <3>1. ~ Oversized(sent[m])
            BY <1>5, <2>1, <2>2 DEF View
        <3>2. f \in Held(rx, m) \cup {i}
            BY <1>5, <2>1, <2>2
        <3> QED BY <1>9, <2>2, <3>1, <3>2
    <2> QED BY <1>9, <2>1, <2>2
<1>12. ASSUME NEW y \in DOMAIN sent, ~ Oversized(sent[y]), Intact(rx, net, y, sent[y])
       PROVE  Intact(rx', net', y, sent[y])
    <2>1. y \in Nat \ {0} /\ y - 1 # None /\ (y - 1) + 1 = y
        BY <1>1 DEF None
    <2>2. CASE y = m
        <3> SUFFICES ASSUME rx'.current_seq = m - 1 \/ (\E f \in Nat : OnNet(net', m, f)),
                            NEW f \in 0 .. n - 1
                     PROVE  f \in Held(rx', m) \/ OnNet(net', m, f)
            BY <2>2 DEF Intact, n
        <3>1. IsPiece(d, m, i)
            BY DEF IsPiece, d
        <3>2. OnNet(net, m, i)
            BY <3>1 DEF OnNet, d
        <3>3. \A g \in 0 .. n - 1 : g \in Held(rx, m) \/ OnNet(net, m, g)
            BY <1>2, <1>12, <2>2, <3>2 DEF Intact, n
        <3>4. ASSUME NEW g, OnNet(net, m, g), g # i
              PROVE  OnNet(net', m, g)
            BY <1>7, <3>4 DEF IsPiece
        <3>5. ASSUME NEW g, OnNet(net', m, g)
              PROVE  /\ i < g
                     /\ \A h \in Held(rx, m) : h < g
                     /\ g \in 0 .. n - 1
            <4>1. PICK j \in DOMAIN net' : IsPiece(net'[j], m, g)
                BY <3>5 DEF OnNet
            <4>2. PICK k \in DOMAIN net : net'[j] = net[k]
                BY <1>6
            <4>3. g \in Nat /\ g < n
                BY <1>1, <4>1, <4>2, PieceLemma DEF IsPiece, n
            <4> QED BY <1>3, <1>9, <1>12, <2>2, <4>1, <4>3 DEF IsPiece
        <3>6. i = 0 \/ 0 \in Held(rx, m)
            <4>1. 0 \in 0 .. n - 1
                BY <1>3
            <4>2. CASE OnNet(net, m, 0) /\ i # 0
                <5>1. OnNet(net', m, 0)
                    BY <3>4, <4>2
                <5> QED BY <1>2, <3>5, <5>1
            <4> QED BY <3>3, <4>1, <4>2
        <3>7. CASE rx'.current_seq = m - 1
            <4>1. Held(rx, m) \cup {i} \subseteq rx'.received
                BY <1>5, <1>12, <2>2, <3>6, <3>7
            <4>2. Held(rx', m) = rx'.received
                BY <3>7 DEF Held
            <4> QED BY <3>3, <3>4, <4>1, <4>2
        <3>8. CASE rx'.current_seq # m - 1
            <4>1. 0 .. n - 1 \subseteq Held(rx, m) \cup {i}
                BY <1>5, <3>8
            <4>2. PICK g \in Nat : OnNet(net', m, g)
                BY <3>8
            <4>3. g \in Held(rx, m) \cup {i}
                BY <3>5, <4>1, <4>2
            <4>4. g < g
                BY <3>5, <4>2, <4>3
            <4> QED BY <4>2, <4>4
        <3> QED BY <3>7, <3>8
    <2>3. CASE y # m
        <3>1. rx'.current_seq # y - 1
            BY <1>3, <1>5, <2>1, <2>3
        <3> SUFFICES ASSUME NEW g \in Nat, OnNet(net', y, g),
                            NEW f \in 0 .. FragmentCount(sent[y].length) - 1
                     PROVE  OnNet(net', y, f)
            BY <3>1 DEF Intact
        <3>2. f \in Held(rx, y) \/ OnNet(net, y, f)
            BY <1>7, <1>12 DEF Intact
        <3>3. CASE f \in Held(rx, y)
            <4>1. rx.current_seq = y - 1
                BY <3>3 DEF Held
            <4>2. m >= y
                BY <1>1, <2>1, <4>1 DEF Ahead, d
            <4>3. PICK j \in DOMAIN net' : IsPiece(net'[j], y, g)
                BY DEF OnNet
            <4>4. y >= m
                BY <1>9, <4>3 DEF IsPiece
            <4> QED BY <1>3, <2>1, <2>3, <4>2, <4>4
        <3>4. CASE OnNet(net, y, f)
            BY <1>7, <2>3, <3>4 DEF IsPiece
        <3> QED BY <3>2, <3>3, <3>4
    <2> QED BY <2>2, <2>3
<1>12a. /\ Stamped(rx')
        /\ \A y \in DOMAIN sent :
              /\ ~ Oversized(sent[y]) /\ Intact(rx, net, y, sent[y])
              /\ Arrived(y) \/ OnTheWay(y)
              => (Arrived(y) \/ OnTheWay(y))'
    BY ReceiveAccounts DEF d
<1>13. \E hit \in SUBSET (1 .. Len(sent)) : \E gone \in SUBSET hit : Explains(hit, gone)'
    <2>0. PICK hit \in SUBSET (1 .. Len(sent)) : \E gone \in SUBSET hit : Explains(hit, gone)
        BY DEF LossInv
    <2>1. PICK gone \in SUBSET hit : Explains(hit, gone)
        BY <2>0
    <2>2. \A y \in DOMAIN sent' \ hit :
              ~ Oversized(sent'[y]) =>
                  Intact(rx', net', y, sent'[y]) /\ (Arrived(y) \/ OnTheWay(y))'
        BY <1>12, <1>12a, <2>1 DEF Explains
    <2>3. Cardinality(hit) <= lost'
        BY <2>1 DEF Explains
    <2>4. ASSUME NEW x \in gone
          PROVE  /\ rx'.current_seq # None => x < rx'.current_seq + 1
                 /\ \A j \in DOMAIN net' : net'[j].fragments # 0 => x < net'[j].source_us
        <3>1. x < m /\ x \in Nat
            BY <1>1, <2>1 DEF Explains, d
        <3>2. rx'.current_seq # None => x < rx'.current_seq + 1
            BY <1>5, <1>8, <3>1
        <3>3. ASSUME NEW j \in DOMAIN net', net'[j].fragments # 0
              PROVE  x < net'[j].source_us
            BY <1>6, <2>1, <3>3 DEF Explains
        <3> QED BY <3>2, <3>3
    <2>5. CASE ~ (rx.current_seq # m - 1 /\ Abandoned(rx))
        <3>1. rx'.dropped_sequences = rx.dropped_sequences
            BY <1>1, <1>5, <2>5 DEF ReceiverType
        <3>2. Explains(hit, gone)'
            BY <2>1, <2>2, <2>3, <2>4, <3>1 DEF Explains
        <3> QED BY <2>1, <3>2
    <2>6. CASE rx.current_seq # m - 1 /\ Abandoned(rx)
        <3> DEFINE z == rx.current_seq + 1
                   gone1 == gone \cup {z}
        <3>1. rx.current_seq # None /\ z \in hit /\ z < m /\ z \notin gone
            BY <2>1, <2>6, GivenUpWasHit DEF d
        <3>2. gone1 \in SUBSET hit
            BY <2>1, <3>1
        <3>3. Cardinality(gone1) = rx'.dropped_sequences
            <4> DEFINE len == Len(sent)
            <4>0. len \in Int
                BY <1>1
            <4> HIDE DEF len
            <4>1. IsFiniteSet(1 .. len)
                BY ONLY <4>0, FS_Interval
            <4>2. IsFiniteSet(gone)
                BY <2>1, <4>1, FS_Subset DEF len
            <4>3. Cardinality(gone1) = Cardinality(gone) + 1
                BY <3>1, <4>2, FS_AddElement
            <4> QED BY <1>5, <2>1, <2>6, <4>3 DEF Explains
        <3>4. ASSUME NEW x \in gone1
              PROVE  /\ rx'.current_seq # None => x < rx'.current_seq + 1
                     /\ \A j \in DOMAIN net' : net'[j].fragments # 0 => x < net'[j].source_us
            <4>1. CASE x \in gone
                BY <2>4, <4>1
            <4>2. CASE x = z
                <5>1. x < m /\ x \in Nat
                    BY <1>1, <3>1, <4>2
                <5>2. rx'.current_seq # None => x < rx'.current_seq + 1
                    BY <1>5, <1>8, <5>1
                <5>3. ASSUME NEW j \in DOMAIN net', net'[j].fragments # 0
                      PROVE  x < net'[j].source_us
                    <6>1. net'[j] \in Datagram
                        BY <1>6
                    <6>2. net'[j].source_us \in Nat
                        BY <6>1 DEF Datagram
                    <6> QED BY <1>3, <1>9, <5>1, <5>3, <6>2
                <5> QED BY <5>2, <5>3
            <4> QED BY <4>1, <4>2
        <3>5. PICK g \in SUBSET hit : g = gone1
            BY <3>2
        <3> HIDE DEF gone1
        <3>6. /\ Cardinality(g) = rx'.dropped_sequences
              /\ \A x \in g : /\ rx'.current_seq # None => x < rx'.current_seq + 1
                              /\ \A j \in DOMAIN net' : net'[j].fragments # 0 => x < net'[j].source_us
            BY <3>3, <3>4, <3>5
        <3>7. Explains(hit, g)'
            BY <2>2, <2>3, <3>6 DEF Explains
        <3> QED BY <2>1, <3>5, <3>7
    <2> QED BY <2>5, <2>6
<1> QED BY <1>10, <1>11, <1>12a, <1>13

LEMMA LossInit == Init => LossInv
<1> SUFFICES ASSUME Init PROVE LossInv
    OBVIOUS
<1>1. sent = <<>> /\ net = <<>> /\ lost = 0 /\ rx.current_seq = None /\ rx.dropped_sequences = 0
      /\ rx.got_frags = 0
    BY DEF Init, NewReceiver
<1>2. Cardinality({}) = 0
    BY FS_EmptySet
<1>3. DOMAIN sent = {} /\ DOMAIN net = {}
    BY <1>1
<1>4. Explains({}, {})
    BY <1>1, <1>2, <1>3 DEF Explains
<1>5. \E hit \in SUBSET (1 .. Len(sent)) : \E gone \in SUBSET hit : Explains(hit, gone)
    BY <1>4
<1>6. PathOrder(net) /\ Follows(rx, sent) /\ Ahead(rx, net) /\ Stamped(rx)
    BY <1>1, <1>3 DEF PathOrder, Follows, Ahead, Abandoned, Stamped
<1> QED BY <1>5, <1>6, PathInit DEF LossInv

\* send() puts every fragment of one more message on the path.
LEMMA SendLoss ==
    ASSUME FailPoints = {}, LossInv,
           NEW msg \in Messages, NEW k \in 1 .. FragmentCount(msg.length), Send(msg, k)
    PROVE  /\ PathOrder(net')
           /\ Follows(rx', sent')
           /\ Ahead(rx', net')
           /\ Stamped(rx')
           /\ \E hit \in SUBSET (1 .. Len(sent')) : \E gone \in SUBSET hit : Explains(hit, gone)'
<1> DEFINE n == Len(sent)
           c == FragmentCount(msg.length)
<1>1. /\ net \in Seq(Datagram) /\ net \in Seq(OnPath(sent)) /\ sent \in Seq(Messages)
      /\ DOMAIN sent = 1 .. n /\ n \in Nat
      /\ rx \in ReceiverType
      /\ PathOrder(net) /\ Follows(rx, sent) /\ Ahead(rx, net) /\ Stamped(rx)
    BY LossFacts
<1>2. /\ net' = Extended(net, sequence, n + 1, msg, k)
      /\ sent' = Append(sent, msg) /\ UNCHANGED <<rx, delivered, lost>>
      /\ k < c => k \in FailPoints
    BY DEF Send, Extended, Burst
<1>3. c \in Nat /\ k = c
    <2>1. msg.length \in Nat
        BY MessagesAssumption
    <2>2. c \in Nat
        BY <2>1, FragmentCountLemma
    <2> HIDE DEF c
    <2> QED BY <1>2, <2>2 DEF c
<1>4. sequence \in 0 .. SeqMod - 1 /\ PathSent(net, n)
    <2>1. sequence \in 0 .. SeqMod - 1
        BY DEF LossInv, PathInv, CountInv, TypeOK
    <2>2. ASSUME NEW j \in DOMAIN net, net[j].fragments # 0
          PROVE  net[j].source_us \in 1 .. n
        BY <1>1, <2>2, PieceLemma
    <2> QED BY <2>1, <2>2 DEF PathSent
<1>5. /\ Len(sent') = n + 1 /\ DOMAIN sent' = 1 .. n + 1
      /\ sent'[n + 1] = msg
      /\ \A y \in 1 .. n : sent'[y] = sent[y]
    BY <1>1, <1>2
<1> HIDE DEF n
<1>6. /\ PathOrder(net')
      /\ \A j \in DOMAIN net' : net'[j].fragments # 0 =>
            (\E i \in DOMAIN net : net'[j] = net[i]) \/ net'[j].source_us = n + 1
      /\ DOMAIN net' = 1 .. Len(net) + k
      /\ \A i \in DOMAIN net : net'[i] = net[i]
      /\ \A i \in 1 .. k : net'[Len(net) + i] = Fragment(sequence, n + 1, msg, i - 1)
    <2>1. /\ net \in Seq(Datagram) /\ n \in Nat /\ PathOrder(net) /\ PathSent(net, n)
          /\ msg \in Messages /\ k \in 1 .. FragmentCount(msg.length)
          /\ sequence \in 0 .. SeqMod - 1
        BY <1>1, <1>4
    <2> HIDE DEF c
    <2>2. net' = Extended(net, sequence, n + 1, msg, k)
        BY <1>2
    <2>3. Behind(Extended(net, sequence, n + 1, msg, k), net, sequence, n + 1, msg, k)
        BY <2>1, BurstOrder
    <2> QED BY <2>2, <2>3 DEF Behind
<1>6a. Len(net) \in Nat /\ DOMAIN net = 1 .. Len(net)
    BY <1>1
<1>7. Follows(rx', sent')
    <2>1. rx.current_seq # None => rx.current_seq + 1 \in 1 .. n
        BY <1>1 DEF Follows
    <2>2. rx.current_seq # None => /\ rx.current_seq + 1 \in DOMAIN sent'
                                   /\ sent'[rx.current_seq + 1] = sent[rx.current_seq + 1]
        BY <1>1, <1>5, <2>1
    <2> QED BY <1>1, <1>2, <2>2 DEF Follows
<1>8. Ahead(rx', net')
    <2> SUFFICES ASSUME rx.current_seq # None, NEW j \in DOMAIN net', net'[j].fragments # 0
                 PROVE  /\ net'[j].source_us >= rx.current_seq + 1
                        /\ net'[j].source_us = rx.current_seq + 1 /\ rx.total_frags > 0 =>
                              \A f \in rx.received : f < net'[j].fragment
        BY <1>2 DEF Ahead
    <2>1. CASE \E i \in DOMAIN net : net'[j] = net[i]
        BY <1>1, <2>1 DEF Ahead
    <2>2. CASE net'[j].source_us = n + 1
        <3>1. rx.current_seq + 1 \in 1 .. n
            BY <1>1 DEF Follows
        <3> QED BY <1>1, <2>2, <3>1
    <2> QED BY <1>6, <2>1, <2>2
<1>9. ASSUME NEW y \in 1 .. n, NEW f
      PROVE  OnNet(net', y, f) <=> OnNet(net, y, f)
    <2>1. ASSUME NEW j \in DOMAIN net', IsPiece(net'[j], y, f)
          PROVE  OnNet(net, y, f)
        <3>1. net'[j].source_us # n + 1
            BY <1>1, <2>1 DEF IsPiece
        <3> QED BY <1>6, <2>1, <3>1 DEF IsPiece, OnNet
    <2>2. ASSUME NEW j \in DOMAIN net, IsPiece(net[j], y, f)
          PROVE  OnNet(net', y, f)
        <3>1. j \in DOMAIN net' /\ net'[j] = net[j]
            BY <1>3, <1>6, <1>6a
        <3> QED BY <2>2, <3>1 DEF OnNet
    <2> QED BY <2>1, <2>2 DEF OnNet
<1>10. ASSUME NEW f \in 0 .. c - 1
       PROVE  OnNet(net', n + 1, f)
    <2>1. f + 1 \in 1 .. k /\ (f + 1) - 1 = f /\ Len(net) + (f + 1) \in DOMAIN net'
        BY <1>3, <1>6, <1>6a
    <2>2. net'[Len(net) + (f + 1)] = Fragment(sequence, n + 1, msg, f)
        BY <1>6, <2>1
    <2>3. IsPiece(Fragment(sequence, n + 1, msg, f), n + 1, f)
        BY <1>3 DEF IsPiece, Fragment
    <2> QED BY <2>1, <2>2, <2>3 DEF OnNet
<1>11. \E hit \in SUBSET (1 .. Len(sent')) : \E gone \in SUBSET hit : Explains(hit, gone)'
    <2>0. PICK hit \in SUBSET (1 .. n) : \E gone \in SUBSET hit : Explains(hit, gone)
        BY DEF LossInv, n
    <2>1. PICK gone \in SUBSET hit : Explains(hit, gone)
        BY <2>0
    <2>2. hit \in SUBSET (1 .. Len(sent'))
        BY <1>1, <1>5
    <2>3. ASSUME NEW y \in DOMAIN sent' \ hit, ~ Oversized(sent'[y])
          PROVE  Intact(rx', net', y, sent'[y]) /\ (Arrived(y) \/ OnTheWay(y))'
        <3>1. CASE y = n + 1
            <4>1. sent'[y] = msg
                BY <1>5, <3>1
            <4>2. OnNet(net', y, 0)
                BY <1>3, <1>10, <3>1
            <4>3. OnTheWay(y)'
                BY <4>2 DEF OnNet, IsPiece, OnTheWay
            <4> QED BY <1>10, <3>1, <4>1, <4>3 DEF Intact
        <3>2. CASE y # n + 1
            <4>1. y \in 1 .. n /\ sent'[y] = sent[y]
                BY <1>1, <1>5, <3>2
            <4>2. Intact(rx, net, y, sent[y]) /\ (Arrived(y) \/ OnTheWay(y))
                BY <1>1, <2>1, <2>3, <4>1 DEF Explains
            <4>3. Arrived(y) => Arrived(y)'
                BY <1>2 DEF Arrived
            <4>4. OnTheWay(y) => OnTheWay(y)'
                <5>1. (\E f : OnNet(net, y, f)) => \E f : OnNet(net', y, f)
                    BY <1>9, <4>1
                <5> QED BY <5>1 DEF OnTheWay, OnNet, IsPiece
            <4> QED BY <1>2, <1>9, <4>1, <4>2, <4>3, <4>4 DEF Intact
        <3> QED BY <3>1, <3>2
    <2>4. ASSUME NEW x \in gone, NEW j \in DOMAIN net', net'[j].fragments # 0
          PROVE  x < net'[j].source_us
        <3>1. CASE \E i \in DOMAIN net : net'[j] = net[i]
            BY <2>1, <2>4, <3>1 DEF Explains
        <3>2. CASE net'[j].source_us = n + 1
            <4>1. x \in 1 .. n
                BY <2>0, <2>1
            <4> QED BY <1>1, <3>2, <4>1
        <3> QED BY <1>6, <2>4, <3>1, <3>2
    <2>5. Explains(hit, gone)'
        BY <1>2, <2>1, <2>3, <2>4 DEF Explains
    <2> QED BY <2>1, <2>2, <2>5
<1>12. Stamped(rx')
    BY <1>1, <1>2
<1> QED BY <1>6, <1>7, <1>8, <1>11, <1>12

\* The path loses a datagram: its message, if it is of one, is hit.
LEMMA LoseLoss ==
    ASSUME LossInv, NEW i \in DOMAIN net, Lose(i)
    PROVE  /\ PathOrder(net')
           /\ Follows(rx', sent')
           /\ Ahead(rx', net')
           /\ Stamped(rx')
           /\ \E hit \in SUBSET (1 .. Len(sent')) : \E gone \in SUBSET hit : Explains(hit, gone)'
<1> DEFINE d == net[i]
<1>1. /\ net \in Seq(Datagram) /\ net \in Seq(OnPath(sent)) /\ sent \in Seq(Messages)
      /\ DOMAIN sent = 1 .. Len(sent) /\ Len(sent) \in Nat /\ lost \in Nat
      /\ PathOrder(net) /\ Follows(rx, sent) /\ Ahead(rx, net) /\ Stamped(rx)
    BY LossFacts
<1>2. /\ net' = Without(net, i) /\ UNCHANGED <<rx, sent, delivered>>
      /\ lost' = lost + IF d.fragments = 0 THEN 0 ELSE 1
    BY DEF Lose, Without
<1>3. PathOrder(net') /\ \A j \in DOMAIN net' : \E k \in DOMAIN net : net'[j] = net[k]
    BY <1>1, <1>2, OrderKept
<1>4. \A y, f : /\ OnNet(net', y, f) => OnNet(net, y, f)
                /\ OnNet(net, y, f) /\ ~ IsPiece(d, y, f) => OnNet(net', y, f)
    BY <1>1, <1>2, OnNetWithout
<1>5. d.fragments # 0 => d.source_us \in DOMAIN sent
    BY <1>1, PieceLemma
<1> HIDE DEF d
<1>6. Follows(rx', sent') /\ Ahead(rx', net') /\ Stamped(rx')
    BY <1>1, <1>2, <1>3 DEF Ahead
<1>7. ASSUME NEW y \in DOMAIN sent, d.fragments = 0 \/ d.source_us # y,
             Intact(rx, net, y, sent[y]), Arrived(y) \/ OnTheWay(y)
      PROVE  Intact(rx', net', y, sent[y]) /\ (Arrived(y) \/ OnTheWay(y))'
    <2>1. \A f : OnNet(net', y, f) <=> OnNet(net, y, f)
        BY <1>4, <1>7 DEF IsPiece
    <2>2. Arrived(y) => Arrived(y)'
        BY <1>2 DEF Arrived
    <2>3. OnTheWay(y) => OnTheWay(y)'
        BY <2>1 DEF OnTheWay, OnNet, IsPiece
    <2> QED BY <1>2, <1>7, <2>1, <2>2, <2>3 DEF Intact
<1>8. \E hit \in SUBSET (1 .. Len(sent')) : \E gone \in SUBSET hit : Explains(hit, gone)'
    <2>0. PICK hit \in SUBSET (1 .. Len(sent)) : \E gone \in SUBSET hit : Explains(hit, gone)
        BY DEF LossInv
    <2>1. PICK gone \in SUBSET hit : Explains(hit, gone)
        BY <2>0
    <2>2. PICK more : more = IF d.fragments = 0 THEN hit ELSE hit \cup {d.source_us}
        OBVIOUS
    <2>3. more \in SUBSET (1 .. Len(sent')) /\ gone \in SUBSET more
        BY <1>1, <1>2, <1>5, <2>2
    <2>4. Cardinality(more) <= lost'
        <3>1. Cardinality(hit) <= lost /\ IsFiniteSet(hit)
            <4> DEFINE len == Len(sent)
            <4>0. len \in Int
                BY <1>1
            <4> HIDE DEF len
            <4>1. IsFiniteSet(1 .. len)
                BY <4>0, FS_Interval
            <4> QED BY <2>1, <4>1, FS_Subset DEF Explains, len
        <3>2. Cardinality(hit) \in Nat
            BY <3>1, FS_CardinalityType
        <3>3. CASE d.fragments = 0
            BY <1>1, <1>2, <2>2, <3>1, <3>3
        <3>4. CASE d.fragments # 0
            <4>1. Cardinality(more) \in {Cardinality(hit), Cardinality(hit) + 1}
                BY <2>2, <3>1, <3>4, FS_AddElement
            <4> QED BY <1>1, <1>2, <3>1, <3>2, <3>4, <4>1
        <3> QED BY <3>3, <3>4
    <2>5. ASSUME NEW y \in DOMAIN sent' \ more, ~ Oversized(sent'[y])
          PROVE  Intact(rx', net', y, sent'[y]) /\ (Arrived(y) \/ OnTheWay(y))'
        <3>1. y \in DOMAIN sent /\ y \notin hit /\ (d.fragments = 0 \/ d.source_us # y)
            BY <1>2, <2>2
        <3>2. Intact(rx, net, y, sent[y]) /\ (Arrived(y) \/ OnTheWay(y))
            BY <1>2, <2>1, <2>5, <3>1 DEF Explains
        <3> QED BY <1>2, <1>7, <3>1, <3>2
    <2>6. ASSUME NEW x \in gone
          PROVE  /\ rx'.current_seq # None => x < rx'.current_seq + 1
                 /\ \A j \in DOMAIN net' : net'[j].fragments # 0 => x < net'[j].source_us
        BY <1>2, <1>3, <2>1 DEF Explains
    <2>7. Cardinality(gone) = rx'.dropped_sequences
        BY <1>2, <2>1 DEF Explains
    <2>8. Explains(more, gone)'
        BY <2>4, <2>5, <2>6, <2>7 DEF Explains
    <2> QED BY <2>3, <2>8
<1> QED BY <1>3, <1>6, <1>8

\* Messages that have lost a fragment of their own are no more than datagrams
\* lost, however many of the messages are among them.
LEMMA HitsAreLost ==
    ASSUME LossInv, NEW hit \in SUBSET (1 .. Len(sent)), Cardinality(hit) <= lost,
           NEW some \in SUBSET hit
    PROVE  Cardinality(some) <= lost
<1> DEFINE len == Len(sent)
<1>1. len \in Int
    BY LossFacts
<1> HIDE DEF len
<1>2. IsFiniteSet(1 .. len)
    BY <1>1, FS_Interval
<1>3. IsFiniteSet(hit)
    BY <1>2, FS_Subset DEF len
<1>4. Cardinality(some) <= Cardinality(hit) /\ IsFiniteSet(some)
    BY <1>3, FS_Subset
<1>5. Cardinality(some) \in Nat /\ Cardinality(hit) \in Nat
    BY <1>3, <1>4, FS_CardinalityType
<1>6. lost \in Nat
    BY LossFacts
<1> QED BY <1>4, <1>5, <1>6

LEMMA LossNext ==
    ASSUME OrderedPath, FailPoints = {}, MaxMessages <= SeqMod, FitsDatagram
    PROVE  LossInv /\ [Next]_vars => LossInv'
<1> SUFFICES ASSUME LossInv, [Next]_vars PROVE LossInv'
    OBVIOUS
<1>1. PathInv'
    BY PathNext DEF LossInv
<1>2. /\ net \in Seq(Datagram) /\ PathOrder(net) /\ Follows(rx, sent) /\ Ahead(rx, net)
      /\ Stamped(rx)
    BY LossFacts
<1>3. ASSUME NEW msg \in Messages, NEW k \in 1 .. FragmentCount(msg.length), Send(msg, k)
      PROVE  LossInv'
    BY <1>1, <1>3, SendLoss DEF LossInv
<1>4. ASSUME UNCHANGED <<rx, sent, delivered, lost>>, PathOrder(net'),
             \A j \in DOMAIN net' : net'[j].fragments # 0 => \E k \in DOMAIN net : net'[j] = net[k],
             \A y, f : OnNet(net', y, f) <=> OnNet(net, y, f)
      PROVE  LossInv'
    <2>1. Follows(rx', sent') /\ Ahead(rx', net') /\ Stamped(rx')
        BY <1>2, <1>4 DEF Ahead
    <2>2. PICK hit \in SUBSET (1 .. Len(sent)) : \E gone \in SUBSET hit : Explains(hit, gone)
        BY DEF LossInv
    <2>3. PICK gone \in SUBSET hit : Explains(hit, gone)
        BY <2>2
    <2>4. ASSUME NEW y \in DOMAIN sent' \ hit, ~ Oversized(sent'[y])
          PROVE  Intact(rx', net', y, sent'[y]) /\ (Arrived(y) \/ OnTheWay(y))'
        <3>1. Intact(rx, net, y, sent[y]) /\ (Arrived(y) \/ OnTheWay(y))
            BY <1>4, <2>3, <2>4 DEF Explains
        <3>2. Intact(rx', net', y, sent'[y])
            BY <1>4, <3>1 DEF Intact
        <3>3. Arrived(y) => Arrived(y)'
            BY <1>4 DEF Arrived
        <3>4. OnTheWay(y) => OnTheWay(y)'
            <4>1. \A f : OnNet(net', y, f) <=> OnNet(net, y, f)
                BY <1>4
            <4> QED BY <4>1 DEF OnTheWay, OnNet, IsPiece
        <3> QED BY <3>1, <3>2, <3>3, <3>4
    <2>5. Explains(hit, gone)'
        BY <1>4, <2>3, <2>4 DEF Explains
    <2> QED BY <1>1, <1>4, <2>1, <2>3, <2>5 DEF LossInv
<1>5. CASE SendHeartbeat
    <2>1. net' = Append(net, Heartbeat) /\ UNCHANGED <<rx, sent, delivered, lost>>
        BY <1>5 DEF SendHeartbeat
    <2>2. /\ DOMAIN net' = 1 .. Len(net) + 1 /\ Len(net) \in Nat /\ DOMAIN net = 1 .. Len(net)
          /\ \A i \in DOMAIN net : net'[i] = net[i]
          /\ net'[Len(net) + 1] = Heartbeat
        BY <1>2, <2>1
    <2>3. Heartbeat.fragments = 0
        BY DEF Heartbeat
    <2>4. \A i \in DOMAIN net' : net'[i].fragments # 0 => i \in DOMAIN net /\ net'[i] = net[i]
        BY <2>2, <2>3
    <2>5. PathOrder(net')
        BY <1>2, <2>4 DEF PathOrder
    <2>6. \A i \in DOMAIN net : i \in DOMAIN net' /\ net'[i] = net[i]
        BY <2>2
    <2>7. \A y, f : OnNet(net', y, f) <=> OnNet(net, y, f)
        BY <2>4, <2>6 DEF OnNet, IsPiece
    <2> QED BY <1>4, <2>1, <2>4, <2>5, <2>7
<1>6. ASSUME NEW i \in DOMAIN net, Receive(i)
      PROVE  LossInv'
    <2>1. i = 1
        BY <1>6 DEF Receive, OrderedPath
    <2>2. /\ rx' = Ingest(rx, net[1]) /\ net' = Without(net, 1) /\ UNCHANGED <<sent, lost>>
          /\ delivered' = IF Completes(rx, net[1]) THEN Append(delivered, Assembled(rx'))
                                                   ELSE delivered
          /\ 1 \in DOMAIN net
        BY <1>6, <2>1 DEF Receive, Without
    <2>3. PathOrder(net') /\ \A j \in DOMAIN net' : \E k \in DOMAIN net : net'[j] = net[k]
        BY <1>2, <2>2, OrderKept
    <2>4. CASE net[1].fragments = 0
        <3>1. rx' = rx /\ delivered' = delivered
            BY <2>2, <2>4 DEF Ingest, Completes
        <3>2. \A y, f : OnNet(net', y, f) <=> OnNet(net, y, f)
            BY <1>2, <2>2, <2>4, OnNetWithout DEF IsPiece
        <3> QED BY <1>4, <2>2, <2>3, <3>1, <3>2
    <2>5. CASE net[1].fragments # 0
        <3>1. /\ Follows(rx', sent)
              /\ Ahead(rx', net')
              /\ Stamped(rx')
              /\ \E hit \in SUBSET (1 .. Len(sent)) : \E gone \in SUBSET hit : Explains(hit, gone)'
            BY <1>1, <2>2, <2>5, ReceiveLoss
        <3> QED BY <1>1, <2>2, <2>3, <3>1 DEF LossInv
    <2> QED BY <2>4, <2>5
<1>7. ASSUME NEW i \in DOMAIN net, Lose(i)
      PROVE  LossInv'
    BY <1>1, <1>7, LoseLoss DEF LossInv
<1>8. ASSUME NEW i \in DOMAIN net, Duplicate(i)
      PROVE  LossInv'
    BY <1>8 DEF Duplicate, OrderedPath
<1>9. CASE UNCHANGED vars
    BY <1>2, <1>4, <1>9 DEF vars
<1> QED BY <1>3, <1>5, <1>6, <1>7, <1>8, <1>9 DEF Next

\* On a path that only loses datagrams, with sends that do not fail halfway,
\* datagrams the receiver takes and no more messages than sequence numbers, each
\* sequence the receiver counts as dropped had lost a fragment of its own
\* (protocol.rs:220-222).
THEOREM DropsExplained ==
    ASSUME OrderedPath, FailPoints = {}, MaxMessages <= SeqMod, FitsDatagram
    PROVE  Spec => []DroppedExplained
<1>1. LossInv => DroppedExplained
    <2> SUFFICES ASSUME LossInv PROVE DroppedExplained
        OBVIOUS
    <2>1. PICK hit \in SUBSET (1 .. Len(sent)) : \E gone \in SUBSET hit : Explains(hit, gone)
        BY DEF LossInv
    <2>2. PICK gone \in SUBSET hit : Explains(hit, gone)
        BY <2>1
    <2>3. Cardinality(gone) <= lost
        BY <2>2, HitsAreLost DEF Explains
    <2> QED BY <2>2, <2>3 DEF Explains, DroppedExplained
<1>2. LossInv /\ [Next]_vars => LossInv'
    BY LossNext
<1> QED BY LossInit, <1>1, <1>2, PTL DEF Spec

\* On the same path each message that is not too long for the receiver has come
\* out of ingest() once nothing of it is on its way, unless it lost a fragment of
\* its own: neither another message's loss, nor one that is too long, nor a
\* sequence given up half-way takes it along (protocol.rs:275-372).
THEOREM LossIsLocal ==
    ASSUME OrderedPath, FailPoints = {}, MaxMessages <= SeqMod, FitsDatagram
    PROVE  Spec => []LossCostsOneMessage
<1>1. LossInv => LossCostsOneMessage
    <2> SUFFICES ASSUME LossInv PROVE LossCostsOneMessage
        OBVIOUS
    <2> DEFINE missing == {m \in DOMAIN sent :
                              Deliverable(sent[m]) /\ ~ OnTheWay(m) /\ ~ Arrived(m)}
    <2>1. PICK hit \in SUBSET (1 .. Len(sent)) : \E gone \in SUBSET hit : Explains(hit, gone)
        BY DEF LossInv
    <2>2. PICK gone \in SUBSET hit : Explains(hit, gone)
        BY <2>1
    <2>3. missing \subseteq hit
        BY <2>2 DEF Explains, Oversized
    <2>4. Cardinality(hit) <= lost
        BY <2>2 DEF Explains
    <2>5. Cardinality(missing) <= lost
        BY <2>3, <2>4, HitsAreLost
    <2> QED BY <2>5 DEF LossCostsOneMessage
<1>2. LossInv /\ [Next]_vars => LossInv'
    BY LossNext
<1> QED BY LossInit, <1>1, <1>2, PTL DEF Spec
=============================================================================
