-------------------------- MODULE ReassemblyProof --------------------------
(***************************************************************************)
(* Theorems about Reassembly, for every value of its constants.            *)
(***************************************************************************)
EXTENDS Reassembly, FiniteSetTheorems, TLAPS

-----------------------------------------------------------------------------
(* Arithmetic of fragments *)

\* Integer division, as div_ceil and the offsets of fragments use it.
LEMMA Division ==
    ASSUME NEW a \in Nat, NEW p \in Nat \ {0}
    PROVE  /\ a \div p \in Nat
           /\ (a \div p) * p <= a
           /\ a < (a \div p) * p + p
OBVIOUS

\* Multiples of p are at least p apart.
LEMMA Multiples ==
    ASSUME NEW p \in Nat \ {0}, NEW i \in Nat, NEW j \in Nat, i < j
    PROVE  i * p + p <= j * p
OBVIOUS

\* A message of n bytes has as many fragments as begin inside it: fragment i
\* exists exactly when its first byte does.
LEMMA FragmentCountLemma ==
    ASSUME NEW n \in Nat
    PROVE  /\ FragmentCount(n) \in Nat
           /\ \A i \in Nat : i < FragmentCount(n) <=> i * PayloadPerDatagram < n
<1> DEFINE P == PayloadPerDatagram
           c == FragmentCount(n)
<1>1. P \in Nat \ {0}
    BY SizesAssumption
<1>2. /\ c \in Nat
      /\ c * P <= n + P - 1
      /\ n + P - 1 < c * P + P
    BY <1>1, Division, n + P - 1 \in Nat DEF FragmentCount
<1>3. ASSUME NEW i \in Nat, i < c
      PROVE  i * P < n
    <2>1. i * P + P <= c * P
        BY <1>1, <1>2, <1>3, Multiples
    <2>2. i * P \in Nat /\ c * P \in Nat
        BY <1>1, <1>2
    <2> QED BY <1>1, <1>2, <2>1, <2>2
<1>4. ASSUME NEW i \in Nat, i * P < n, ~ (i < c)
      PROVE  FALSE
    <2>1. i = c \/ c * P + P <= i * P
        BY <1>1, <1>2, <1>4, Multiples
    <2>2. i * P \in Nat /\ c * P \in Nat
        BY <1>1, <1>2
    <2> QED BY <1>1, <1>2, <1>4, <2>1, <2>2
<1> HIDE DEF P, c
<1>5. \A i \in Nat : i < c <=> i * P < n
    BY <1>3, <1>4
<1> QED BY <1>2, <1>5 DEF P, c

\* A fragment of a message is never longer than the datagram, and never
\* reaches past the end of the message.
LEMMA FragmentSizeLemma ==
    ASSUME NEW n \in Nat, NEW i \in Nat, i < FragmentCount(n)
    PROVE  /\ FragmentSize(n, i) \in Nat
           /\ i * PayloadPerDatagram \in Nat
           /\ FragmentSize(n, i) <= PayloadPerDatagram
           /\ i * PayloadPerDatagram + FragmentSize(n, i) <= n
           /\ i < FragmentCount(n) - 1 => FragmentSize(n, i) = PayloadPerDatagram
<1> DEFINE P == PayloadPerDatagram
           c == FragmentCount(n)
<1>1. P \in Nat \ {0} /\ c \in Nat /\ i * P \in Nat
    BY SizesAssumption, FragmentCountLemma
<1>2. i * P < n
    BY FragmentCountLemma
<1>3. i + 1 < c <=> (i + 1) * P < n
    BY FragmentCountLemma
<1>4. (i + 1) * P = i * P + P
    BY <1>1
<1>5. CASE i < c - 1
    BY <1>1, <1>2, <1>3, <1>4, <1>5 DEF FragmentSize
<1>6. CASE ~ (i < c - 1)
    BY <1>1, <1>2, <1>3, <1>4, <1>6 DEF FragmentSize
<1> QED BY <1>5, <1>6

-----------------------------------------------------------------------------
(* Type correctness and the fragment count *)

\* The receiver's part of CountsFragments.
Counts(r) ==
    r.current_seq # None /\ r.total_frags > 0 =>
        /\ r.got_frags = Cardinality(r.received)
        /\ r.received \subseteq 0 .. r.total_frags - 1
        /\ r.got_frags < r.total_frags

\* Looking at a header leaves a receiver that has begun, or goes on with, the
\* sequence of that header.
LEMMA TuneType ==
    ASSUME NEW r \in ReceiverType, NEW d \in Datagram, Counts(r), d.fragments # 0
    PROVE  /\ Tune(r, d) \in ReceiverType
           /\ Counts(Tune(r, d))
           /\ Tune(r, d).current_seq = d.sequence
<1> DEFINE s == Stamp(r, d)
<1>1. s \in ReceiverType /\ Counts(s)
    BY DEF Stamp, ReceiverType, Counts, Datagram
<1>2. CASE s.current_seq = d.sequence
    BY <1>1, <1>2 DEF Tune
<1>3. CASE s.current_seq # d.sequence
    <2>1. Tune(r, d) = Reset(s, d)
        BY <1>3 DEF Tune
    <2> HIDE DEF s
    <2> DEFINE dropped == s.dropped_sequences + IF Abandoned(s) THEN 1 ELSE 0
    <2>4. dropped \in Nat
        BY <1>1, SMTT(30) DEF ReceiverType
    <2> HIDE DEF dropped
    <2>5. d.sequence \in {None} \cup 0 .. SeqMod - 1
        BY DEF Datagram
    <2>6. 0 \in 0 .. MAX_FRAGMENTS /\ 0 \in 0 .. MAX_PAYLOAD_PER_DATAGRAM
        BY SizesAssumption
    <2>2. CASE Malformed(d)
        <3> DEFINE a == [s EXCEPT !.dropped_sequences = dropped]
                   b == [a EXCEPT !.current_seq = d.sequence]
                   c == [b EXCEPT !.total_frags = 0]
                   e == [c EXCEPT !.got_frags = 0]
        <3> HIDE DEF a, b, c, e
        <3>1. a \in ReceiverType
            BY <1>1, <2>4 DEF ReceiverType, a
        <3>2. b \in ReceiverType
            BY <3>1, <2>5 DEF ReceiverType, b
        <3>3. c \in ReceiverType
            BY <3>2, <2>6 DEF ReceiverType, c
        <3>4. e \in ReceiverType
            BY <3>3, <2>6 DEF ReceiverType, e
        <3>5. e = Reset(s, d)
            BY <2>2 DEF Reset, dropped, a, b, c, e
        <3>6. b.current_seq = d.sequence
            BY <3>1 DEF b, ReceiverType
        <3>7. c.total_frags = 0 /\ c.current_seq = d.sequence
            BY <3>2, <3>6 DEF c, ReceiverType
        <3>8. e.total_frags = 0 /\ e.current_seq = d.sequence
            BY <3>3, <3>7 DEF e, ReceiverType
        <3> QED BY <2>1, <3>4, <3>5, <3>8 DEF Counts
    <2>3. CASE ~ Malformed(d)
        <3>1. /\ d.fragments \in 1 .. MAX_FRAGMENTS
              /\ d.fragments \in 0 .. MAX_FRAGMENTS
              /\ d.payload_size \in 0 .. MaxPayload
              /\ d.buf_offset \in 0 .. U32_MAX
            BY <2>3, SizesAssumption DEF Malformed, Datagram
        <3>2. Cardinality({}) = 0
            BY FS_EmptySet
        <3> DEFINE a == [s EXCEPT !.dropped_sequences = dropped]
                   b == [a EXCEPT !.current_seq = d.sequence]
                   c == [b EXCEPT !.total_frags = d.fragments]
                   e == [c EXCEPT !.got_frags = 0]
                   f == [e EXCEPT !.payload_size = d.payload_size]
                   g == [f EXCEPT !.last_buf_offset = d.buf_offset]
                   h == [g EXCEPT !.detected_frag_size = 0]
                   k == [h EXCEPT !.received = {}]
        <3> HIDE DEF a, b, c, e, f, g, h, k
        <3>5. a \in ReceiverType
            BY <1>1, <2>4 DEF ReceiverType, a
        <3>6. b \in ReceiverType
            BY <3>5, <2>5 DEF ReceiverType, b
        <3>7. c \in ReceiverType
            BY <3>6, <3>1 DEF ReceiverType, c
        <3>8. e \in ReceiverType
            BY <3>7, <2>6 DEF ReceiverType, e
        <3>9. f \in ReceiverType
            BY <3>8, <3>1 DEF ReceiverType, f
        <3>10. g \in ReceiverType
            BY <3>9, <3>1 DEF ReceiverType, g
        <3>11. h \in ReceiverType
            BY <3>10, <2>6 DEF ReceiverType, h
        <3>12. k \in ReceiverType
            BY <3>11 DEF ReceiverType, k
        <3>3. Reset(s, d) \in ReceiverType
            BY <2>3, <3>12 DEF Reset, dropped, a, b, c, e, f, g, h, k
        <3>4. Counts(Reset(s, d)) /\ Reset(s, d).current_seq = d.sequence
            BY <1>1, <2>3, <3>1, <3>2 DEF Reset, ReceiverType, Counts, Datagram
        <3> QED BY <2>1, <3>3, <3>4
    <2> QED BY <2>2, <2>3
<1> QED BY <1>2, <1>3

\* A fragment is counted when it is placed, once.
LEMMA PlaceType ==
    ASSUME NEW r \in ReceiverType, NEW d \in Datagram, Counts(r),
           r.current_seq = d.sequence, ~ Ignored(r, d)
    PROVE  LET p == Place(Detect(r, d), d)
           IN  /\ p \in ReceiverType
               /\ p.current_seq = r.current_seq
               /\ \/ Counts(p) /\ ~ (d.fragment \in p.received)
                  \/ /\ d.fragment \in p.received
                     /\ p.got_frags = Cardinality(p.received)
                     /\ p.received \subseteq 0 .. p.total_frags - 1
                     /\ p.got_frags <= p.total_frags
<1> DEFINE u == Detect(r, d)
           p == Place(u, d)
           dest == d.fragment * Stride(u)
<1>1. /\ u \in ReceiverType
      /\ u.got_frags = r.got_frags
      /\ u.current_seq = r.current_seq
      /\ u.total_frags = r.total_frags
      /\ u.received = r.received
    <2>1. CASE u = r
        BY <2>1
    <2>2. CASE u # r
        <3>1. u = [r EXCEPT !.detected_frag_size = d.size]
            BY <2>2 DEF Detect
        <3>2. d.size \in 0 .. MAX_PAYLOAD_PER_DATAGRAM
            BY SizesAssumption DEF Ignored, Datagram
        <3> HIDE DEF u
        <3> QED BY <3>1, <3>2 DEF ReceiverType
    <2> QED BY <2>1, <2>2
<1>2. /\ r.total_frags > 0
      /\ d.fragment \in 0 .. r.total_frags - 1
      /\ d.fragment \notin r.received
      /\ r.current_seq # None
    <2>1. d.fragment \in Nat /\ d.sequence \in Nat
        BY SizesAssumption DEF Datagram
    <2>2. r.total_frags \in Nat
        BY SizesAssumption DEF ReceiverType
    <2>3. ~ (d.fragment >= r.total_frags) /\ d.fragment \notin r.received
        BY DEF Ignored
    <2> QED BY <2>1, <2>2, <2>3 DEF None
<1>3. /\ u.got_frags = Cardinality(u.received)
      /\ u.received \subseteq 0 .. u.total_frags - 1
      /\ u.got_frags < u.total_frags
      /\ u.current_seq = r.current_seq
      /\ u.total_frags = r.total_frags
      /\ u.received = r.received
    BY <1>1, <1>2 DEF Counts, ReceiverType
<1> HIDE DEF u
<1>4. CASE dest + d.size > MaxPayload
    <2>1. p = u
        BY <1>4 DEF Place
    <2>2. Counts(u)
        BY <1>3 DEF Counts
    <2> QED BY <1>1, <1>2, <1>3, <2>1, <2>2 DEF u
<1>5. CASE ~ (dest + d.size > MaxPayload)
    <2> DEFINE b == [j \in 0 .. MaxPayload - 1 |->
                        IF dest <= j /\ j < dest + d.size
                        THEN <<d.source_us, d.first + (j - dest)>>
                        ELSE u.buf[j]]
    <2>1. p = [u EXCEPT !.buf = b,
                        !.received = u.received \cup {d.fragment},
                        !.got_frags = u.got_frags + 1]
        BY <1>5 DEF Place
    <2>2. Stride(u) \in Nat
        BY <1>1, SizesAssumption DEF Stride, ReceiverType
    <2>3. dest \in Nat
        BY <2>2 DEF Datagram
    <2>4. b \in [0 .. MaxPayload - 1 -> Byte]
        <3> SUFFICES ASSUME NEW j \in 0 .. MaxPayload - 1
                     PROVE  (IF dest <= j /\ j < dest + d.size
                             THEN <<d.source_us, d.first + (j - dest)>>
                             ELSE u.buf[j]) \in Byte
            OBVIOUS
        <3> HIDE DEF dest
        <3>1. u.buf[j] \in Byte
            BY <1>1 DEF ReceiverType
        <3>2. dest <= j => d.first + (j - dest) \in Nat /\ d.source_us \in Nat
            BY <2>3, SizesAssumption DEF Datagram
        <3> QED BY <3>1, <3>2 DEF Byte
    <2> HIDE DEF b
    <2>5. IsFiniteSet(u.received)
        <3>1. IsFiniteSet(0 .. MAX_FRAGMENTS - 1)
            BY FS_Interval, SizesAssumption, MAX_FRAGMENTS - 1 \in Int
        <3>2. u.received \subseteq 0 .. MAX_FRAGMENTS - 1
            BY <1>1 DEF ReceiverType
        <3> QED BY <3>1, <3>2, FS_Subset
    <2>6. Cardinality(u.received \cup {d.fragment}) = u.got_frags + 1
        BY <1>2, <1>3, <2>5, FS_AddElement, Cardinality(u.received \cup {d.fragment}) = Cardinality(u.received) + 1
    <2>7. p \in ReceiverType
        <3> DEFINE x == [u EXCEPT !.buf = b]
                   y == [x EXCEPT !.received = u.received \cup {d.fragment}]
                   z == [y EXCEPT !.got_frags = u.got_frags + 1]
        <3>1. x \in ReceiverType
            BY <1>1, <2>4 DEF ReceiverType
        <3>2. r.total_frags \in 0 .. MAX_FRAGMENTS /\ u.got_frags \in Nat
            BY <1>1, <1>3 DEF ReceiverType
        <3>3. u.received \cup {d.fragment} \in SUBSET (0 .. MAX_FRAGMENTS - 1)
            <4>1. d.fragment \in 0 .. MAX_FRAGMENTS - 1
                BY <1>2, <3>2, SizesAssumption
            <4>2. u.received \subseteq 0 .. MAX_FRAGMENTS - 1
                BY <1>1 DEF ReceiverType
            <4> QED BY <4>1, <4>2
        <3>4. y \in ReceiverType
            BY <3>1, <3>3 DEF ReceiverType
        <3>5. u.got_frags + 1 \in 0 .. MAX_FRAGMENTS
            BY <1>3, <3>2, SizesAssumption
        <3>6. z \in ReceiverType
            BY <3>4, <3>5 DEF ReceiverType
        <3> QED BY <2>1, <3>6
    <2> HIDE DEF p
    <2>8. /\ p.received = u.received \cup {d.fragment}
          /\ p.got_frags = u.got_frags + 1
          /\ p.current_seq = u.current_seq
          /\ p.total_frags = u.total_frags
        BY <1>1, <2>1 DEF ReceiverType
    <2>9. u.got_frags + 1 <= u.total_frags
        BY <1>1, <1>3 DEF ReceiverType
    <2> QED BY <1>2, <1>3, <2>6, <2>7, <2>8, <2>9 DEF u, p
<1> QED BY <1>4, <1>5 DEF u

LEMMA IngestType ==
    ASSUME NEW r \in ReceiverType, NEW d \in Datagram, Counts(r)
    PROVE  Ingest(r, d) \in ReceiverType /\ Counts(Ingest(r, d))
<1>1. CASE d.fragments = 0
    BY <1>1 DEF Ingest
<1>2. CASE d.fragments # 0
    <2> DEFINE t == Tune(r, d)
               p == Place(Detect(t, d), d)
    <2>1. t \in ReceiverType /\ Counts(t) /\ t.current_seq = d.sequence
        BY <1>2, TuneType
    <2>2. CASE Ignored(t, d)
        BY <1>2, <2>1, <2>2 DEF Ingest
    <2>3. CASE ~ Ignored(t, d)
        <3> HIDE DEF t
        <3>1. /\ p \in ReceiverType
              /\ p.current_seq = t.current_seq
              /\ \/ Counts(p) /\ ~ (d.fragment \in p.received)
                 \/ /\ d.fragment \in p.received
                    /\ p.got_frags = Cardinality(p.received)
                    /\ p.received \subseteq 0 .. p.total_frags - 1
                    /\ p.got_frags <= p.total_frags
            BY <2>1, <2>3, PlaceType
        <3> HIDE DEF p
        <3>2. Completes(r, d) <=> d.fragment \in p.received /\ p.got_frags = p.total_frags
            BY <1>2, <2>3 DEF Completes, t, p
        <3>3. Ingest(r, d) = IF Completes(r, d) THEN [p EXCEPT !.current_seq = None] ELSE p
            BY <1>2, <2>3 DEF Ingest, t, p
        <3>4. CASE Completes(r, d)
            <4>1. Ingest(r, d) = [p EXCEPT !.current_seq = None]
                BY <3>3, <3>4
            <4>2. Ingest(r, d) \in ReceiverType /\ Ingest(r, d).current_seq = None
                BY <3>1, <4>1 DEF ReceiverType
            <4> QED BY <4>2 DEF Counts
        <3>5. CASE ~ Completes(r, d)
            BY <3>1, <3>2, <3>3, <3>5, SMTT(30) DEF ReceiverType, Counts
        <3> QED BY <3>4, <3>5
    <2> QED BY <2>2, <2>3
<1> QED BY <1>1, <1>2

\* What the path may do to the sequence of datagrams on it.
LEMMA PathLemma ==
    ASSUME NEW S, NEW s \in Seq(S), NEW i \in DOMAIN s
    PROVE  /\ s[i] \in S
           /\ SubSeq(s, 1, i - 1) \o SubSeq(s, i + 1, Len(s)) \in Seq(S)
           /\ SubSeq(s, 1, i) \o SubSeq(s, i, Len(s)) \in Seq(S)
<1>1. i \in 1 .. Len(s) /\ Len(s) \in Nat
    OBVIOUS
<1>2. SubSeq(s, 1, i - 1) \in Seq(S) /\ SubSeq(s, i + 1, Len(s)) \in Seq(S)
    BY <1>1
<1>3. SubSeq(s, 1, i) \in Seq(S) /\ SubSeq(s, i, Len(s)) \in Seq(S)
    BY <1>1
<1> QED BY <1>1, <1>2, <1>3

\* The datagrams of a message have the types of a header.
LEMMA FragmentType ==
    ASSUME NEW msg \in Messages, NEW s \in 0 .. SeqMod - 1, NEW m \in Nat,
           NEW i \in Nat, i < FragmentCount(msg.length)
    PROVE  Fragment(s, m, msg, i) \in Datagram
<1>1. msg.length \in Nat /\ msg.buf_offset \in 0 .. U32_MAX
    BY MessagesAssumption
<1>2. /\ FragmentSize(msg.length, i) \in Nat
      /\ i * PayloadPerDatagram \in Nat
      /\ FragmentCount(msg.length) \in Nat
    BY <1>1, FragmentSizeLemma, FragmentCountLemma
<1> QED BY <1>1, <1>2 DEF Fragment, Datagram

\* What send() puts on the path is a sequence of well-formed datagrams.
LEMMA BurstType ==
    ASSUME NEW S, NEW k \in Nat, NEW b \in [1 .. k -> S]
    PROVE  b \in Seq(S)
OBVIOUS

LEMMA AppendType ==
    ASSUME NEW S, NEW s \in Seq(S), NEW e \in S
    PROVE  Append(s, e) \in Seq(S)
OBVIOUS

\* What ingest() hands to its caller.
LEMMA AssembledType ==
    ASSUME NEW r \in ReceiverType
    PROVE  Assembled(r) \in [bytes : Seq(Byte), buf_offset : 0 .. U32_MAX, source_us : Nat]
<1>1. r.payload_size \in 0 .. MaxPayload /\ r.payload_size \in Nat
    BY SizesAssumption DEF ReceiverType
<1>2. ASSUME NEW j \in 1 .. r.payload_size
      PROVE  r.buf[j - 1] \in Byte
    <2>1. j - 1 \in 0 .. MaxPayload - 1
        BY <1>1, SizesAssumption
    <2> QED BY <2>1 DEF ReceiverType
<1>3. [j \in 1 .. r.payload_size |-> r.buf[j - 1]] \in [1 .. r.payload_size -> Byte]
    BY <1>2
<1>4. [j \in 1 .. r.payload_size |-> r.buf[j - 1]] \in Seq(Byte)
    BY <1>1, <1>3, BurstType
<1> QED BY <1>4 DEF Assembled, ReceiverType

CountInv == TypeOK /\ CountsFragments

LEMMA CountInit == Init => CountInv
<1> SUFFICES ASSUME Init PROVE CountInv
    OBVIOUS
<1>1. NewReceiver \in ReceiverType
    BY SizesAssumption DEF NewReceiver, ReceiverType, Byte, ZeroByte
<1>2. NewReceiver.current_seq = None
    BY DEF NewReceiver
<1> QED BY <1>1, <1>2, SizesAssumption DEF Init, CountInv, TypeOK, CountsFragments

LEMMA CountNext == CountInv /\ [Next]_vars => CountInv'
<1> SUFFICES ASSUME CountInv, [Next]_vars PROVE CountInv'
    OBVIOUS
<1> USE DEF CountInv, TypeOK
<1>0. Counts(rx) = CountsFragments
    BY DEF Counts, CountsFragments
<1>1. ASSUME NEW msg \in Messages, NEW k \in 1 .. FragmentCount(msg.length), Send(msg, k)
      PROVE  CountInv'
    <2> DEFINE m == Len(sent) + 1
               burst == [i \in 1 .. k |-> Fragment(sequence, m, msg, i - 1)]
    <2>1. FragmentCount(msg.length) \in Nat
        BY MessagesAssumption, FragmentCountLemma
    <2>2. m \in Nat
        OBVIOUS
    <2>3. burst \in Seq(Datagram)
        <3>1. \A i \in 1 .. k : Fragment(sequence, m, msg, i - 1) \in Datagram
            <4> SUFFICES ASSUME NEW i \in 1 .. k
                         PROVE  Fragment(sequence, m, msg, i - 1) \in Datagram
                OBVIOUS
            <4>1. i - 1 \in Nat /\ i - 1 < FragmentCount(msg.length)
                BY <2>1
            <4> QED BY <2>2, <4>1, FragmentType
        <3>2. burst \in [1 .. k -> Datagram]
            BY <3>1
        <3> QED BY <2>1, <3>2, BurstType
    <2>4. sequence' \in 0 .. SeqMod - 1
        BY <1>1, SizesAssumption DEF Send, Bump
    <2> QED BY <1>1, <2>3, <2>4 DEF Send, CountsFragments
<1>2. CASE SendHeartbeat
    <2>1. Heartbeat \in Datagram
        BY SizesAssumption DEF Heartbeat, Datagram
    <2> QED BY <1>2, <2>1 DEF SendHeartbeat, CountsFragments
<1>3. ASSUME NEW i \in DOMAIN net, Receive(i)
      PROVE  CountInv'
    <2>1. net[i] \in Datagram /\ net' \in Seq(Datagram)
        BY <1>3, PathLemma DEF Receive
    <2>2. rx' \in ReceiverType /\ Counts(rx')
        BY <1>0, <1>3, <2>1, IngestType DEF Receive
    <2>3. Assembled(rx') \in [bytes : Seq(Byte), buf_offset : 0 .. U32_MAX, source_us : Nat]
        BY <2>2, AssembledType
    <2>5. delivered' \in Seq([bytes : Seq(Byte), buf_offset : 0 .. U32_MAX, source_us : Nat])
        <3> DEFINE D == [bytes : Seq(Byte), buf_offset : 0 .. U32_MAX, source_us : Nat]
        <3>1. delivered \in Seq(D) /\ Assembled(rx') \in D
            BY <2>3
        <3> HIDE DEF D
        <3>2. delivered' \in {delivered, Append(delivered, Assembled(rx'))}
            BY <1>3 DEF Receive
        <3>4. Append(delivered, Assembled(rx')) \in Seq(D)
            BY <3>1, AppendType
        <3>3. delivered' \in Seq(D)
            BY <3>1, <3>2, <3>4, Zenon
        <3> QED BY <3>3 DEF D
    <2>4. CountsFragments'
        BY <2>2 DEF Counts, CountsFragments
    <2> QED BY <1>3, <2>1, <2>2, <2>4, <2>5 DEF Receive
<1>4. ASSUME NEW i \in DOMAIN net, Lose(i)
      PROVE  CountInv'
    <2>1. net' \in Seq(Datagram)
        BY <1>4, PathLemma DEF Lose
    <2> QED BY <1>4, <2>1, SMTT(30) DEF Lose, CountsFragments
<1>5. ASSUME NEW i \in DOMAIN net, Duplicate(i)
      PROVE  CountInv'
    <2>1. net' \in Seq(Datagram)
        BY <1>5, PathLemma DEF Duplicate
    <2> QED BY <1>5, <2>1 DEF Duplicate, CountsFragments
<1>6. CASE UNCHANGED vars
    BY <1>6 DEF vars, CountsFragments
<1> QED BY <1>1, <1>2, <1>3, <1>4, <1>5, <1>6 DEF Next

\* The receiver never writes or slices outside its preallocated buffer, for
\* any datagram size, message size, loss, duplication or order
\* (protocol.rs:229-231, 315, 329).
THEOREM TypeCorrect == Spec => []TypeOK
<1>1. CountInv => TypeOK
    BY DEF CountInv
<1> QED BY CountInit, CountNext, <1>1, PTL DEF Spec

\* The receiver closes a sequence in the step that places its last missing
\* fragment, and counts no fragment twice (protocol.rs:285-333).
THEOREM FragmentsCounted == Spec => []CountsFragments
<1>1. CountInv => CountsFragments
    BY DEF CountInv
<1> QED BY CountInit, CountNext, <1>1, PTL DEF Spec
-----------------------------------------------------------------------------
(* Integrity.  With the default datagram size the sender's fragments are    *)
(* as long as the receiver's fallback stride, so the place of a fragment    *)
(* does not depend on the order of arrival.                                 *)

DefaultSize == PayloadPerDatagram = MAX_PAYLOAD_PER_DATAGRAM

\* d is a fragment of a message of s, under the sequence number of that message.
IsFragment(d, s) ==
    \E m \in DOMAIN s : \E i \in Nat :
        i < FragmentCount(s[m].length) /\ d = Fragment(m - 1, m, s[m], i)

OnPath(s) == {d \in Datagram : d = Heartbeat \/ IsFragment(d, s)}

\* What r has collected belongs to one message of s, every byte in its place.
Carries(r, s) ==
    r.current_seq # None /\ r.total_frags > 0 =>
        LET m == r.current_seq + 1
        IN  /\ m \in DOMAIN s
            /\ r.total_frags = FragmentCount(s[m].length)
            /\ r.payload_size = s[m].length
            /\ r.last_buf_offset = s[m].buf_offset
            /\ r.detected_frag_size \in {0, PayloadPerDatagram}
            /\ 0 \in r.received => r.last_source_us = m
            /\ \A i \in r.received : \A j \in 0 .. r.payload_size - 1 :
                  i * PayloadPerDatagram <= j /\ j < i * PayloadPerDatagram + PayloadPerDatagram
                      => r.buf[j] = <<m, j>>

\* As long as no send fails and no sequence number is used twice, message m
\* goes out under sequence number m - 1.
PathInv ==
    /\ CountInv
    /\ Len(sent) <= MaxMessages
    /\ sequence = IF Len(sent) = SeqMod THEN 0 ELSE Len(sent)
    /\ net \in Seq(OnPath(sent))

IntactInv ==
    /\ PathInv
    /\ Carries(rx, sent)
    /\ AssembledIntact

LEMMA PathInit == Init => PathInv
BY CountInit, SizesAssumption, BoundsAssumption DEF Init, PathInv

LEMMA PathNext ==
    ASSUME FailPoints = {}, MaxMessages <= SeqMod
    PROVE  PathInv /\ [Next]_vars => PathInv'
<1> SUFFICES ASSUME PathInv, [Next]_vars PROVE PathInv'
    OBVIOUS
<1>1. CountInv'
    BY CountNext DEF PathInv
<1>2. /\ sent \in Seq(Messages) /\ net \in Seq(OnPath(sent))
      /\ Len(sent) \in Nat /\ Len(sent) <= MaxMessages
      /\ sequence = IF Len(sent) = SeqMod THEN 0 ELSE Len(sent)
    BY DEF PathInv, CountInv, TypeOK
<1>3. ASSUME NEW msg \in Messages, NEW k \in 1 .. FragmentCount(msg.length), Send(msg, k)
      PROVE  PathInv'
    <2> DEFINE m == Len(sent) + 1
               n == FragmentCount(msg.length)
               burst == [i \in 1 .. k |-> Fragment(sequence, m, msg, i - 1)]
    <2>1. /\ sent' = Append(sent, msg) /\ Len(sent) < MaxMessages
          /\ net' = net \o burst /\ sequence' = (IF k = n THEN Bump(sequence) ELSE sequence)
          /\ k < n => k \in FailPoints
        BY <1>3 DEF Send
    <2>2. n \in Nat /\ k \in Nat
        BY MessagesAssumption, FragmentCountLemma
    <2>3. k = n
        BY <2>1, <2>2
    <2>4. /\ Len(sent') = m /\ m \in DOMAIN sent' /\ sent'[m] = msg
          /\ \A x \in DOMAIN sent : x \in DOMAIN sent' /\ sent'[x] = sent[x]
          /\ m \in Nat
        BY <1>2, <2>1
    <2>5. sequence = m - 1 /\ sequence \in 0 .. SeqMod - 1
        BY <1>2, <2>1, SizesAssumption, BoundsAssumption
    <2>6. sequence' = IF m = SeqMod THEN 0 ELSE m
        BY <2>1, <2>3, <2>4, <2>5 DEF Bump
    <2>7. net' \in Seq(OnPath(sent'))
        <3>1. OnPath(sent) \subseteq OnPath(sent')
            BY <2>4 DEF OnPath, IsFragment
        <3>2. net \in Seq(OnPath(sent'))
            BY <1>2, <3>1
        <3>3. ASSUME NEW i \in 1 .. k
              PROVE  Fragment(sequence, m, msg, i - 1) \in OnPath(sent')
            <4>1. i - 1 \in Nat /\ i - 1 < n
                BY <2>2
            <4>2. Fragment(sequence, m, msg, i - 1) \in Datagram
                BY <2>4, <2>5, <4>1, FragmentType
            <4>3. IsFragment(Fragment(sequence, m, msg, i - 1), sent')
                BY <2>4, <2>5, <4>1 DEF IsFragment
            <4> QED BY <4>2, <4>3 DEF OnPath
        <3>4. burst \in [1 .. k -> OnPath(sent')]
            BY <3>3
        <3>5. burst \in Seq(OnPath(sent'))
            BY <2>2, <3>4, BurstType
        <3> HIDE DEF burst
        <3> QED BY <2>1, <3>2, <3>5
    <2>8. Len(sent') <= MaxMessages
        BY <1>2, <2>1, <2>4, BoundsAssumption
    <2> QED BY <1>1, <2>4, <2>6, <2>7, <2>8 DEF PathInv
<1>4. CASE SendHeartbeat
    <2>1. Heartbeat \in OnPath(sent)
        BY SizesAssumption DEF Heartbeat, Datagram, OnPath
    <2>2. /\ net' \in Seq(OnPath(sent))
          /\ UNCHANGED <<sequence, sent>>
        BY <1>2, <1>4, <2>1, AppendType DEF SendHeartbeat
    <2> QED BY <1>1, <1>2, <2>2 DEF PathInv
<1>5. ASSUME NEW i \in DOMAIN net, Receive(i) \/ Lose(i) \/ Duplicate(i)
      PROVE  PathInv'
    <2>1. net' \in Seq(OnPath(sent)) /\ UNCHANGED <<sequence, sent>>
        BY <1>2, <1>5, PathLemma DEF Receive, Lose, Duplicate
    <2> QED BY <1>1, <1>2, <2>1 DEF PathInv
<1>6. CASE UNCHANGED vars
    BY <1>1, <1>2, <1>6 DEF vars, PathInv
<1> QED BY <1>3, <1>4, <1>5, <1>6 DEF Next

LEMMA TuneCarries ==
    ASSUME NEW s \in Seq(Messages), NEW m \in DOMAIN s, NEW i \in Nat,
           i < FragmentCount(s[m].length),
           NEW r \in ReceiverType, Carries(r, s), NEW d \in Datagram,
           d = Fragment(m - 1, m, s[m], i)
    PROVE  /\ Carries(Tune(r, d), s)
           /\ i = 0 => Tune(r, d).last_source_us = m
<1> DEFINE t == Stamp(r, d)
<1>1. /\ d.sequence = m - 1 /\ d.fragment = i /\ d.source_us = m
      /\ d.fragments = FragmentCount(s[m].length)
      /\ d.payload_size = s[m].length /\ d.buf_offset = s[m].buf_offset
    BY DEF Fragment
<1>2. m \in Nat \ {0} /\ d.sequence + 1 = m
    BY <1>1
<1>3. /\ t \in ReceiverType
      /\ t.current_seq = r.current_seq
      /\ i = 0 => t.last_source_us = m
    BY <1>1, <1>2 DEF Stamp, ReceiverType
<1>4. CASE t.current_seq = d.sequence
    <2>1. Tune(r, d) = t
        BY <1>4 DEF Tune
    <2>2. Carries(t, s)
        BY <1>1, <1>2, <1>3, <1>4 DEF Stamp, Carries, ReceiverType
    <2> QED BY <1>3, <2>1, <2>2
<1>5. CASE t.current_seq # d.sequence
    <2>1. Tune(r, d) = Reset(t, d)
        BY <1>5 DEF Tune
    <2> HIDE DEF t
    <2>2. Reset(t, d).last_source_us = t.last_source_us
        BY <1>3 DEF Reset, ReceiverType
    <2>3. CASE Malformed(d)
        <3>1. Reset(t, d).total_frags = 0
            BY <1>3, <2>3 DEF Reset, ReceiverType
        <3> QED BY <1>3, <2>1, <2>2, <3>1 DEF Carries
    <2>4. CASE ~ Malformed(d)
        <3>1. /\ Reset(t, d).current_seq = d.sequence
              /\ Reset(t, d).total_frags = d.fragments
              /\ Reset(t, d).payload_size = d.payload_size
              /\ Reset(t, d).last_buf_offset = d.buf_offset
              /\ Reset(t, d).detected_frag_size = 0
              /\ Reset(t, d).received = {}
            BY <1>3, <2>4 DEF Reset, ReceiverType
        <3> QED BY <1>1, <1>2, <1>3, <2>1, <2>2, <3>1 DEF Carries
    <2> QED BY <2>3, <2>4
<1> QED BY <1>4, <1>5

LEMMA PlaceCarries ==
    ASSUME DefaultSize,
           NEW s \in Seq(Messages), NEW m \in DOMAIN s, NEW i \in Nat,
           i < FragmentCount(s[m].length),
           NEW d \in Datagram, d = Fragment(m - 1, m, s[m], i),
           NEW t \in ReceiverType, Carries(t, s), t.current_seq = d.sequence,
           i = 0 => t.last_source_us = m,
           ~ Ignored(t, d)
    PROVE  Carries(Place(Detect(t, d), d), s)
<1> DEFINE P == PayloadPerDatagram
           u == Detect(t, d)
           dest == d.fragment * Stride(u)
<1>1. /\ d.sequence = m - 1 /\ d.fragment = i /\ d.source_us = m
      /\ d.fragments = FragmentCount(s[m].length)
      /\ d.size = FragmentSize(s[m].length, i)
      /\ d.first = i * P
    BY DEF Fragment
<1>2. m \in Nat \ {0} /\ d.sequence + 1 = m /\ s[m].length \in Nat /\ d.sequence # None
    BY <1>1, MessagesAssumption, SMTT(30) DEF None
<1>3. P \in Nat \ {0} /\ i * P \in Nat
    BY SizesAssumption
<1>4. t.total_frags > 0
    BY <1>1 DEF Ignored, ReceiverType
<1>5. /\ t.total_frags = FragmentCount(s[m].length)
      /\ t.payload_size = s[m].length
      /\ t.last_buf_offset = s[m].buf_offset
      /\ t.detected_frag_size \in {0, P}
      /\ 0 \in t.received => t.last_source_us = m
      /\ \A x \in t.received : \A j \in 0 .. t.payload_size - 1 :
            x * P <= j /\ j < x * P + P => t.buf[j] = <<m, j>>
    BY <1>1, <1>2, <1>4 DEF Carries
<1>6. /\ d.size \in Nat /\ d.size <= P
      /\ i < FragmentCount(s[m].length) - 1 => d.size = P
      /\ i * P + d.size <= s[m].length
    BY <1>1, <1>2, FragmentSizeLemma
<1>7. /\ u.current_seq = t.current_seq /\ u.total_frags = t.total_frags
      /\ u.payload_size = t.payload_size /\ u.last_buf_offset = t.last_buf_offset
      /\ u.received = t.received /\ u.last_source_us = t.last_source_us
      /\ u.buf = t.buf
      /\ u.detected_frag_size \in {0, P}
      /\ u \in ReceiverType
    <2>1. CASE u = t
        BY <1>5, <2>1
    <2>2. CASE u # t
        <3>1. u = [t EXCEPT !.detected_frag_size = d.size] /\ d.size = P
            BY <1>1, <1>5, <1>6, <2>2 DEF Detect
        <3>2. d.size \in 0 .. MAX_PAYLOAD_PER_DATAGRAM
            BY <1>6, SizesAssumption, SMTT(30) DEF Ignored, Datagram
        <3> HIDE DEF u
        <3> QED BY <3>1, <3>2 DEF ReceiverType
    <2> QED BY <2>1, <2>2
<1>8. Stride(u) = P
    BY <1>3, <1>7 DEF Stride, DefaultSize
<1>9. dest = i * P
    BY <1>1, <1>8
<1> HIDE DEF u, dest
<1>10. CASE dest + d.size > MaxPayload
    <2>1. Place(u, d) = u
        BY <1>10 DEF Place, dest
    <2>2. Carries(u, s)
        BY <1>2, <1>5, <1>7 DEF Carries
    <2> QED BY <2>1, <2>2 DEF u
<1>11. CASE ~ (dest + d.size > MaxPayload)
    <2> DEFINE b == [j \in 0 .. MaxPayload - 1 |->
                        IF dest <= j /\ j < dest + d.size
                        THEN <<d.source_us, d.first + (j - dest)>>
                        ELSE u.buf[j]]
               p == Place(u, d)
    <2>1. p = [u EXCEPT !.buf = b,
                        !.received = u.received \cup {d.fragment},
                        !.got_frags = u.got_frags + 1]
        BY <1>11 DEF Place, dest
    <2> HIDE DEF b, p
    <2>2. /\ p.current_seq = u.current_seq /\ p.total_frags = u.total_frags
          /\ p.payload_size = u.payload_size /\ p.last_buf_offset = u.last_buf_offset
          /\ p.received = u.received \cup {i} /\ p.last_source_us = u.last_source_us
          /\ p.detected_frag_size = u.detected_frag_size
          /\ p.buf = b
        BY <1>1, <1>7, <2>1 DEF ReceiverType
    <2>3. ASSUME NEW x \in p.received, NEW j \in 0 .. p.payload_size - 1,
                 x * P <= j, j < x * P + P
          PROVE  p.buf[j] = <<m, j>>
        <3>1. j \in 0 .. MaxPayload - 1 /\ j \in Nat
            <4>1. t.payload_size \in 0 .. MaxPayload
                BY DEF ReceiverType
            <4>2. p.payload_size = t.payload_size
                BY <1>7, <2>2
            <4> QED BY <4>1, <4>2, SizesAssumption
        <3>2. b[j] = IF i * P <= j /\ j < i * P + d.size
                     THEN <<m, i * P + (j - i * P)>>
                     ELSE t.buf[j]
            BY <1>1, <1>7, <1>9, <3>1 DEF b
        <3>3. CASE i * P <= j /\ j < i * P + d.size
            BY <1>3, <2>2, <3>1, <3>2, <3>3, i * P + (j - i * P) = j
        <3>4. CASE ~ (i * P <= j /\ j < i * P + d.size)
            <4>1. b[j] = t.buf[j]
                BY <3>2, <3>4
            <4>2. x \in t.received
                <5>1. SUFFICES ASSUME x = i PROVE FALSE
                    BY <1>7, <2>2
                <5>2. j >= i * P + d.size
                    BY <1>3, <1>6, <2>3, <3>1, <3>4, <5>1
                <5>3. d.size # P
                    BY <1>3, <2>3, <3>1, <5>1, <5>2
                <5>4. i = FragmentCount(s[m].length) - 1
                    BY <1>2, <1>6, <5>3, FragmentCountLemma
                <5>5. d.size = s[m].length - i * P
                    BY <1>1, <5>4 DEF FragmentSize
                <5>6. j < s[m].length
                    BY <1>2, <1>5, <1>7, <2>2
                <5> QED BY <1>2, <1>3, <3>1, <5>2, <5>5, <5>6, SMTT(30)
            <4>3. j \in 0 .. t.payload_size - 1
                BY <1>7, <2>2
            <4>4. t.buf[j] = <<m, j>>
                BY <1>5, <2>3, <4>2, <4>3
            <4> QED BY <2>2, <4>1, <4>4
        <3> QED BY <3>3, <3>4
    <2>4. 0 \in p.received => p.last_source_us = m
        BY <1>5, <1>7, <2>2
    <2>5. Carries(p, s)
        BY <1>1, <1>2, <1>5, <1>7, <2>2, <2>3, <2>4 DEF Carries
    <2> QED BY <2>5 DEF p, u
<1> QED BY <1>10, <1>11

\* Once every fragment is there, every byte is: byte j lies in fragment j \div P.
LEMMA CompleteIsWhole ==
    ASSUME sent \in Seq(Messages),
           NEW r \in ReceiverType, Carries(r, sent),
           r.current_seq # None, r.total_frags > 0,
           r.received = 0 .. r.total_frags - 1
    PROVE  \E m \in DOMAIN sent : Assembled(r) = Whole(m)
<1> DEFINE P == PayloadPerDatagram
           m == r.current_seq + 1
<1>1. /\ m \in DOMAIN sent
      /\ r.total_frags = FragmentCount(sent[m].length)
      /\ r.payload_size = sent[m].length
      /\ r.last_buf_offset = sent[m].buf_offset
      /\ 0 \in r.received => r.last_source_us = m
      /\ \A i \in r.received : \A j \in 0 .. r.payload_size - 1 :
            i * P <= j /\ j < i * P + P => r.buf[j] = <<m, j>>
    BY DEF Carries
<1>2. r.last_source_us = m
    BY <1>1 DEF ReceiverType
<1>3. sent[m].length \in Nat /\ P \in Nat \ {0} /\ r.total_frags \in Nat
    <2>1. sent[m] \in Messages
        BY <1>1
    <2>2. sent[m].length \in Nat
        BY <2>1, MessagesAssumption
    <2> QED BY <1>1, <2>2, SizesAssumption, FragmentCountLemma
<1> HIDE DEF m
<1>4. ASSUME NEW j \in 0 .. r.payload_size - 1
      PROVE  r.buf[j] = <<m, j>>
    <2> DEFINE i == j \div P
    <2>1. j \in Nat /\ j < sent[m].length
        BY <1>1, <1>3
    <2>2. i \in Nat /\ i * P <= j /\ j < i * P + P
        BY <1>3, <2>1, Division
    <2>3. i * P \in Nat
        BY <1>3, <2>2
    <2> HIDE DEF i
    <2>4. i * P < sent[m].length
        BY <1>3, <2>1, <2>2, <2>3
    <2>5. i < r.total_frags
        BY <1>1, <1>3, <2>2, <2>4, FragmentCountLemma
    <2>6. i \in r.received
        BY <1>3, <2>2, <2>5
    <2> QED BY <1>1, <2>2, <2>6
<1>5. \A j \in 1 .. r.payload_size : r.buf[j - 1] = <<m, j - 1>>
    <2> SUFFICES ASSUME NEW j \in 1 .. r.payload_size PROVE r.buf[j - 1] = <<m, j - 1>>
        OBVIOUS
    <2>1. j - 1 \in 0 .. r.payload_size - 1
        BY <1>1, <1>3
    <2> QED BY <1>4, <2>1
<1>6. [j \in 1 .. r.payload_size |-> r.buf[j - 1]] = [j \in 1 .. sent[m].length |-> <<m, j - 1>>]
    BY <1>1, <1>5
<1>7. Assembled(r) = Whole(m)
    BY <1>1, <1>2, <1>6 DEF Assembled, Whole
<1> QED BY <1>1, <1>7

\* The receiver's step: what it carries, and what it delivers.
LEMMA IngestCarries ==
    ASSUME DefaultSize, sent \in Seq(Messages),
           NEW r \in ReceiverType, Counts(r), Carries(r, sent),
           NEW d \in OnPath(sent)
    PROVE  /\ Carries(Ingest(r, d), sent)
           /\ Completes(r, d) => \E m \in DOMAIN sent : Assembled(Ingest(r, d)) = Whole(m)
<1>1. CASE d.fragments = 0
    BY <1>1 DEF Ingest, Completes
<1>2. CASE d.fragments # 0
    <2>1. d \in Datagram /\ d # Heartbeat
        BY <1>2 DEF OnPath, Heartbeat
    <2>2. PICK m \in DOMAIN sent, i \in Nat :
              i < FragmentCount(sent[m].length) /\ d = Fragment(m - 1, m, sent[m], i)
        BY <2>1 DEF OnPath, IsFragment
    <2> DEFINE t == Tune(r, d)
               p == Place(Detect(t, d), d)
    <2>3. t \in ReceiverType /\ Counts(t) /\ t.current_seq = d.sequence
        BY <1>2, <2>1, TuneType
    <2>4. Carries(t, sent) /\ (i = 0 => t.last_source_us = m)
        BY <2>1, <2>2, TuneCarries
    <2>5. CASE Ignored(t, d)
        BY <1>2, <2>4, <2>5 DEF Ingest, Completes
    <2>6. CASE ~ Ignored(t, d)
        <3> HIDE DEF t
        <3>1. Carries(p, sent)
            BY <2>1, <2>2, <2>3, <2>4, <2>6, PlaceCarries
        <3>2. /\ p \in ReceiverType
              /\ p.current_seq = t.current_seq
              /\ \/ Counts(p) /\ ~ (d.fragment \in p.received)
                 \/ /\ d.fragment \in p.received
                    /\ p.got_frags = Cardinality(p.received)
                    /\ p.received \subseteq 0 .. p.total_frags - 1
                    /\ p.got_frags <= p.total_frags
            BY <2>1, <2>3, <2>6, PlaceType
        <3> HIDE DEF p
        <3>3. Completes(r, d) <=> d.fragment \in p.received /\ p.got_frags = p.total_frags
            BY <1>2, <2>6 DEF Completes, t, p
        <3>4. Ingest(r, d) = IF Completes(r, d) THEN [p EXCEPT !.current_seq = None] ELSE p
            BY <1>2, <2>6 DEF Ingest, t, p
        <3>5. CASE Completes(r, d)
            <4>1. p.current_seq # None
                BY <2>1, <2>3, <3>2 DEF Datagram, None
            <4>2. p.total_frags \in Nat
                BY <3>2, SizesAssumption DEF ReceiverType
            <4>3. p.total_frags > 0
                BY <3>2, <3>3, <3>5, <4>2
            <4>4. p.received = 0 .. p.total_frags - 1
                <5>1. IsFiniteSet(0 .. p.total_frags - 1)
                      /\ Cardinality(0 .. p.total_frags - 1) = p.total_frags
                    <6> DEFINE hi == p.total_frags - 1
                    <6>1. hi \in Int /\ 0 <= hi /\ hi - 0 + 1 = p.total_frags
                        BY <4>2, <4>3
                    <6> HIDE DEF hi
                    <6>2. IsFiniteSet(0 .. hi) /\ Cardinality(0 .. hi) = hi - 0 + 1
                        BY <6>1, FS_Interval
                    <6> QED BY <6>1, <6>2 DEF hi
                <5>2. p.received \subseteq 0 .. p.total_frags - 1
                      /\ Cardinality(p.received) = p.total_frags
                    BY <3>2, <3>3, <3>5
                <5> QED BY <5>1, <5>2, FS_Subset
            <4>5. \E x \in DOMAIN sent : Assembled(p) = Whole(x)
                BY <3>1, <3>2, <4>1, <4>3, <4>4, CompleteIsWhole
            <4>6. Ingest(r, d) = [p EXCEPT !.current_seq = None]
                BY <3>4, <3>5
            <4>7. Assembled(Ingest(r, d)) = Assembled(p)
                BY <3>2, <4>6 DEF Assembled, ReceiverType
            <4>8. Carries(Ingest(r, d), sent)
                BY <3>2, <4>6 DEF Carries, ReceiverType
            <4> QED BY <4>5, <4>7, <4>8
        <3>6. CASE ~ Completes(r, d)
            BY <3>1, <3>4, <3>6
        <3> QED BY <3>5, <3>6
    <2> QED BY <2>5, <2>6
<1> QED BY <1>1, <1>2

LEMMA IntactInit == Init => IntactInv
<1> SUFFICES ASSUME Init PROVE IntactInv
    OBVIOUS
<1>1. Carries(rx, sent)
    BY DEF Init, NewReceiver, Carries
<1> QED BY <1>1, PathInit DEF Init, IntactInv, AssembledIntact

LEMMA IntactNext ==
    ASSUME DefaultSize, FailPoints = {}, MaxMessages <= SeqMod
    PROVE  IntactInv /\ [Next]_vars => IntactInv'
<1> SUFFICES ASSUME IntactInv, [Next]_vars PROVE IntactInv'
    OBVIOUS
<1>1. PathInv'
    BY PathNext DEF IntactInv
<1>2. /\ sent \in Seq(Messages) /\ net \in Seq(OnPath(sent))
      /\ delivered \in Seq([bytes : Seq(Byte), buf_offset : 0 .. U32_MAX, source_us : Nat])
      /\ rx \in ReceiverType /\ Counts(rx) /\ Carries(rx, sent)
      /\ AssembledIntact
    BY DEF IntactInv, PathInv, CountInv, TypeOK, CountsFragments, Counts
<1>3. ASSUME NEW msg \in Messages, NEW k \in 1 .. FragmentCount(msg.length), Send(msg, k)
      PROVE  IntactInv'
    <2>1. sent' = Append(sent, msg) /\ UNCHANGED <<rx, delivered>>
        BY <1>3 DEF Send
    <2>2. \A x \in DOMAIN sent : x \in DOMAIN sent' /\ sent'[x] = sent[x]
        BY <1>2, <2>1
    <2>3. Carries(rx', sent')
        BY <1>2, <2>1, <2>2 DEF Carries
    <2>4. AssembledIntact'
        BY <1>2, <2>1, <2>2, SMTT(30) DEF AssembledIntact, Whole
    <2> QED BY <1>1, <2>3, <2>4 DEF IntactInv
<1>4. CASE SendHeartbeat
    <2>1. UNCHANGED <<rx, sent, delivered>>
        BY <1>4 DEF SendHeartbeat
    <2> QED BY <1>1, <1>2, <2>1 DEF IntactInv, AssembledIntact, Whole
<1>5. ASSUME NEW i \in DOMAIN net, Receive(i)
      PROVE  IntactInv'
    <2>1. net[i] \in OnPath(sent)
        BY <1>2, PathLemma
    <2>2. sent' = sent /\ rx' = Ingest(rx, net[i])
        BY <1>5 DEF Receive
    <2>3. /\ Carries(rx', sent)
          /\ Completes(rx, net[i]) => \E m \in DOMAIN sent : Assembled(rx') = Whole(m)
        BY <1>2, <2>1, <2>2, IngestCarries
    <2>4. AssembledIntact'
        <3>1. CASE Completes(rx, net[i])
            <4>1. delivered' = Append(delivered, Assembled(rx'))
                BY <1>5, <3>1 DEF Receive
            <4>2. \A k \in DOMAIN delivered' : k = Len(delivered') \/ (k \in DOMAIN delivered /\ delivered'[k] = delivered[k])
                <5> DEFINE one == Assembled(rx')
                <5>1. delivered' = Append(delivered, one)
                    BY <4>1
                <5> HIDE DEF one
                <5>2. Len(delivered) \in Nat /\ DOMAIN delivered = 1 .. Len(delivered)
                    BY <1>2
                <5>3. /\ Len(delivered') = Len(delivered) + 1
                      /\ DOMAIN delivered' = 1 .. Len(delivered) + 1
                      /\ \A k \in 1 .. Len(delivered) : delivered'[k] = delivered[k]
                    BY <1>2, <5>1
                <5> QED BY ONLY <5>2, <5>3
            <4>3. delivered'[Len(delivered')] = Assembled(rx')
                BY <1>2, <4>1
            <4>4. \A m \in DOMAIN sent : m \in DOMAIN sent' /\ Whole(m)' = Whole(m)
                BY <2>2 DEF Whole
            <4>5. ASSUME NEW k \in DOMAIN delivered'
                  PROVE  \E m \in DOMAIN sent : delivered'[k] = Whole(m)
                <5>1. CASE k = Len(delivered')
                    BY <2>3, <3>1, <4>3, <5>1
                <5>2. CASE k # Len(delivered')
                    BY <1>2, <4>2, <5>2 DEF AssembledIntact
                <5> QED BY <5>1, <5>2
            <4> QED BY <4>4, <4>5 DEF AssembledIntact
        <3>2. CASE ~ Completes(rx, net[i])
            <4>1. delivered' = delivered
                BY <1>5, <3>2 DEF Receive
            <4> QED BY <1>2, <2>2, <4>1 DEF AssembledIntact, Whole
        <3> QED BY <3>1, <3>2
    <2> QED BY <1>1, <2>2, <2>3, <2>4 DEF IntactInv
<1>6. ASSUME NEW i \in DOMAIN net, Lose(i)
      PROVE  IntactInv'
    <2>1. UNCHANGED <<rx, sent, delivered>>
        BY <1>6 DEF Lose
    <2> QED BY <1>1, <1>2, <2>1 DEF IntactInv, AssembledIntact, Whole
<1>7. ASSUME NEW i \in DOMAIN net, Duplicate(i)
      PROVE  IntactInv'
    <2>1. UNCHANGED <<rx, sent, delivered>>
        BY <1>7 DEF Duplicate
    <2> QED BY <1>1, <1>2, <2>1 DEF IntactInv, AssembledIntact, Whole
<1>8. CASE UNCHANGED vars
    BY <1>1, <1>2, <1>8 DEF vars, IntactInv, AssembledIntact, Whole
<1> QED BY <1>3, <1>4, <1>5, <1>6, <1>7, <1>8 DEF Next

\* With the default --datagram-size, sends that do not fail halfway and fewer
\* messages than sequence numbers, whatever the path loses, duplicates or
\* reorders, ingest() reports only whole messages of the sender
\* (protocol.rs:191, 249-340).
THEOREM Integrity ==
    ASSUME DefaultSize, FailPoints = {}, MaxMessages <= SeqMod
    PROVE  Spec => []AssembledIntact
<1>1. IntactInv => AssembledIntact
    BY DEF IntactInv
<1>2. IntactInv /\ [Next]_vars => IntactInv'
    BY IntactNext
<1> QED BY IntactInit, <1>1, <1>2, PTL DEF Spec
=============================================================================
