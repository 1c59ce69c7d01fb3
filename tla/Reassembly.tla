----------------------------- MODULE Reassembly -----------------------------
(***************************************************************************)
(* Fragmentation and reassembly of one teleport message stream: the        *)
(* Sender and Receiver of src/teleport/src/protocol.rs with the UDP path   *)
(* between them.                                                           *)
(*                                                                         *)
(* Byte j of the m-th message is the pair <<m, j>>, so a buffer shows of   *)
(* which message, and from which place in it, each of its bytes came.      *)
(***************************************************************************)
EXTENDS Integers, Sequences, FiniteSets

CONSTANTS
    Messages,                  \* what send() is given: [length, buf_offset]
    PayloadPerDatagram,        \* Sender.payload_per_datagram (--datagram-size)
    MAX_PAYLOAD_PER_DATAGRAM,  \* the receiver's compile-time stride
    MAX_FRAGMENTS,             \* the receiver's cap on fragments
    U16_MAX,                   \* the sender's cap on fragments
    U32_MAX,                   \* buf_offset of a full-map frame
    MaxPayload,                \* Receiver::new(max_payload)
    SeqMod,                    \* width of Sender.sequence: 2^32 in the code
    FailPoints,                \* send_fn may fail after this many datagrams
    Faults,                    \* what the UDP path may do
    MaxMessages,               \* bound: messages handed to send()
    MaxInFlight,               \* bound: datagrams on the path
    MaxLost,                   \* bound: datagrams lost by the path
    MaxDuplicates              \* bound: datagrams duplicated by the path

ASSUME SizesAssumption ==
    /\ PayloadPerDatagram \in Nat \ {0}
    /\ MAX_PAYLOAD_PER_DATAGRAM \in Nat \ {0}
    /\ MAX_FRAGMENTS \in Nat \ {0}
    /\ U16_MAX \in Nat \ {0}
    /\ U32_MAX \in Nat
    /\ MaxPayload \in Nat \ {0}
    /\ SeqMod \in Nat \ {0}

ASSUME MessagesAssumption ==
    Messages \subseteq [length : Nat, buf_offset : 0 .. U32_MAX]

ASSUME BoundsAssumption ==
    /\ FailPoints \subseteq Nat \ {0}
    /\ Faults \subseteq {"lose", "duplicate", "reorder"}
    /\ MaxMessages \in Nat
    /\ MaxInFlight \in Nat
    /\ MaxLost \in Nat
    /\ MaxDuplicates \in Nat

VARIABLES
    sequence,   \* Sender.sequence
    net,        \* datagrams on the path, oldest first
    rx,         \* the Receiver
    sent,       \* history: the messages handed to send(), in order
    delivered,  \* history: what ingest() returned as assembled, in order
    lost,       \* history: fragments the path lost
    duplicated  \* history: datagrams the path duplicated

vars == <<sequence, net, rx, sent, delivered, lost, duplicated>>

None == -1                      \* Option::None of current_seq
ZeroByte == <<0, 0>>            \* a byte no message wrote

-----------------------------------------------------------------------------
(* Sender *)

FragmentCount(length) == (length + PayloadPerDatagram - 1) \div PayloadPerDatagram

\* The size of fragment i of a message of that length: every fragment but
\* the last is full.
FragmentSize(length, i) ==
    IF i < FragmentCount(length) - 1
    THEN PayloadPerDatagram
    ELSE length - i * PayloadPerDatagram

\* Fragment i of message m under sequence number s: its header, and in place
\* of its payload the message and the first byte it carries.
Fragment(s, m, msg, i) ==
    [sequence     |-> s,
     fragment     |-> i,
     fragments    |-> FragmentCount(msg.length),
     payload_size |-> msg.length,
     buf_offset   |-> msg.buf_offset,
     source_us    |-> m,
     first        |-> i * PayloadPerDatagram,
     size         |-> FragmentSize(msg.length, i)]

Heartbeat ==
    [sequence     |-> 0,
     fragment     |-> 0,
     fragments    |-> 0,
     payload_size |-> 0,
     buf_offset   |-> 0,
     source_us    |-> 0,
     first        |-> 0,
     size         |-> 0]

\* Mutant: + 1.
BumpWithoutWrap(s) == s + 1

\* The sequence number after a complete message: wrapping_add(1).
Bump(s) == IF s + 1 = SeqMod THEN 0 ELSE s + 1

\* send() puts the first k of n fragments on the path. When send_fn fails the
\* `?` returns before the sequence number is bumped.
Send(msg, k) ==
    LET n == FragmentCount(msg.length)
        m == Len(sent) + 1
    IN  /\ Len(sent) < MaxMessages
        /\ n \in 1 .. U16_MAX
        /\ Len(net) + n <= MaxInFlight
        /\ k \in 1 .. n
        /\ k < n => k \in FailPoints
        /\ net' = net \o [i \in 1 .. k |-> Fragment(sequence, m, msg, i - 1)]
        /\ sequence' = IF k = n THEN Bump(sequence) ELSE sequence
        /\ sent' = Append(sent, msg)
        /\ UNCHANGED <<rx, delivered, lost, duplicated>>

\* At most one heartbeat is on the path at a time (a bound of the model).
SendHeartbeat ==
    /\ Len(net) < MaxInFlight
    /\ \A i \in DOMAIN net : net[i].fragments # 0
    /\ net' = Append(net, Heartbeat)
    /\ UNCHANGED <<sequence, rx, sent, delivered, lost, duplicated>>

-----------------------------------------------------------------------------
(* Receiver.  Each operator maps a receiver and a datagram to a receiver. *)

NewReceiver ==
    [buf                |-> [j \in 0 .. MaxPayload - 1 |-> ZeroByte],
     received           |-> {},
     current_seq        |-> None,
     total_frags        |-> 0,
     got_frags          |-> 0,
     payload_size       |-> 0,
     detected_frag_size |-> 0,
     last_source_us     |-> 0,
     dropped_sequences  |-> 0,
     last_buf_offset    |-> U32_MAX]

\* Fragment 0 carries the source-side timestamp.
Stamp(r, d) ==
    IF d.fragment = 0 THEN [r EXCEPT !.last_source_us = d.source_us] ELSE r

\* Mutant: complete sequences count as well.
AbandonedOrComplete(r) == r.got_frags > 0

Abandoned(r) == r.got_frags > 0 /\ r.got_frags < r.total_frags

\* Mutant: the largest number of fragments is one too many.
MalformedAtCap(d) == d.fragments >= MAX_FRAGMENTS \/ d.payload_size > MaxPayload

Malformed(d) == d.fragments > MAX_FRAGMENTS \/ d.payload_size > MaxPayload

\* Mutant: fragments of the sequence given up stay counted.
ResetKeepsFragments(r, d) ==
    [r EXCEPT !.current_seq = d.sequence, !.total_frags = d.fragments,
              !.payload_size = d.payload_size, !.last_buf_offset = d.buf_offset,
              !.detected_frag_size = 0]

Reset(r, d) ==
    LET dropped == r.dropped_sequences + IF Abandoned(r) THEN 1 ELSE 0
    IN  IF Malformed(d)
        THEN [r EXCEPT !.dropped_sequences = dropped,
                       !.current_seq = d.sequence,
                       !.total_frags = 0,
                       !.got_frags = 0]
        ELSE [r EXCEPT !.dropped_sequences = dropped,
                       !.current_seq = d.sequence,
                       !.total_frags = d.fragments,
                       !.got_frags = 0,
                       !.payload_size = d.payload_size,
                       !.last_buf_offset = d.buf_offset,
                       !.detected_frag_size = 0,
                       !.received = {}]

\* The receiver after the header of d was looked at.
Tune(r, d) ==
    LET s == Stamp(r, d)
    IN  IF s.current_seq = d.sequence THEN s ELSE Reset(s, d)

\* Mutant: the last fragment's size is taken, too.
DetectFromAny(r, d) ==
    IF r.detected_frag_size = 0 THEN [r EXCEPT !.detected_frag_size = d.size] ELSE r

Detect(r, d) ==
    IF d.fragment < r.total_frags - 1 /\ r.detected_frag_size = 0
    THEN [r EXCEPT !.detected_frag_size = d.size]
    ELSE r

\* Mutant: the size of the default sender.
HardcodedStride(r) == MAX_PAYLOAD_PER_DATAGRAM

Stride(r) ==
    IF r.detected_frag_size > 0 THEN r.detected_frag_size ELSE MAX_PAYLOAD_PER_DATAGRAM

\* Mutant: a fragment that is there is taken again.
IgnoredUnlessRepeated(r, d) ==
    d.fragment >= r.total_frags \/ d.size > MAX_PAYLOAD_PER_DATAGRAM

\* Out of range, a duplicate, or longer than any datagram.
Ignored(r, d) ==
    \/ d.fragment >= r.total_frags
    \/ d.fragment \in r.received
    \/ d.size > MAX_PAYLOAD_PER_DATAGRAM

\* Copy the payload to its place in the buffer, if it fits.
Place(r, d) ==
    LET dest == d.fragment * Stride(r)
    IN  IF dest + d.size > MaxPayload
        THEN r
        ELSE [r EXCEPT
                !.buf = [j \in 0 .. MaxPayload - 1 |->
                           IF dest <= j /\ j < dest + d.size
                           THEN <<d.source_us, d.first + (j - dest)>>
                           ELSE r.buf[j]],
                !.received = r.received \cup {d.fragment},
                !.got_frags = r.got_frags + 1]

\* Mutant: the message is complete one fragment short.
CompletesEarly(r, d) ==
    /\ d.fragments # 0
    /\ LET t == Tune(r, d)
       IN  ~ Ignored(t, d) /\ Place(Detect(t, d), d).got_frags + 1 >= t.total_frags

\* Whether d, once placed, completes the message.
Completes(r, d) ==
    /\ d.fragments # 0
    /\ LET t == Tune(r, d)
       IN  /\ ~ Ignored(t, d)
           /\ LET p == Place(Detect(t, d), d)
              IN  d.fragment \in p.received /\ p.got_frags = p.total_frags

Ingest(r, d) ==
    IF d.fragments = 0
    THEN r
    ELSE LET t == Tune(r, d)
         IN  IF Ignored(t, d)
             THEN t
             ELSE LET p == Place(Detect(t, d), d)
                  IN  IF Completes(r, d) THEN [p EXCEPT !.current_seq = None] ELSE p

\* What the caller sees of a completed message.
Assembled(r) ==
    [bytes      |-> [j \in 1 .. r.payload_size |-> r.buf[j - 1]],
     buf_offset |-> r.last_buf_offset,
     source_us  |-> r.last_source_us]

\* recv_from and ingest().  Left out: the target's buffer of 9000 bytes
\* (target.rs:143, 188), so this is a target's only if no datagram is longer.
Receive(i) ==
    /\ i = 1 \/ "reorder" \in Faults
    /\ rx' = Ingest(rx, net[i])
    /\ delivered' = IF Completes(rx, net[i]) THEN Append(delivered, Assembled(rx')) ELSE delivered
    /\ net' = SubSeq(net, 1, i - 1) \o SubSeq(net, i + 1, Len(net))
    /\ UNCHANGED <<sequence, sent, lost, duplicated>>

-----------------------------------------------------------------------------
(* The UDP path *)

Lose(i) ==
    /\ "lose" \in Faults
    /\ lost < MaxLost
    /\ net' = SubSeq(net, 1, i - 1) \o SubSeq(net, i + 1, Len(net))
    /\ lost' = lost + IF net[i].fragments = 0 THEN 0 ELSE 1
    /\ UNCHANGED <<sequence, rx, sent, delivered, duplicated>>

Duplicate(i) ==
    /\ "duplicate" \in Faults
    /\ duplicated < MaxDuplicates
    /\ Len(net) < MaxInFlight
    /\ net' = SubSeq(net, 1, i) \o SubSeq(net, i, Len(net))
    /\ duplicated' = duplicated + 1
    /\ UNCHANGED <<sequence, rx, sent, delivered, lost>>

-----------------------------------------------------------------------------

Init ==
    /\ sequence = 0
    /\ net = <<>>
    /\ rx = NewReceiver
    /\ sent = <<>>
    /\ delivered = <<>>
    /\ lost = 0
    /\ duplicated = 0

Next ==
    \/ \E msg \in Messages : \E k \in 1 .. FragmentCount(msg.length) : Send(msg, k)
    \/ SendHeartbeat
    \/ \E i \in DOMAIN net : Receive(i) \/ Lose(i) \/ Duplicate(i)

Spec == Init /\ [][Next]_vars

HeadLeaves == net # <<>> /\ net' = Tail(net)

\* The target calls recv and ingest in an endless loop (target.rs:178-191),
\* so a datagram on the path does not stay there: it is ingested or lost.
FairSpec == Spec /\ WF_net(HeadLeaves)

-----------------------------------------------------------------------------
(* Properties *)

Whole(m) ==
    [bytes      |-> [j \in 1 .. sent[m].length |-> <<m, j - 1>>],
     buf_offset |-> sent[m].buf_offset,
     source_us  |-> m]

Byte == Nat \X Nat

Datagram ==
    [sequence : 0 .. SeqMod - 1, fragment : Nat, fragments : Nat,
     payload_size : Nat, buf_offset : 0 .. U32_MAX,
     source_us : Nat, first : Nat, size : Nat]

ReceiverType ==
    [buf : [0 .. MaxPayload - 1 -> Byte],
     received : SUBSET (0 .. MAX_FRAGMENTS - 1),
     current_seq : {None} \cup 0 .. SeqMod - 1,
     total_frags : 0 .. MAX_FRAGMENTS,
     got_frags : 0 .. MAX_FRAGMENTS,
     payload_size : 0 .. MaxPayload,
     detected_frag_size : 0 .. MAX_PAYLOAD_PER_DATAGRAM,
     last_source_us : Nat,
     dropped_sequences : Nat,
     last_buf_offset : 0 .. U32_MAX]

\* The types of the variables.  Two facts in it are not declarations of the
\* code: the buffer never grows past max_payload, and payload_size, which
\* slices it, never exceeds it.
TypeOK ==
    /\ sequence \in 0 .. SeqMod - 1
    /\ net \in Seq(Datagram)
    /\ rx \in ReceiverType
    /\ sent \in Seq(Messages)
    /\ delivered \in Seq([bytes : Seq(Byte), buf_offset : 0 .. U32_MAX, source_us : Nat])
    /\ lost \in Nat
    /\ duplicated \in Nat

\* Whatever ingest() reports as assembled is exactly one message handed to
\* send(): all of its bytes, each in its place, under its own buf_offset and
\* with its own latency stamp (protocol.rs:191, 325-333).
AssembledIntact ==
    \A k \in DOMAIN delivered : \E m \in DOMAIN sent : delivered[k] = Whole(m)

\* got_frags counts the distinct fragments of the sequence being assembled,
\* and reaches total_frags only in the step that closes the sequence, so no
\* sequence stays open when all of it is there (protocol.rs:285-333).
CountsFragments ==
    rx.current_seq # None /\ rx.total_frags > 0 =>
        /\ rx.got_frags = Cardinality(rx.received)
        /\ rx.received \subseteq 0 .. rx.total_frags - 1
        /\ rx.got_frags < rx.total_frags

\* On a path that keeps the order and does not duplicate, a dropped sequence
\* is explained by a lost datagram of its own (protocol.rs:220-222).
DroppedExplained == rx.dropped_sequences <= lost

\* No message is delivered twice (README.md:176-177).
NoDoubleDelivery ==
    \A i, j \in DOMAIN delivered : delivered[i].source_us = delivered[j].source_us => i = j

\* A message that ingest() does not discard for its size.
Deliverable(msg) == FragmentCount(msg.length) <= MAX_FRAGMENTS /\ msg.length <= MaxPayload

OnTheWay(m) == \E i \in DOMAIN net : net[i].fragments # 0 /\ net[i].source_us = m

Arrived(m) == \E k \in DOMAIN delivered : delivered[k].source_us = m

\* On a path that keeps the order, a lost datagram costs the message it is of
\* and no other, and so does a message the receiver discards for its size:
\* what was sent and is no longer on its way has come out of ingest(), but for
\* at most as many messages as datagrams were lost (protocol.rs:275-372).
LossCostsOneMessage ==
    Cardinality({m \in DOMAIN sent :
                    Deliverable(sent[m]) /\ ~ OnTheWay(m) /\ ~ Arrived(m)}) <= lost

\* On a path that keeps the order and loses nothing, each message handed to
\* send() that is not too long comes out of ingest(), also when the sequence
\* number wraps (protocol.rs:572-574); AssembledIntact says that it comes out whole.
EventuallyDelivered ==
    \A m \in 1 .. MaxMessages :
        (m <= Len(sent) /\ Deliverable(sent[m])) ~> (lost > 0 \/ Arrived(m))

\* The promise Reassembly keeps to its callers on an order-preserving path.
Channel == INSTANCE MessageChannel WITH
    submitted <- sent,
    arrived   <- [k \in DOMAIN delivered |-> delivered[k].source_us]

RefinesMessageChannel == Channel!Spec
=============================================================================
