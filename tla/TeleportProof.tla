---------------------------- MODULE TeleportProof ----------------------------
(***************************************************************************)
(* Theorems about Teleport, for all values of its constants.               *)
(***************************************************************************)
EXTENDS Teleport, TLAPS

-----------------------------------------------------------------------------
(* Messages, requests and sequences of them *)

\* What the kind of a message says of its other fields.
LEMMA MessageKinds ==
    ASSUME NEW m \in Message
    PROVE  /\ m.kind = "partial" => m \in PartialFrame
           /\ m.kind = "full" => m.session \in Sessions
<1>1. CASE m = Heartbeat
  BY <1>1 DEF Heartbeat
<1>2. CASE m = LeadFragment
  BY <1>2 DEF LeadFragment
<1>3. CASE m \in {SessionInfo(s) : s \in Sessions}
  BY <1>3 DEF SessionInfo
<1>4. CASE m \in PartialFrame
  BY <1>4 DEF PartialFrame
<1> QED
  BY <1>1, <1>2, <1>3, <1>4 DEF Message

LEMMA XorType ==
    ASSUME NEW a \in SUBSET Bits, NEW b \in SUBSET Bits
    PROVE  Xor(a, b) \in SUBSET Bits
  BY DEF Xor

\* XOR with the same payload twice gives back the payload.
LEMMA XorTwice ==
    ASSUME NEW a, NEW b
    PROVE  Xor(Xor(a, b), b) = a
  BY DEF Xor

LEMMA HeadTail ==
    ASSUME NEW S, NEW q \in Seq(S), q # <<>>
    PROVE  Head(q) \in S /\ Tail(q) \in Seq(S)
  OBVIOUS

LEMMA ConstantMessages ==
    Heartbeat \in Message /\ LeadFragment \in Message
  BY DEF Message

-----------------------------------------------------------------------------
(* Types *)

\* What the proofs use of the assumptions on the constants.
LEMMA ConstantTypes ==
    /\ Ticks \subseteq Nat /\ 0 \in Ticks
    /\ Sessions \subseteq Nat /\ 0 \in Sessions
    /\ no_delta \in BOOLEAN
    /\ keyframe_interval \in Nat
    /\ CounterMod \in Nat /\ CounterMod > 0
    /\ MaxFaults \in Nat
  BY SourceAssumption, WireAssumption

LEMMA PayloadType ==
    ASSUME NEW t \in Ticks, NEW s \in Sessions
    PROVE  Payload(t, s) \in SUBSET Bits
  BY SourceAssumption

LEMMA InitTypes == Init => TypeOK
<1> SUFFICES ASSUME Init PROVE TypeOK
  OBVIOUS
<1>1. WireTypeOK
  BY DEF Init, WireTypeOK
<1>2. SourceTypeOK
  <2>1. sim_up \in BOOLEAN /\ tick \in Ticks /\ session \in Sessions
    BY ConstantTypes DEF Init, SourceInit
  <2>2. tick_counter \in 0 .. CounterMod - 1 /\ faults \in 0 .. MaxFaults
    BY ConstantTypes DEF Init, SourceInit
  <2>4. deltas \in 0 .. keyframe_interval
    BY ConstantTypes DEF Init, SourceInit
  <2>3. source_prev \in SUBSET Bits
    BY DEF Init, SourceInit, Zeros
  <2> QED
    BY <2>1, <2>2, <2>3, <2>4 DEF Init, SourceInit, SourceTypeOK
<1>3. TargetTypeOK
  BY DEF Init, TargetInit, TargetTypeOK, Zeros
<1> QED
  BY <1>1, <1>2, <1>3 DEF TypeOK

\* Poll() takes a request or leaves the queue as it is.
LEMMA PollTypes ==
    ASSUME WireTypeOK, NEW pending \in BOOLEAN, NEW supports \in BOOLEAN,
           Poll(pending, supports)
    PROVE  /\ pending_resync' \in BOOLEAN
           /\ target_supports_delta' \in BOOLEAN
           /\ back' \in Seq(Request)
<1>1. CASE back = <<>>
  BY <1>1 DEF Poll, WireTypeOK
<1>2. CASE back # <<>>
  <2>1. Tail(back) \in Seq(Request)
    BY <1>2, HeadTail DEF WireTypeOK
  <2> QED
    BY <1>2, <2>1 DEF Poll
<1> QED
  BY <1>1, <1>2

\* A send puts its messages on the path or none of them.
LEMMA TransmitTypes ==
    ASSUME WireTypeOK, faults \in 0 .. MaxFaults, NEW ms \in Seq(Message), NEW gone \in BOOLEAN,
           Transmit(ms, gone)
    PROVE  wire' \in Seq(Message) /\ faults' \in 0 .. MaxFaults
<1>1. CASE gone = FALSE /\ wire' = wire \o ms /\ faults' = faults
  BY <1>1 DEF WireTypeOK
<1>2. CASE gone = TRUE /\ Fault("sendfail") /\ wire' = wire
  BY <1>2, ConstantTypes DEF Fault, WireTypeOK
<1> QED
  BY <1>1, <1>2 DEF Transmit

LEMMA FaultTypes ==
    ASSUME faults \in 0 .. MaxFaults, NEW f, Fault(f)
    PROVE  faults' \in 0 .. MaxFaults
  BY ConstantTypes DEF Fault

\* The simulator's steps leave both processes and the path alone.
LEMMA SimTypes ==
    ASSUME TypeOK, SimNext
    PROVE  WireTypeOK' /\ SourceTypeOK'
<1> USE ConstantTypes DEF TypeOK, WireTypeOK, SourceTypeOK, simVars, sourceVars, sendVars, loopVars
<1>1. CASE SimTick
  BY <1>1 DEF SimTick, NextTick
<1>2. CASE SimSignal
  BY <1>2 DEF SimSignal
<1>3. CASE SimSession
  BY <1>3 DEF SimSession, NextSession
<1>4. CASE SimStop
  BY <1>4, FaultTypes DEF SimStop
<1>5. CASE SimStart
  BY <1>5 DEF SimStart
<1> QED
  BY <1>1, <1>2, <1>3, <1>4, <1>5 DEF SimNext

\* The frame SrcSendPartial encodes is a message.
LEMMA PartialIsMessage ==
    ASSUME SourceTypeOK
    PROVE  Partial(UseDelta, Payload(tick, session), source_prev, session, unsent) \in Message
<1> DEFINE cur == Payload(tick, session)
<1>1. cur \in SUBSET Bits
  BY PayloadType DEF SourceTypeOK
<1>2. UseDelta \in BOOLEAN
  BY DEF UseDelta
<1>3. (IF UseDelta THEN Xor(cur, source_prev) ELSE cur) \in SUBSET Bits
  BY <1>1, XorType DEF SourceTypeOK
<1>4. unsent \in BOOLEAN /\ session \in Sessions
  BY DEF SourceTypeOK
<1> HIDE DEF cur
<1> QED
  BY <1>1, <1>2, <1>3, <1>4 DEF Partial, PartialFrame, Message, cur

\* The source's steps.
LEMMA SourceStepTypes ==
    ASSUME TypeOK, SourceLoop \/ SrcRestart \/ FullDue
    PROVE  WireTypeOK' /\ SourceTypeOK'
<1> USE DEF simVars, sourceVars, sendVars, loopVars
<1>t. WireTypeOK /\ SourceTypeOK
  BY DEF TypeOK
<1>1. CASE SrcOpen
  BY <1>1, <1>t DEF SrcOpen, WireTypeOK, SourceTypeOK
<1>2. CASE SrcIdle
  <2>1. /\ pending_resync' \in BOOLEAN
        /\ target_supports_delta' \in BOOLEAN
        /\ back' \in Seq(Request)
    BY <1>2, <1>t, PollTypes DEF SrcIdle, SourceTypeOK
  <2>2. wire' \in Seq(Message)
    <3>1. PICK heartbeat \in BOOLEAN :
             IF heartbeat THEN Len(wire) < MaxWire /\ wire' = Append(wire, Heartbeat)
                          ELSE wire' = wire
      BY <1>2 DEF SrcIdle
    <3> QED
      BY <3>1, <1>t, ConstantMessages DEF WireTypeOK
  <2>3. /\ phase' \in {"opening", "running", "reopening"}
        /\ got_data' \in BOOLEAN
        /\ last_session_update' \in Sessions \cup {NoSession}
        /\ full_due' \in BOOLEAN
        /\ tick_counter' \in 0 .. CounterMod - 1
        /\ last_tick' \in Ticks \cup {NoTick}
    <3>1. \/ /\ phase' = "reopening" /\ got_data' = FALSE
             /\ last_session_update' = NoSession /\ full_due' = TRUE
             /\ tick_counter' = 0 /\ last_tick' = NoTick
          \/ UNCHANGED <<phase, got_data, last_session_update, full_due, tick_counter,
                         last_tick>>
      BY <1>2 DEF SrcIdle
    <3>2. 0 \in 0 .. CounterMod - 1
      BY ConstantTypes
    <3> QED
      BY <3>1, <3>2, <1>t DEF SourceTypeOK
  <2>4. UNCHANGED <<sim_up, tick, session, signal, source_prev, unsent, deltas, faults>>
    BY <1>2 DEF SrcIdle
  <2> QED
    BY <2>1, <2>2, <2>3, <2>4, <1>t DEF WireTypeOK, SourceTypeOK
<1>3. CASE SrcSendFull
  <2>1. /\ pending_resync' \in BOOLEAN
        /\ target_supports_delta' \in BOOLEAN
        /\ back' \in Seq(Request)
    BY <1>3, <1>t, PollTypes DEF SrcSendFull, SourceTypeOK
  <2>2. wire' \in Seq(Message) /\ faults' \in 0 .. MaxFaults
    <3> DEFINE ms == IF LeadFragments = 1 THEN <<LeadFragment, SessionInfo(session)>>
                                          ELSE <<SessionInfo(session)>>
    <3>1. PICK gone \in BOOLEAN : Transmit(ms, gone)
      BY <1>3 DEF SrcSendFull
    <3>2. SessionInfo(session) \in Message
      BY <1>t DEF Message, SourceTypeOK
    <3>3. ms \in Seq(Message)
      BY <3>2, ConstantMessages
    <3> HIDE DEF ms
    <3> QED
      BY <3>1, <3>3, <1>t, TransmitTypes DEF SourceTypeOK
  <2>3. /\ tick_counter' \in 0 .. CounterMod - 1
        /\ last_tick' \in Ticks \cup {NoTick}
        /\ last_session_update' \in Sessions \cup {NoSession}
    BY <1>3, <1>t, ConstantTypes DEF SrcSendFull, SourceTypeOK
  <2> QED
    BY <2>1, <2>2, <2>3, <1>3, <1>t DEF SrcSendFull, Woken, WireTypeOK, SourceTypeOK
<1>4. CASE SrcSendPartial
  <2> DEFINE cur == Payload(tick, session)
             frame == Partial(UseDelta, cur, source_prev, session, unsent)
  <2>1. /\ pending_resync' \in BOOLEAN
        /\ target_supports_delta' \in BOOLEAN
        /\ back' \in Seq(Request)
    BY <1>4, <1>t, PollTypes DEF SrcSendPartial, SourceTypeOK
  <2>2. cur \in SUBSET Bits
    BY <1>t, PayloadType DEF SourceTypeOK
  <2>4. frame \in Message
    BY <1>t, PartialIsMessage
  <2>5. /\ wire' \in Seq(Message)
        /\ faults' \in 0 .. MaxFaults
        /\ unsent' \in BOOLEAN
    <3>1. PICK gone \in BOOLEAN : Transmit(<<frame>>, gone) /\ unsent' = gone
      BY <1>4 DEF SrcSendPartial
    <3>2. <<frame>> \in Seq(Message)
      BY <2>4
    <3> HIDE DEF frame
    <3> QED
      BY <3>1, <3>2, <1>t, TransmitTypes DEF SourceTypeOK
  <2>6. tick_counter' \in 0 .. CounterMod - 1
    BY <1>4, <1>t, ConstantTypes DEF SrcSendPartial, CountTick, SourceTypeOK
  <2>7. deltas' \in 0 .. keyframe_interval
    BY <1>4, <1>t, ConstantTypes DEF SrcSendPartial, SourceTypeOK
  <2>8. last_tick' \in Ticks \cup {NoTick} /\ source_prev' \in SUBSET Bits
    BY <1>4, <1>t, <2>2 DEF SrcSendPartial, SourceTypeOK
  <2> HIDE DEF cur, frame
  <2> QED
    BY <2>1, <2>5, <2>6, <2>7, <2>8, <1>4, <1>t
    DEF SrcSendPartial, Woken, WireTypeOK, SourceTypeOK
<1>5. CASE SrcTorn
  <2>1. NextTick(tick) \in Ticks
    BY <1>t, ConstantTypes DEF NextTick, SourceTypeOK
  <2> QED
    BY <2>1, <1>5, <1>t, FaultTypes DEF SrcTorn, Woken, Skip, WireTypeOK, SourceTypeOK
<1>6. CASE SrcDuplicateTick
  BY <1>6, <1>t DEF SrcDuplicateTick, Woken, Skip, WireTypeOK, SourceTypeOK
<1>7. CASE SrcRestart
  <2>1. /\ tick_counter' \in 0 .. CounterMod - 1
        /\ deltas' \in 0 .. keyframe_interval
        /\ source_prev' \in SUBSET Bits
        /\ back' \in Seq(Request)
        /\ signal' \in BOOLEAN
    BY <1>7, <1>t, ConstantTypes DEF SrcRestart, Zeros, SourceTypeOK
  <2> QED
    BY <2>1, <1>7, <1>t, FaultTypes DEF SrcRestart, WireTypeOK, SourceTypeOK
<1>8. CASE FullDue
  BY <1>8, <1>t DEF FullDue, WireTypeOK, SourceTypeOK
<1> QED
  BY <1>1, <1>2, <1>3, <1>4, <1>5, <1>6, <1>7, <1>8 DEF SourceLoop

\* A message is taken off the path.
LEMMA ArrivesTypes ==
    ASSUME WireTypeOK, NEW kind, Arrives(kind)
    PROVE  /\ wire # <<>> /\ wire' = Tail(wire) /\ wire' \in Seq(Message)
           /\ Head(wire) \in Message /\ Head(wire).kind = kind
  BY HeadTail DEF Arrives, WireTypeOK

LEMMA AskTypes ==
    ASSUME WireTypeOK, resync_due \in BOOLEAN, NEW full \in BOOLEAN, AskForFull(full)
    PROVE  back' \in Seq(Request) /\ resync_due' \in BOOLEAN
<1>1. Append(back, "delta") \in Seq(Request)
  BY DEF WireTypeOK, Request
<1>2. CASE ~ full /\ resync_due
  BY <1>1, <1>2 DEF AskForFull, WireTypeOK
<1>3. CASE full \/ ~ resync_due
  BY <1>3 DEF AskForFull, WireTypeOK
<1> QED
  BY <1>2, <1>3

\* The map a frame is written to, and its fields once a frame is.
LEMMA OpenMapType ==
    ASSUME TargetTypeOK
    PROVE  OpenMap \in MapType
<1>1. FreshMap \in MapType
  BY DEF FreshMap, Map, MapType, Zeros
<1>2. CASE map = NoMap
  BY <1>1, <1>2 DEF OpenMap, NoMap
<1>3. CASE map \in MapType
  BY <1>3 DEF OpenMap, MapType
<1> QED
  BY <1>2, <1>3 DEF TargetTypeOK

LEMMA DecodedType ==
    ASSUME NEW m \in PartialFrame, target_prev \in SUBSET Bits
    PROVE  Decoded(m) \in SUBSET Bits
<1>1. m.data \in SUBSET Bits /\ m.delta \in BOOLEAN
  BY DEF PartialFrame
<1> QED
  BY <1>1, XorType DEF Decoded

\* The target's steps.
LEMMA TargetStepTypes ==
    ASSUME TypeOK, TargetNext
    PROVE  /\ TargetTypeOK'
           /\ wire' \in Seq(Message)
           /\ back' \in Seq(Request)
<1>t. WireTypeOK /\ TargetTypeOK
  BY DEF TypeOK
<1>b. resync_due \in BOOLEAN /\ has_full_frame \in BOOLEAN /\ TRUE \in BOOLEAN /\ FALSE \in BOOLEAN
  BY <1>t DEF TargetTypeOK
<1>1. CASE TgtHeartbeat
  <2>1. Arrives("heartbeat") /\ AskForFull(has_full_frame)
    BY <1>1 DEF TgtHeartbeat
  <2>2. UNCHANGED <<map, has_full_frame, target_prev, first_data_called, fanalab_stub, chain>>
    BY <1>1 DEF TgtHeartbeat
  <2> QED
    BY <2>1, <2>2, <1>t, <1>b, ArrivesTypes, AskTypes DEF TargetTypeOK
<1>2. CASE TgtFragment
  <2>1. Arrives("fragment") /\ AskForFull(has_full_frame)
    BY <1>2 DEF TgtFragment
  <2>2. UNCHANGED <<map, has_full_frame, target_prev, first_data_called, fanalab_stub, chain>>
    BY <1>2 DEF TgtFragment
  <2> QED
    BY <2>1, <2>2, <1>t, <1>b, ArrivesTypes, AskTypes DEF TargetTypeOK
<1>3. CASE TgtFull
  <2>1. Arrives("full") /\ AskForFull(TRUE)
    BY <1>3 DEF TgtFull
  <2>2. Head(wire).session \in Sessions
    BY <2>1, <1>t, ArrivesTypes, MessageKinds
  <2>3. map' \in MapType
    BY <2>2, <1>3, <1>t, OpenMapType DEF TgtFull, MapType
  <2>4. target_prev' \in SUBSET Bits
    BY <1>3 DEF TgtFull, Zeros
  <2>5. /\ has_full_frame' \in BOOLEAN /\ first_data_called' \in BOOLEAN
        /\ fanalab_stub' \in BOOLEAN /\ chain' \in BOOLEAN
    BY <1>3, <1>t DEF TgtFull, TargetTypeOK
  <2> QED
    BY <2>1, <2>3, <2>4, <2>5, <1>t, <1>b, ArrivesTypes, AskTypes DEF TargetTypeOK
<1>4. CASE TgtPartial
  <2>1. Arrives("partial") /\ AskForFull(TRUE)
    BY <1>4 DEF TgtPartial
  <2>2. Head(wire) \in PartialFrame
    BY <2>1, <1>t, ArrivesTypes, MessageKinds
  <2>3. /\ Head(wire).cur \in SUBSET Bits /\ Head(wire).session \in Sessions
        /\ Head(wire).delta \in BOOLEAN /\ Head(wire).gap \in BOOLEAN
    BY <2>2 DEF PartialFrame
  <2>4. Decoded(Head(wire)) \in SUBSET Bits
    BY <2>2, <1>t, DecodedType DEF TargetTypeOK
  <2>5. map' \in MapType
    BY <2>3, <2>4, <1>4, <1>t, OpenMapType DEF TgtPartial, MapType
  <2>6. /\ target_prev' \in SUBSET Bits /\ chain' \in BOOLEAN
        /\ has_full_frame' \in BOOLEAN /\ first_data_called' \in BOOLEAN
        /\ fanalab_stub' \in BOOLEAN
    BY <2>3, <2>4, <1>4, <1>t DEF TgtPartial, TargetTypeOK
  <2> QED
    BY <2>1, <2>5, <2>6, <1>t, <1>b, ArrivesTypes, AskTypes DEF TargetTypeOK
<1>5. CASE TgtPartialTooEarly
  <2>1. Arrives("partial") /\ AskForFull(FALSE)
    BY <1>5 DEF TgtPartialTooEarly
  <2>2. map' \in MapType
    BY <1>5, <1>t, OpenMapType DEF TgtPartialTooEarly
  <2>3. /\ UNCHANGED <<has_full_frame, target_prev, first_data_called, fanalab_stub>>
        /\ chain' = FALSE
    BY <1>5 DEF TgtPartialTooEarly
  <2> QED
    BY <2>1, <2>2, <2>3, <1>t, <1>b, ArrivesTypes, AskTypes DEF TargetTypeOK
<1>6. CASE TgtGarbled
  <2>1. Arrives("full") \/ Arrives("partial")
    BY <1>6 DEF TgtGarbled
  <2>2. map' \in MapType
    BY <1>6, <1>t, OpenMapType DEF TgtGarbled
  <2>3. /\ UNCHANGED <<has_full_frame, target_prev, first_data_called, fanalab_stub,
                       resync_due, back>>
        /\ chain' \in BOOLEAN
    BY <1>6, <1>t DEF TgtGarbled, TargetTypeOK
  <2> QED
    BY <2>1, <2>2, <2>3, <1>t, ArrivesTypes DEF TargetTypeOK, WireTypeOK
<1>7. CASE TgtStale
  BY <1>7, <1>t DEF TgtStale, Zeros, TargetTypeOK, WireTypeOK
<1>8. CASE TgtRestart
  BY <1>8, <1>t DEF TgtRestart, Reset, Zeros, TargetTypeOK, WireTypeOK
<1>9. CASE ResyncDue
  BY <1>9, <1>t DEF ResyncDue, TargetTypeOK, WireTypeOK
<1> QED
  BY <1>1, <1>2, <1>3, <1>4, <1>5, <1>6, <1>7, <1>8, <1>9 DEF TargetNext, TargetReceives

-----------------------------------------------------------------------------
(* What the messages on the path are to one another                         *)

\* Messages that change the target's prev_varbuf.
Chained(m) == m.kind \in {"partial", "full"}

\* p is what the target's prev_varbuf will be when message j of the path w is
\* due, if its chain, now c with prev_varbuf p0, is unbroken then.
Follows(w, c, p0, j, p) ==
    \/ \E i \in 1 .. j - 1 :
          /\ w[i].kind = "partial" /\ w[i].cur = p
          /\ \A k \in i + 1 .. j - 1 : ~ Chained(w[k])
    \/ /\ \A k \in 1 .. j - 1 : ~ Chained(w[k])
       /\ c => p0 = p

\* Every delta frame can be undone where it arrives.
Undoes(w, c, p0, j, m) ==
    m.kind = "partial" /\ m.delta /\ ~ m.gap =>
        \E p \in SUBSET Bits : m.data = Xor(m.cur, p) /\ Follows(w, c, p0, j, p)

Linked(w, c, p0) == \A j \in 1 .. Len(w) : Undoes(w, c, p0, j, w[j])

\* A frame that is no delta is the payload.
Plain(m) == m.kind = "partial" /\ ~ m.delta => m.data = m.cur

Keyed(w) == \A j \in 1 .. Len(w) : Plain(w[j])

\* The first fragment of a session-info frame is ahead of the last.
LeadsFull(w) ==
    \A i \in 1 .. Len(w) : w[i].kind = "fragment" => i < Len(w) /\ w[i + 1].kind = "full"

\* The source's prev_varbuf is what the target's will be, unless the next
\* frame is a keyframe or says that one is missing.
SourceLinked ==
    tick_counter # 0 /\ ~ unsent =>
        Follows(wire, chain, target_prev, Len(wire) + 1, source_prev)

LEMMA ZeroIsKeyframe ==
    ASSUME NEW k \in Nat, k > 0
    PROVE  0 % k = 0
  OBVIOUS

LEMMA AppendItems ==
    ASSUME NEW S, NEW w \in Seq(S), NEW m \in S
    PROVE  /\ Append(w, m) \in Seq(S)
           /\ Len(Append(w, m)) = Len(w) + 1
           /\ \A k \in 1 .. Len(w) : Append(w, m)[k] = w[k]
           /\ Append(w, m)[Len(w) + 1] = m
           /\ w \o <<m>> = Append(w, m)
  OBVIOUS

LEMMA TailItems ==
    ASSUME NEW S, NEW w \in Seq(S), w # <<>>
    PROVE  /\ Tail(w) \in Seq(S)
           /\ Len(w) \in Nat /\ Len(w) > 0
           /\ Len(Tail(w)) = Len(w) - 1
           /\ \A k \in 1 .. Len(w) - 1 : Tail(w)[k] = w[k + 1]
           /\ Head(w) = w[1] /\ Head(w) \in S
  OBVIOUS

LEMMA AppendTwo ==
    ASSUME NEW S, NEW w \in Seq(S), NEW a \in S, NEW b \in S
    PROVE  w \o <<a, b>> = Append(Append(w, a), b)
  OBVIOUS

\* Sending and receiving keep LeadsFull and Keyed.
LEMMA LeadsAppend ==
    ASSUME NEW w \in Seq(Message), LeadsFull(w), NEW m \in Message, m.kind # "fragment"
    PROVE  LeadsFull(Append(w, m))
<1> SUFFICES ASSUME NEW i \in 1 .. Len(w) + 1, Append(w, m)[i].kind = "fragment"
             PROVE  i < Len(w) + 1 /\ Append(w, m)[i + 1].kind = "full"
  BY AppendItems DEF LeadsFull
<1>1. i \in 1 .. Len(w) /\ w[i].kind = "fragment"
  BY AppendItems
<1>2. i < Len(w) /\ w[i + 1].kind = "full"
  BY <1>1 DEF LeadsFull
<1> QED
  BY <1>1, <1>2, AppendItems

LEMMA LeadsPair ==
    ASSUME NEW w \in Seq(Message), LeadsFull(w), NEW a \in Message, NEW b \in Message,
           b.kind = "full"
    PROVE  LeadsFull(Append(Append(w, a), b))
<1> DEFINE v == Append(w, a)
<1>v. /\ v \in Seq(Message) /\ Len(v) = Len(w) + 1 /\ Len(w) \in Nat
      /\ \A k \in 1 .. Len(w) : v[k] = w[k]
  BY AppendItems
<1> HIDE DEF v
<1> SUFFICES ASSUME NEW i \in 1 .. Len(v) + 1, Append(v, b)[i].kind = "fragment"
             PROVE  i < Len(v) + 1 /\ Append(v, b)[i + 1].kind = "full"
  BY <1>v, AppendItems DEF LeadsFull, v
<1>1. i # Len(v) + 1
  BY <1>v, AppendItems
<1>2. CASE i = Len(v)
  BY <1>2, <1>v, AppendItems
<1>3. CASE i \in 1 .. Len(w)
  <2>1. w[i].kind = "fragment"
    BY <1>3, <1>v, AppendItems
  <2>2. i < Len(w) /\ w[i + 1].kind = "full"
    BY <2>1, <1>3 DEF LeadsFull
  <2> QED
    BY <2>2, <1>v, <1>3, AppendItems
<1> QED
  BY <1>1, <1>2, <1>3, <1>v

LEMMA LeadsTail ==
    ASSUME NEW w \in Seq(Message), w # <<>>, LeadsFull(w)
    PROVE  LeadsFull(Tail(w))
<1> SUFFICES ASSUME NEW i \in 1 .. Len(w) - 1, Tail(w)[i].kind = "fragment"
             PROVE  i < Len(w) - 1 /\ Tail(w)[i + 1].kind = "full"
  BY TailItems DEF LeadsFull
<1>1. i + 1 \in 1 .. Len(w) /\ w[i + 1].kind = "fragment"
  BY TailItems
<1>2. i + 1 < Len(w) /\ w[(i + 1) + 1].kind = "full"
  BY <1>1 DEF LeadsFull
<1> QED
  BY <1>2, TailItems

LEMMA KeyedKept ==
    ASSUME NEW w \in Seq(Message), Keyed(w)
    PROVE  /\ w # <<>> => Keyed(Tail(w))
           /\ \A m \in Message : Plain(m) => Keyed(Append(w, m))
<1>1. ASSUME w # <<>> PROVE Keyed(Tail(w))
  <2> SUFFICES ASSUME NEW j \in 1 .. Len(w) - 1 PROVE Plain(Tail(w)[j])
    BY <1>1, TailItems DEF Keyed
  <2> QED
    BY <1>1, TailItems DEF Keyed
<1>2. ASSUME NEW m \in Message, Plain(m) PROVE Keyed(Append(w, m))
  BY <1>2, AppendItems DEF Keyed
<1> QED
  BY <1>1, <1>2

\* Follows looks at the messages before j only.
LEMMA FollowsAppend ==
    ASSUME NEW w \in Seq(Message), NEW m \in Message, NEW c, NEW p0, NEW p,
           NEW j \in 1 .. Len(w) + 1, Follows(w, c, p0, j, p)
    PROVE  Follows(Append(w, m), c, p0, j, p)
<1>1. Len(w) \in Nat /\ \A k \in 1 .. j - 1 : k \in 1 .. Len(w) /\ Append(w, m)[k] = w[k]
  BY AppendItems
<1>2. CASE \E i \in 1 .. j - 1 :
              /\ w[i].kind = "partial" /\ w[i].cur = p
              /\ \A k \in i + 1 .. j - 1 : ~ Chained(w[k])
  <2>1. PICK i \in 1 .. j - 1 :
              /\ w[i].kind = "partial" /\ w[i].cur = p
              /\ \A k \in i + 1 .. j - 1 : ~ Chained(w[k])
    BY <1>2
  <2>2. \A k \in i + 1 .. j - 1 : k \in 1 .. j - 1
    OBVIOUS
  <2> QED
    BY <2>1, <2>2, <1>1 DEF Follows
<1>3. CASE (\A k \in 1 .. j - 1 : ~ Chained(w[k])) /\ (c => p0 = p)
  BY <1>1, <1>3 DEF Follows
<1> QED
  BY <1>2, <1>3 DEF Follows

\* A message the target's prev_varbuf ignores changes nothing.
LEMMA FollowsQuiet ==
    ASSUME NEW w \in Seq(Message), NEW m \in Message, ~ Chained(m), NEW c, NEW p0, NEW p,
           Follows(w, c, p0, Len(w) + 1, p)
    PROVE  Follows(Append(w, m), c, p0, Len(w) + 2, p)
<1>1. /\ Len(w) \in Nat
      /\ Append(w, m)[Len(w) + 1] = m
      /\ \A k \in 1 .. Len(w) : Append(w, m)[k] = w[k]
  BY AppendItems
<1>2. CASE \E i \in 1 .. Len(w) :
              /\ w[i].kind = "partial" /\ w[i].cur = p
              /\ \A k \in i + 1 .. Len(w) : ~ Chained(w[k])
  <2>1. PICK i \in 1 .. Len(w) :
              /\ w[i].kind = "partial" /\ w[i].cur = p
              /\ \A k \in i + 1 .. Len(w) : ~ Chained(w[k])
    BY <1>2
  <2>2. \A k \in i + 1 .. Len(w) + 1 : ~ Chained(Append(w, m)[k])
    <3> TAKE k \in i + 1 .. Len(w) + 1
    <3>1. k \in 1 .. Len(w) \/ k = Len(w) + 1
      BY <1>1
    <3> QED
      BY <3>1, <2>1, <1>1
  <2> QED
    BY <2>1, <2>2, <1>1, SMTT(30) DEF Follows
<1>3. CASE (\A k \in 1 .. Len(w) : ~ Chained(w[k])) /\ (c => p0 = p)
  <2>1. \A k \in 1 .. Len(w) + 1 : ~ Chained(Append(w, m)[k])
    BY <1>1, <1>3
  <2> QED
    BY <1>1, <1>3, <2>1 DEF Follows
<1> QED
  BY <1>1, <1>2, <1>3, SMTT(30) DEF Follows

\* A partial frame is what the next message follows.
LEMMA FollowsNew ==
    ASSUME NEW w \in Seq(Message), NEW m \in Message, m.kind = "partial", NEW c, NEW p0
    PROVE  Follows(Append(w, m), c, p0, Len(w) + 2, m.cur)
<1>1. Len(w) \in Nat /\ Append(w, m)[Len(w) + 1] = m
  BY AppendItems
<1>2. Len(w) + 1 \in 1 .. (Len(w) + 2) - 1
      /\ \A k \in (Len(w) + 1) + 1 .. (Len(w) + 2) - 1 : FALSE
  BY <1>1
<1> QED
  BY <1>1, <1>2 DEF Follows

\* A step that leaves the path and, unless it breaks the chain, prev_varbuf.
LEMMA FollowsState ==
    ASSUME NEW w, NEW c, NEW p0, NEW c2, NEW p2, c2 => c /\ p2 = p0, NEW j, NEW p,
           Follows(w, c, p0, j, p)
    PROVE  Follows(w, c2, p2, j, p)
  BY DEF Follows

\* What a step that takes m from the path may do to the chain: one that
\* applies a frame has its payload, one that ignores m keeps prev_varbuf.
Takes(m, c, p0, c2, p2) ==
    /\ m.kind = "partial" => (c2 => p2 = m.cur)
    /\ ~ Chained(m) => (c2 => c /\ p2 = p0)

LEMMA FollowsTail ==
    ASSUME NEW w \in Seq(Message), w # <<>>, NEW c, NEW p0, NEW c2, NEW p2,
           Takes(w[1], c, p0, c2, p2),
           NEW j \in 2 .. Len(w) + 1, NEW p, Follows(w, c, p0, j, p)
    PROVE  Follows(Tail(w), c2, p2, j - 1, p)
<1>1. /\ Len(w) \in Nat /\ j \in Int
      /\ \A k \in 1 .. (j - 1) - 1 : k + 1 \in 1 .. j - 1 /\ Tail(w)[k] = w[k + 1]
  BY TailItems
<1>2. CASE \E i \in 1 .. j - 1 :
              /\ w[i].kind = "partial" /\ w[i].cur = p
              /\ \A k \in i + 1 .. j - 1 : ~ Chained(w[k])
  <2>1. PICK i \in 1 .. j - 1 :
              /\ w[i].kind = "partial" /\ w[i].cur = p
              /\ \A k \in i + 1 .. j - 1 : ~ Chained(w[k])
    BY <1>2
  <2>2. CASE i = 1
    <3>1. c2 => p2 = p
      BY <2>1, <2>2 DEF Takes
    <3>2. \A k \in 1 .. (j - 1) - 1 : k + 1 \in i + 1 .. j - 1
      BY <1>1, <2>2
    <3>3. \A k \in 1 .. (j - 1) - 1 : ~ Chained(Tail(w)[k])
      BY <1>1, <2>1, <3>2
    <3> QED
      BY <3>1, <3>3 DEF Follows
  <2>3. CASE i # 1
    <3>1. i - 1 \in 1 .. (j - 1) - 1 /\ (i - 1) + 1 = i
      BY <1>1, <2>3
    <3>2. \A k \in (i - 1) + 1 .. (j - 1) - 1 :
             k + 1 \in i + 1 .. j - 1 /\ k \in 1 .. (j - 1) - 1
      BY <1>1, <3>1
    <3>3. \A k \in (i - 1) + 1 .. (j - 1) - 1 : ~ Chained(Tail(w)[k])
      BY <1>1, <2>1, <3>2
    <3>4. Tail(w)[i - 1] = w[i]
      BY <1>1, <3>1
    <3> QED
      BY <2>1, <3>1, <3>3, <3>4 DEF Follows
  <2> QED
    BY <2>2, <2>3
<1>3. CASE (\A k \in 1 .. j - 1 : ~ Chained(w[k])) /\ (c => p0 = p)
  <2>1. 1 \in 1 .. j - 1
    OBVIOUS
  <2>2. c2 => p2 = p
    BY <2>1, <1>3 DEF Takes
  <2>3. \A k \in 1 .. (j - 1) - 1 : ~ Chained(Tail(w)[k])
    BY <1>1, <1>3
  <2> QED
    BY <2>2, <2>3 DEF Follows
<1> QED
  BY <1>2, <1>3 DEF Follows

\* The same for all delta frames on the path.
LEMMA LinkedAppend ==
    ASSUME NEW w \in Seq(Message), NEW c, NEW p0, Linked(w, c, p0),
           NEW m \in Message, Undoes(w, c, p0, Len(w) + 1, m)
    PROVE  Linked(Append(w, m), c, p0)
<1> SUFFICES ASSUME NEW j \in 1 .. Len(w) + 1
             PROVE  Undoes(Append(w, m), c, p0, j, Append(w, m)[j])
  BY AppendItems DEF Linked
<1>1. Undoes(w, c, p0, j, Append(w, m)[j])
  BY AppendItems DEF Linked
<1> QED
  BY <1>1, FollowsAppend DEF Undoes

LEMMA LinkedState ==
    ASSUME NEW w, NEW c, NEW p0, NEW c2, NEW p2, c2 => c /\ p2 = p0, Linked(w, c, p0)
    PROVE  Linked(w, c2, p2)
  BY FollowsState DEF Linked, Undoes

LEMMA LinkedTail ==
    ASSUME NEW w \in Seq(Message), w # <<>>, NEW c, NEW p0, NEW c2, NEW p2,
           Takes(w[1], c, p0, c2, p2), Linked(w, c, p0)
    PROVE  Linked(Tail(w), c2, p2)
<1> SUFFICES ASSUME NEW j \in 1 .. Len(w) - 1
             PROVE  Undoes(Tail(w), c2, p2, j, Tail(w)[j])
  BY TailItems DEF Linked
<1>1. /\ j + 1 \in 1 .. Len(w) /\ j + 1 \in 2 .. Len(w) + 1 /\ (j + 1) - 1 = j
      /\ Tail(w)[j] = w[j + 1]
  BY TailItems
<1>2. Undoes(w, c, p0, j + 1, Tail(w)[j])
  BY <1>1 DEF Linked
<1>3. ASSUME NEW p, Follows(w, c, p0, j + 1, p) PROVE Follows(Tail(w), c2, p2, j, p)
  BY <1>1, <1>3, FollowsTail
<1> QED
  BY <1>2, <1>3 DEF Undoes

-----------------------------------------------------------------------------
(* The inductive invariant *)

PathOK == LeadsFull(wire) /\ Keyed(wire) /\ Linked(wire, chain, target_prev)

IInv == TypeOK /\ PathOK /\ SourceLinked /\ ChainExact

LEMMA InitPath == Init => PathOK /\ SourceLinked /\ ChainExact
<1> SUFFICES ASSUME Init PROVE PathOK /\ SourceLinked /\ ChainExact
  OBVIOUS
<1>1. PathOK
  BY DEF Init, PathOK, LeadsFull, Keyed, Linked
<1>2. tick_counter = 0 /\ chain = FALSE
  BY DEF Init, SourceInit, TargetInit
<1> QED
  BY <1>1, <1>2 DEF SourceLinked, ChainExact

\* A step that leaves the path.
LEMMA PathKept ==
    ASSUME PathOK, SourceLinked, wire' = wire, chain' => chain /\ target_prev' = target_prev,
           tick_counter' # 0 /\ ~ unsent' =>
               tick_counter # 0 /\ ~ unsent /\ source_prev' = source_prev
    PROVE  PathOK' /\ SourceLinked'
<1>1. PathOK'
  BY LinkedState DEF PathOK, LeadsFull, Keyed
<1>2. ASSUME tick_counter' # 0 /\ ~ unsent'
      PROVE  Follows(wire, chain', target_prev', Len(wire) + 1, source_prev')
  <2>1. Follows(wire, chain, target_prev, Len(wire) + 1, source_prev')
    BY <1>2 DEF SourceLinked
  <2> QED
    BY <2>1, FollowsState
<1> QED
  BY <1>1, <1>2 DEF SourceLinked

\* A step that takes the oldest message.
LEMMA PathTaken ==
    ASSUME WireTypeOK, PathOK, SourceLinked, wire # <<>>, wire' = Tail(wire),
           Takes(Head(wire), chain, target_prev, chain', target_prev'),
           UNCHANGED <<tick_counter, unsent, source_prev>>
    PROVE  PathOK' /\ SourceLinked'
<1>w. /\ wire \in Seq(Message) /\ Head(wire) = wire[1]
      /\ Len(wire) \in Nat /\ Len(wire) > 0 /\ Len(Tail(wire)) = Len(wire) - 1
  BY TailItems DEF WireTypeOK
<1>1. LeadsFull(Tail(wire)) /\ Keyed(Tail(wire))
  BY <1>w, LeadsTail, KeyedKept DEF PathOK
<1>2. Linked(Tail(wire), chain', target_prev')
  BY <1>w, LinkedTail DEF PathOK
<1>3. ASSUME tick_counter # 0 /\ ~ unsent
      PROVE  Follows(Tail(wire), chain', target_prev', Len(Tail(wire)) + 1, source_prev)
  <2>1. Follows(wire, chain, target_prev, Len(wire) + 1, source_prev)
    BY <1>3 DEF SourceLinked
  <2>2. Len(wire) + 1 \in 2 .. Len(wire) + 1 /\ (Len(wire) + 1) - 1 = Len(Tail(wire)) + 1
    BY <1>w
  <2>3. Follows(Tail(wire), chain', target_prev', (Len(wire) + 1) - 1, source_prev)
    BY <1>w, <2>1, <2>2, FollowsTail
  <2> QED
    BY <2>2, <2>3
<1>4. PathOK'
  BY <1>1, <1>2 DEF PathOK, LeadsFull, Keyed, Linked, Undoes, Follows
<1>5. SourceLinked'
  BY <1>3 DEF SourceLinked
<1> QED
  BY <1>4, <1>5

\* A step that sends a message that is no partial frame.
LEMMA PathSaid ==
    ASSUME NEW w \in Seq(Message), NEW m \in Message, m.kind # "partial",
           NEW c, NEW p0, Keyed(w), Linked(w, c, p0)
    PROVE  Keyed(Append(w, m)) /\ Linked(Append(w, m), c, p0)
<1>1. Plain(m) /\ Undoes(w, c, p0, Len(w) + 1, m)
  BY DEF Plain, Undoes
<1> QED
  BY <1>1, KeyedKept, LinkedAppend

LEMMA UseDeltaCounts == UseDelta => tick_counter # 0
  BY ConstantTypes, ZeroIsKeyframe DEF UseDelta

LEMMA SourcePath ==
    ASSUME IInv, SourceNext, UNCHANGED targetVars
    PROVE  PathOK' /\ SourceLinked'
<1>t. WireTypeOK /\ SourceTypeOK /\ PathOK /\ SourceLinked /\ wire \in Seq(Message)
  BY DEF IInv, TypeOK, WireTypeOK
<1>u. chain' = chain /\ target_prev' = target_prev
  BY DEF targetVars
<1>1. CASE SimNext
  <2>1. UNCHANGED <<wire, tick_counter, unsent, source_prev>>
    BY <1>1 DEF SimNext, SimTick, SimSignal, SimSession, SimStop, SimStart, sourceVars, sendVars
  <2> QED
    BY <2>1, <1>t, <1>u, PathKept
<1>2. CASE SrcOpen
  BY <1>2, <1>t, <1>u, PathKept DEF SrcOpen
<1>3. CASE SrcIdle
  <2>1. /\ wire' = Append(wire, Heartbeat) \/ wire' = wire
        /\ tick_counter' = 0 \/ tick_counter' = tick_counter
        /\ UNCHANGED <<source_prev, unsent>>
    BY <1>3 DEF SrcIdle
  <2>2. CASE wire' = wire
    BY <2>1, <2>2, <1>t, <1>u, PathKept
  <2>3. CASE wire' = Append(wire, Heartbeat)
    <3>1. /\ Heartbeat \in Message /\ Heartbeat.kind \notin {"partial", "fragment"}
          /\ ~ Chained(Heartbeat)
      BY ConstantMessages DEF Heartbeat, Chained
    <3>2. PathOK'
      BY <3>1, <2>3, <1>t, <1>u, LeadsAppend, PathSaid DEF PathOK
    <3>3. Len(Append(wire, Heartbeat)) + 1 = Len(wire) + 2
      BY <3>1, <1>t, AppendItems
    <3>4. SourceLinked'
      <4> SUFFICES ASSUME tick_counter # 0, ~ unsent
                   PROVE  Follows(Append(wire, Heartbeat), chain, target_prev,
                                  Len(Append(wire, Heartbeat)) + 1, source_prev)
        BY <2>1, <2>3, <1>u DEF SourceLinked
      <4> QED
        BY <3>1, <3>3, <1>t, FollowsQuiet DEF SourceLinked
    <3> QED
      BY <3>2, <3>4
  <2> QED
    BY <2>1, <2>2, <2>3
<1>4. CASE SrcSendFull
  <2> DEFINE full == SessionInfo(session)
  <2>1. full \in Message /\ full.kind = "full" /\ LeadFragment \in Message
        /\ LeadFragment.kind # "partial"
    BY <1>t, ConstantMessages DEF SourceTypeOK, Message, SessionInfo, LeadFragment
  <2>2. /\ \/ wire' = wire
           \/ wire' = wire \o <<full>>
           \/ wire' = wire \o <<LeadFragment, full>>
        /\ tick_counter' = 0
    BY <1>4 DEF SrcSendFull, Transmit
  <2>3. SourceLinked'
    BY <2>2 DEF SourceLinked
  <2> HIDE DEF full
  <2>4. CASE wire' = wire
    BY <2>2, <2>4, <1>t, <1>u, PathKept
  <2>5. CASE wire' = wire \o <<full>>
    <3>1. wire' = Append(wire, full)
      BY <2>1, <2>5, <1>t, AppendItems
    <3> QED
      BY <3>1, <2>1, <2>3, <1>t, <1>u, LeadsAppend, PathSaid DEF PathOK
  <2>6. CASE wire' = wire \o <<LeadFragment, full>>
    <3> DEFINE v == Append(wire, LeadFragment)
    <3>1. wire' = Append(v, full) /\ v \in Seq(Message)
      BY <2>1, <2>6, <1>t, AppendTwo
    <3>2. LeadsFull(Append(v, full))
      BY <2>1, <1>t, LeadsPair DEF PathOK
    <3>3. Keyed(v) /\ Linked(v, chain, target_prev)
      BY <2>1, <1>t, PathSaid DEF PathOK
    <3> HIDE DEF v
    <3>4. Keyed(Append(v, full)) /\ Linked(Append(v, full), chain, target_prev)
      BY <3>1, <3>3, <2>1, PathSaid
    <3> QED
      BY <3>1, <3>2, <3>4, <2>3, <1>u DEF PathOK
  <2> QED
    BY <2>2, <2>4, <2>5, <2>6
<1>5. CASE SrcSendPartial
  <2> DEFINE cur == Payload(tick, session)
             frame == Partial(UseDelta, cur, source_prev, session, unsent)
  <2>1. cur \in SUBSET Bits /\ source_prev \in SUBSET Bits
    BY <1>t, PayloadType DEF SourceTypeOK
  <2>2. PICK gone \in BOOLEAN : Transmit(<<frame>>, gone) /\ unsent' = gone
    BY <1>5 DEF SrcSendPartial
  <2>3. source_prev' = cur
    BY <1>5 DEF SrcSendPartial
  <2>4. /\ frame.kind = "partial" /\ frame.cur = cur /\ frame.gap = unsent
        /\ frame.delta = UseDelta
        /\ frame.data = IF UseDelta THEN Xor(cur, source_prev) ELSE cur
    BY DEF Partial
  <2>5. frame \in Message
    <3>1. Xor(cur, source_prev) \in SUBSET Bits
      BY <2>1, XorType
    <3>2. unsent \in BOOLEAN /\ session \in Sessions /\ UseDelta \in BOOLEAN
      BY <1>t DEF SourceTypeOK, UseDelta
    <3> HIDE DEF cur
    <3> QED
      BY <3>1, <3>2, <2>1 DEF Partial, PartialFrame, Message
  <2> HIDE DEF cur, frame
  <2>6. CASE gone = TRUE
    <3>1. wire' = wire /\ unsent' = TRUE
      BY <2>2, <2>6 DEF Transmit
    <3> QED
      BY <3>1, <1>t, <1>u, PathKept
  <2>7. CASE gone = FALSE
    <3>1. wire' = Append(wire, frame)
      BY <2>2, <2>5, <2>7, <1>t, AppendItems DEF Transmit
    <3>2. Plain(frame)
      BY <2>4 DEF Plain
    <3>3. Undoes(wire, chain, target_prev, Len(wire) + 1, frame)
      <4> SUFFICES ASSUME UseDelta, ~ unsent
                   PROVE  \E p \in SUBSET Bits :
                             /\ frame.data = Xor(frame.cur, p)
                             /\ Follows(wire, chain, target_prev, Len(wire) + 1, p)
        BY <2>4 DEF Undoes
      <4>1. Follows(wire, chain, target_prev, Len(wire) + 1, source_prev)
        BY <1>t, UseDeltaCounts DEF SourceLinked
      <4> QED
        BY <4>1, <2>1, <2>4
    <3>4. PathOK'
      BY <3>1, <3>2, <3>3, <2>4, <2>5, <1>t, <1>u, LeadsAppend, KeyedKept, LinkedAppend
      DEF PathOK
    <3>5. Len(Append(wire, frame)) + 1 = Len(wire) + 2
      BY <2>5, <1>t, AppendItems
    <3>6. Follows(Append(wire, frame), chain, target_prev, Len(Append(wire, frame)) + 1, cur)
      BY <3>5, <2>4, <2>5, <1>t, FollowsNew
    <3> QED
      BY <3>1, <3>4, <3>6, <2>3, <1>u DEF SourceLinked
  <2> QED
    BY <2>6, <2>7
<1>6. CASE SrcTorn \/ SrcDuplicateTick
  BY <1>6, <1>t, <1>u, PathKept DEF SrcTorn, SrcDuplicateTick, Skip
<1>7. CASE SrcRestart
  BY <1>7, <1>t, <1>u, PathKept DEF SrcRestart
<1>8. CASE FullDue
  BY <1>8, <1>t, <1>u, PathKept DEF FullDue
<1> QED
  BY <1>1, <1>2, <1>3, <1>4, <1>5, <1>6, <1>7, <1>8 DEF SourceNext, SourceLoop

\* The target undoes what it applies while its chain is unbroken.
LEMMA DecodedExact ==
    ASSUME WireTypeOK, PathOK, wire # <<>>, Head(wire).kind = "partial",
           ~ Head(wire).delta \/ (chain /\ ~ Head(wire).gap)
    PROVE  Decoded(Head(wire)) = Head(wire).cur
<1>1. Head(wire) = wire[1] /\ 1 \in 1 .. Len(wire) /\ wire[1] \in Message
  BY TailItems DEF WireTypeOK
<1>2. wire[1].delta \in BOOLEAN /\ wire[1].gap \in BOOLEAN
  BY <1>1, MessageKinds DEF PartialFrame
<1>3. CASE ~ wire[1].delta
  BY <1>1, <1>3 DEF PathOK, Keyed, Plain, Decoded
<1>4. CASE wire[1].delta
  <2>1. Undoes(wire, chain, target_prev, 1, wire[1])
    BY <1>1 DEF PathOK, Linked
  <2>2. PICK p \in SUBSET Bits :
           wire[1].data = Xor(wire[1].cur, p) /\ Follows(wire, chain, target_prev, 1, p)
    BY <2>1, <1>1, <1>4 DEF Undoes
  <2>3. target_prev = p
    BY <2>2, <1>1, <1>4 DEF Follows
  <2> QED
    BY <2>2, <2>3, <1>1, <1>4, XorTwice DEF Decoded
<1> QED
  BY <1>1, <1>2, <1>3, <1>4

LEMMA TargetPath ==
    ASSUME IInv, TargetNext, UNCHANGED sourceVars
    PROVE  PathOK' /\ SourceLinked' /\ ChainExact'
<1>t. WireTypeOK /\ TargetTypeOK /\ PathOK /\ SourceLinked /\ ChainExact
  BY DEF IInv, TypeOK
<1>u. UNCHANGED <<tick_counter, unsent, source_prev>>
  BY DEF sourceVars, sendVars
<1>1. CASE TgtHeartbeat \/ TgtFragment
  <2>1. /\ wire # <<>> /\ wire' = Tail(wire)
        /\ ~ Chained(Head(wire))
        /\ UNCHANGED <<map, chain, target_prev>>
    BY <1>1 DEF TgtHeartbeat, TgtFragment, Arrives, Chained
  <2>2. Takes(Head(wire), chain, target_prev, chain', target_prev')
    BY <2>1 DEF Takes, Chained
  <2> QED
    BY <2>1, <2>2, <1>t, <1>u, PathTaken DEF ChainExact, HasRow
<1>2. CASE TgtFull
  <2>1. /\ wire # <<>> /\ wire' = Tail(wire) /\ Head(wire).kind = "full"
        /\ map' = [OpenMap EXCEPT !.yaml = Head(wire).session]
        /\ chain' = chain
    BY <1>2 DEF TgtFull, Arrives
  <2>2. Takes(Head(wire), chain, target_prev, chain', target_prev')
    BY <2>1 DEF Takes, Chained
  <2>3. ChainExact'
    <3>1. OpenMap \in MapType
      BY <1>t, OpenMapType
    <3>2. map'.row = OpenMap.row /\ map'.cur = OpenMap.cur /\ map'.session = OpenMap.session
      BY <2>1, <3>1 DEF MapType
    <3>3. OpenMap = map \/ OpenMap.session = NoSession
      BY DEF OpenMap, FreshMap, Map
    <3>4. OpenMap = map => map.made
      BY <3>1 DEF MapType
    <3> QED
      BY <3>2, <3>3, <3>4, <2>1, <1>t DEF ChainExact, HasRow
  <2> QED
    BY <2>1, <2>2, <2>3, <1>t, <1>u, PathTaken
<1>3. CASE TgtPartial
  <2>1. /\ wire # <<>> /\ wire' = Tail(wire) /\ Head(wire).kind = "partial"
        /\ map' = [OpenMap EXCEPT !.row = Decoded(Head(wire)), !.cur = Head(wire).cur,
                                  !.session = Head(wire).session]
        /\ target_prev' = Decoded(Head(wire))
        /\ chain' = (~ Head(wire).delta \/ (chain /\ ~ Head(wire).gap))
    BY <1>3 DEF TgtPartial, Arrives
  <2>2. chain' => Decoded(Head(wire)) = Head(wire).cur
    BY <2>1, <1>t, DecodedExact
  <2>3. Takes(Head(wire), chain, target_prev, chain', target_prev')
    BY <2>1, <2>2 DEF Takes, Chained
  <2>4. map'.row = Decoded(Head(wire)) /\ map'.cur = Head(wire).cur
    BY <2>1, <1>t, OpenMapType DEF MapType
  <2> QED
    BY <2>1, <2>2, <2>3, <2>4, <1>t, <1>u, PathTaken DEF ChainExact
<1>4. CASE TgtPartialTooEarly
  <2>1. /\ wire # <<>> /\ wire' = Tail(wire) /\ Head(wire).kind = "partial"
        /\ chain' = FALSE
    BY <1>4 DEF TgtPartialTooEarly, Arrives
  <2>2. Takes(Head(wire), chain, target_prev, chain', target_prev')
    BY <2>1 DEF Takes, Chained
  <2> QED
    BY <2>1, <2>2, <1>t, <1>u, PathTaken DEF ChainExact
<1>5. CASE TgtGarbled
  <2>1. /\ wire # <<>> /\ wire' = Tail(wire)
        /\ Head(wire).kind = "full" \/ Head(wire).kind = "partial"
        /\ chain' = IF Head(wire).kind = "partial" THEN FALSE ELSE chain
        /\ map' = OpenMap
    BY <1>5 DEF TgtGarbled, Arrives
  <2>2. Takes(Head(wire), chain, target_prev, chain', target_prev')
    BY <2>1 DEF Takes, Chained
  <2>3. OpenMap = map \/ OpenMap.session = NoSession
    BY DEF OpenMap, FreshMap, Map
  <2> QED
    BY <2>1, <2>2, <2>3, <1>t, <1>u, PathTaken DEF ChainExact, HasRow
<1>6. CASE TgtStale \/ TgtRestart
  <2>1. wire' = wire /\ chain' = FALSE
    BY <1>6 DEF TgtStale, TgtRestart, Reset
  <2> QED
    BY <2>1, <1>t, <1>u, PathKept DEF ChainExact
<1>7. CASE ResyncDue
  BY <1>7, <1>t, <1>u, PathKept DEF ResyncDue, ChainExact, HasRow
<1> QED
  BY <1>1, <1>2, <1>3, <1>4, <1>5, <1>6, <1>7 DEF TargetNext, TargetReceives

\* A message lost takes its first fragment with it.
LEMMA LostPath ==
    ASSUME IInv, LoseMessage
    PROVE  wire' \in Seq(Message) /\ PathOK' /\ SourceLinked' /\ ChainExact'
<1>t. /\ wire \in Seq(Message) /\ WireTypeOK /\ PathOK /\ SourceLinked /\ ChainExact
  BY DEF IInv, TypeOK, WireTypeOK
<1>u. /\ UNCHANGED <<tick_counter, unsent, source_prev, target_prev, map>>
      /\ wire # <<>>
  BY DEF LoseMessage, sourceVars, sendVars
<1>e. (chain' => chain) => ChainExact'
  BY <1>t, <1>u DEF ChainExact, HasRow
<1>h. Head(wire) = wire[1] /\ Head(wire) \in Message
  BY <1>t, <1>u, TailItems
<1>1. CASE Head(wire).kind = "fragment"
  <2>1. wire' = Tail(Tail(wire)) /\ chain' = chain
    BY <1>1 DEF LoseMessage
  <2>2. 1 < Len(wire) /\ wire[2].kind = "full"
    <3>1. 1 \in 1 .. Len(wire)
      BY <1>t, <1>u, TailItems
    <3>2. 1 < Len(wire) /\ wire[1 + 1].kind = "full"
      BY <3>1, <1>1, <1>h, <1>t DEF PathOK, LeadsFull
    <3> QED
      BY <3>2
  <2>3. Takes(wire[1], chain, target_prev, chain, target_prev)
    BY <1>1, <1>h DEF Takes
  <2> DEFINE v == Tail(wire)
  <2>4. /\ v \in Seq(Message) /\ v # <<>> /\ Len(v) = Len(wire) - 1
        /\ v[1].kind = "full"
    <3>1. /\ Len(wire) \in Nat /\ 1 \in 1 .. Len(wire) - 1
          /\ v \in Seq(Message) /\ Len(v) = Len(wire) - 1
      BY <2>2, <1>t, <1>u, TailItems
    <3>2. v[1] = wire[1 + 1]
      BY <3>1, <1>t, <1>u, TailItems
    <3> HIDE DEF v
    <3>3. v # <<>>
      BY <3>1
    <3> QED
      BY <3>1, <3>2, <3>3, <2>2
  <2>5. LeadsFull(v) /\ Keyed(v) /\ Linked(v, chain, target_prev)
    BY <2>3, <1>t, <1>u, LeadsTail, KeyedKept, LinkedTail DEF PathOK
  <2>6. Takes(v[1], chain, target_prev, chain', target_prev')
    BY <2>1, <2>4, <1>u DEF Takes, Chained
  <2>7. tick_counter # 0 /\ ~ unsent =>
           Follows(v, chain, target_prev, Len(v) + 1, source_prev)
    <3>1. /\ Len(wire) \in Nat /\ Len(wire) + 1 \in 2 .. Len(wire) + 1
          /\ (Len(wire) + 1) - 1 = Len(v) + 1
      BY <2>2, <2>4, <1>t, TailItems, <1>u
    <3>2. ASSUME tick_counter # 0, ~ unsent
          PROVE  Follows(v, chain, target_prev, (Len(wire) + 1) - 1, source_prev)
      BY <3>1, <3>2, <2>3, <1>t, <1>u, FollowsTail DEF SourceLinked
    <3> QED
      BY <3>1, <3>2
  <2> HIDE DEF v
  <2>8. wire' = Tail(v) /\ Tail(v) \in Seq(Message)
        /\ Len(v) \in Nat /\ Len(v) > 0 /\ Len(Tail(v)) = Len(v) - 1
    BY <2>1, <2>4, TailItems DEF v
  <2>9. LeadsFull(Tail(v)) /\ Keyed(Tail(v)) /\ Linked(Tail(v), chain', target_prev')
    BY <2>4, <2>5, <2>6, LeadsTail, KeyedKept, LinkedTail
  <2>10. tick_counter # 0 /\ ~ unsent =>
            Follows(Tail(v), chain', target_prev', Len(Tail(v)) + 1, source_prev)
    <3>1. Len(v) + 1 \in 2 .. Len(v) + 1 /\ (Len(v) + 1) - 1 = Len(Tail(v)) + 1
      BY <2>8
    <3>2. ASSUME tick_counter # 0, ~ unsent
          PROVE  Follows(Tail(v), chain', target_prev', (Len(v) + 1) - 1, source_prev)
      BY <3>1, <3>2, <2>4, <2>6, <2>7, FollowsTail
    <3> QED
      BY <3>1, <3>2
  <2> QED
    BY <2>1, <2>8, <2>9, <2>10, <1>e, <1>u DEF PathOK, SourceLinked
<1>2. CASE Head(wire).kind # "fragment"
  <2>1. /\ wire' = Tail(wire)
        /\ chain' = IF Head(wire).kind = "partial" THEN FALSE ELSE chain
    BY <1>2 DEF LoseMessage
  <2>2. Takes(Head(wire), chain, target_prev, chain', target_prev')
    BY <2>1, <1>u DEF Takes, Chained
  <2>3. Tail(wire) \in Seq(Message)
    BY <1>t, <1>u, TailItems
  <2> QED
    BY <2>1, <2>2, <2>3, <1>t, <1>u, <1>e, PathTaken
<1> QED
  BY <1>1, <1>2

-----------------------------------------------------------------------------
(* Theorems                                                                 *)

\* The path's steps keep the types, given LeadsFull of what is lost.
LEMMA PathStepTypes ==
    ASSUME IInv, LoseMessage \/ LoseRequest \/ OldTargetRequest
    PROVE  TypeOK'
<1>t. WireTypeOK /\ SourceTypeOK /\ TargetTypeOK
  BY DEF IInv, TypeOK
<1>f. faults \in 0 .. MaxFaults
  BY <1>t DEF SourceTypeOK
<1>1. CASE LoseMessage
  <2>1. wire' \in Seq(Message) /\ back' \in Seq(Request)
    BY <1>1, <1>t, LostPath DEF LoseMessage, WireTypeOK
  <2>2. faults' \in 0 .. MaxFaults
    BY <1>1, <1>f, FaultTypes DEF LoseMessage
  <2>3. SourceTypeOK'
    BY <2>2, <1>1, <1>t DEF LoseMessage, SourceTypeOK, simVars, sourceVars, sendVars, loopVars
  <2>4. TargetTypeOK'
    BY <1>1, <1>t DEF LoseMessage, TargetTypeOK
  <2> QED
    BY <2>1, <2>3, <2>4 DEF TypeOK, WireTypeOK
<1>2. CASE LoseRequest \/ OldTargetRequest
  <2>1. back' \in Seq(Request)
    <3>1. CASE LoseRequest
      BY <3>1, <1>t, HeadTail DEF LoseRequest, WireTypeOK
    <3>2. CASE OldTargetRequest
      BY <3>2, <1>t DEF OldTargetRequest, WireTypeOK, Request
    <3> QED
      BY <1>2, <3>1, <3>2
  <2>2. faults' \in 0 .. MaxFaults
    BY <1>2, <1>f, FaultTypes DEF LoseRequest, OldTargetRequest
  <2>3. UNCHANGED <<simVars, sourceVars, targetVars, wire>>
    BY <1>2 DEF LoseRequest, OldTargetRequest
  <2>4. SourceTypeOK'
    BY <2>2, <2>3, <1>t DEF SourceTypeOK, simVars, sourceVars, sendVars, loopVars
  <2>5. TargetTypeOK'
    BY <2>3, <1>t DEF TargetTypeOK, targetVars
  <2> QED
    BY <2>1, <2>3, <2>4, <2>5, <1>t DEF TypeOK, WireTypeOK
<1> QED
  BY <1>1, <1>2

\* Every step keeps the invariant.
LEMMA StepKeeps == IInv /\ [Next]_vars => IInv'
<1> SUFFICES ASSUME IInv, [Next]_vars PROVE IInv'
  OBVIOUS
<1>t. TypeOK /\ PathOK /\ SourceLinked /\ ChainExact /\ WireTypeOK /\ SourceTypeOK /\ TargetTypeOK
  BY DEF IInv, TypeOK
<1>1. CASE SourceNext /\ UNCHANGED targetVars
  <2>1. WireTypeOK' /\ SourceTypeOK'
    BY <1>1, <1>t, SimTypes, SourceStepTypes DEF SourceNext
  <2>2. TargetTypeOK'
    BY <1>1, <1>t DEF targetVars, TargetTypeOK
  <2>3. PathOK' /\ SourceLinked'
    BY <1>1, SourcePath
  <2>4. ChainExact'
    BY <1>1, <1>t DEF targetVars, ChainExact, HasRow
  <2> QED
    BY <2>1, <2>2, <2>3, <2>4 DEF IInv, TypeOK
<1>2. CASE TargetNext /\ UNCHANGED <<simVars, sourceVars, faults>>
  <2>1. TargetTypeOK' /\ WireTypeOK'
    BY <1>2, <1>t, TargetStepTypes DEF WireTypeOK
  <2>2. SourceTypeOK'
    BY <1>2, <1>t DEF SourceTypeOK, simVars, sourceVars, sendVars, loopVars
  <2>3. PathOK' /\ SourceLinked' /\ ChainExact'
    BY <1>2, TargetPath
  <2> QED
    BY <2>1, <2>2, <2>3 DEF IInv, TypeOK
<1>3. CASE LoseMessage
  BY <1>3, LostPath, PathStepTypes DEF IInv
<1>4. CASE LoseRequest \/ OldTargetRequest
  <2>1. UNCHANGED <<wire, chain, target_prev, map, tick_counter, unsent, source_prev>>
    BY <1>4 DEF LoseRequest, OldTargetRequest, targetVars, sourceVars, sendVars
  <2>2. ChainExact'
    BY <2>1, <1>t DEF ChainExact, HasRow
  <2> QED
    BY <2>1, <2>2, <1>4, <1>t, PathKept, PathStepTypes DEF IInv
<1>5. CASE UNCHANGED vars
  <2>1. UNCHANGED <<wire, chain, target_prev, map, tick_counter, unsent, source_prev>>
    BY <1>5 DEF vars, targetVars, sourceVars, sendVars
  <2>2. ChainExact'
    BY <2>1, <1>t DEF ChainExact, HasRow
  <2>3. WireTypeOK' /\ TargetTypeOK'
    BY <1>5, <1>t DEF vars, targetVars, WireTypeOK, TargetTypeOK
  <2>4. SourceTypeOK'
    BY <1>5, <1>t DEF vars, simVars, sourceVars, sendVars, loopVars, SourceTypeOK
  <2> QED
    BY <2>1, <2>2, <2>3, <2>4, <1>t, PathKept DEF IInv, TypeOK
<1> QED
  BY <1>1, <1>2, <1>3, <1>4, <1>5 DEF Next

LEMMA Invariant == Spec => []IInv
<1>1. Init => IInv
  BY InitTypes, InitPath DEF IInv
<1> QED
  BY <1>1, StepKeeps, PTL DEF Spec

\* Every variable of the two processes and of the path between them keeps its
\* type (source.rs:56-411, target.rs:105-395).
THEOREM TeleportTypes == Spec => []TypeOK
<1>1. IInv => TypeOK
  BY DEF IInv
<1> QED
  BY <1>1, Invariant, PTL

\* XOR-delta is exact for every keyframe interval, every width of the tick
\* counter and every number of faults: while no partial frame was lost,
\* dropped or discarded since the last keyframe, what decode_delta() gives is
\* what the source read (source.rs:345-411, target.rs:290-318).
THEOREM DeltaExact == Spec => []ChainExact
<1>1. IInv => ChainExact
  BY DEF IInv
<1> QED
  BY <1>1, Invariant, PTL

-----------------------------------------------------------------------------
(* Session info before data                                                 *)

\* No data is in the map, and the target does not believe in its session
\* info, before a session-info frame was written to it, whatever is lost
\* (target.rs:151-152, 236-240, 274).
THEOREM SessionInfoFirst == Spec => []RowNeedsSessionInfo
<1>1. Init => RowNeedsSessionInfo
  BY DEF Init, TargetInit, NoMap, RowNeedsSessionInfo, HasRow
<1>2. TypeOK /\ RowNeedsSessionInfo /\ [Next]_vars => RowNeedsSessionInfo'
  <2> SUFFICES ASSUME TypeOK, RowNeedsSessionInfo, [Next]_vars PROVE RowNeedsSessionInfo'
    OBVIOUS
  <2>t. WireTypeOK /\ TargetTypeOK
    BY DEF TypeOK
  <2>o. /\ OpenMap \in MapType
        /\ IF map.made THEN OpenMap = map
           ELSE OpenMap.yaml = NoSession /\ OpenMap.session = NoSession
    BY <2>t, OpenMapType DEF OpenMap, FreshMap, Map
  <2>m. \A m \in MapType : m.made
    BY DEF MapType
  <2>1. ASSUME UNCHANGED <<map, has_full_frame>> PROVE RowNeedsSessionInfo'
    BY <2>1 DEF RowNeedsSessionInfo, HasRow
  <2>2. ASSUME map' = OpenMap, UNCHANGED has_full_frame PROVE RowNeedsSessionInfo'
    BY <2>2, <2>o, <2>m DEF RowNeedsSessionInfo, HasRow
  <2>3. CASE TgtFull
    <3>1. Arrives("full") /\ map' = [OpenMap EXCEPT !.yaml = Head(wire).session]
      BY <2>3 DEF TgtFull
    <3>2. Head(wire).session # NoSession
      BY <3>1, <2>t, ArrivesTypes, MessageKinds, ConstantTypes DEF NoSession
    <3>3. map'.made /\ map'.yaml = Head(wire).session
      BY <3>1, <2>o, <2>m DEF MapType
    <3>4. has_full_frame' = TRUE
      BY <2>3 DEF TgtFull
    <3> QED
      BY <3>2, <3>3, <3>4 DEF RowNeedsSessionInfo, HasRow
  <2>4. CASE TgtPartial
    <3>1. has_full_frame /\ has_full_frame' = TRUE
      BY <2>4, <2>t DEF TgtPartial, TargetTypeOK
    <3>2. OpenMap = map /\ map.made /\ map.yaml # NoSession
      BY <3>1, <2>o DEF RowNeedsSessionInfo
    <3>3. map'.made /\ map'.yaml = map.yaml
      BY <2>4, <3>2, <2>o, <2>m DEF TgtPartial, MapType
    <3> QED
      BY <3>1, <3>2, <3>3 DEF RowNeedsSessionInfo, HasRow
  <2>5. CASE TgtStale \/ TgtRestart
    BY <2>5 DEF TgtStale, TgtRestart, Reset, NoMap, RowNeedsSessionInfo, HasRow
  <2>6. CASE TgtHeartbeat \/ TgtFragment \/ ResyncDue
    BY <2>6, <2>1 DEF TgtHeartbeat, TgtFragment, ResyncDue
  <2>7. CASE TgtPartialTooEarly \/ TgtGarbled
    BY <2>7, <2>2 DEF TgtPartialTooEarly, TgtGarbled
  <2>8. CASE UNCHANGED targetVars \/ LoseMessage
    BY <2>8, <2>1 DEF targetVars, LoseMessage
  <2> QED
    BY <2>3, <2>4, <2>5, <2>6, <2>7, <2>8
    DEF Next, TargetNext, TargetReceives, LoseRequest, OldTargetRequest, vars
<1> QED
  BY <1>1, <1>2, TeleportTypes, PTL DEF Spec

-----------------------------------------------------------------------------
(* Keyframes in time: tick_counter is reset by what is not a partial frame, *)
(* and wraps.                                                               *)

LEMMA DivMod ==
    ASSUME NEW k \in Int, k > 0, NEW c \in Int
    PROVE  c = k * (c \div k) + (c % k)
  OBVIOUS

LEMMA ModRange ==
    ASSUME NEW k \in Nat, k > 0, NEW c \in Nat
    PROVE  c % k \in 0 .. k - 1
  OBVIOUS

LEMMA SameRest ==
    ASSUME NEW k \in Int, k > 0, NEW q \in Int, NEW p \in Int,
           NEW r \in 0 .. k - 1, NEW s \in 0 .. k - 1, k * q + r = k * p + s
    PROVE  r = s
  OBVIOUS

\* The remainder counts up to k - 1 and starts again.
LEMMA ModSucc ==
    ASSUME NEW k \in Nat, k > 0, NEW c \in Nat
    PROVE  (c + 1) % k = IF c % k = k - 1 THEN 0 ELSE (c % k) + 1
<1> DEFINE q == c \div k
           r == c % k
           p == (c + 1) \div k
           s == (c + 1) % k
<1>1. q \in Int /\ p \in Int
  OBVIOUS
<1>2. r \in 0 .. k - 1 /\ s \in 0 .. k - 1
  BY ModRange
<1>3. c = k * q + r
  BY DivMod
<1>4. c + 1 = k * p + s
  BY DivMod
<1> HIDE DEF q, r, p, s
<1>5. CASE r = k - 1
  <2>1. k * (q + 1) + 0 = k * p + s
    BY <1>1, <1>2, <1>3, <1>4, <1>5
  <2> QED
    BY <2>1, <1>1, <1>2, <1>5, SameRest DEF r, s
<1>6. CASE r # k - 1
  <2>1. r + 1 \in 0 .. k - 1 /\ k * q + (r + 1) = k * p + s
    BY <1>1, <1>2, <1>3, <1>4, <1>6
  <2>2. r + 1 = s
    BY <2>1, <1>1, <1>2, SameRest
  <2> QED
    BY <2>2, <1>6 DEF r, s
<1> QED
  BY <1>5, <1>6

\* The deltas since the last keyframe are no more than the counter's position
\* in its interval, and at the end of one fewer than the interval.
DeltasCounted ==
    /\ keyframe_interval = 0 => deltas = 0
    /\ keyframe_interval > 0 =>
          /\ deltas <= keyframe_interval - 1
          /\ tick_counter % keyframe_interval # 0 =>
                deltas <= (tick_counter % keyframe_interval) - 1

\* The wrap of the counter ends an interval early.
LEMMA CountTickIs ==
    ASSUME SourceTypeOK
    PROVE  CountTick = tick_counter + 1 \/ CountTick = 0
<1>1. /\ tick_counter \in Int /\ CounterMod \in Nat /\ CounterMod > 0
      /\ tick_counter + 1 \in 0 .. CounterMod
  BY ConstantTypes DEF SourceTypeOK
<1>2. CASE tick_counter + 1 < CounterMod
  BY <1>1, <1>2 DEF CountTick
<1>3. CASE tick_counter + 1 = CounterMod
  BY <1>1, <1>3 DEF CountTick
<1> QED
  BY <1>1, <1>2, <1>3

LEMMA CountedStep ==
    ASSUME SourceTypeOK, DeltasCounted, [Next]_vars
    PROVE  DeltasCounted'
<1>c. /\ keyframe_interval \in Nat /\ tick_counter \in Nat /\ deltas \in 0 .. keyframe_interval
      /\ keyframe_interval' = keyframe_interval
  BY ConstantTypes DEF SourceTypeOK
<1>z. keyframe_interval > 0 => 0 % keyframe_interval = 0
  BY <1>c, ZeroIsKeyframe
<1>1. CASE tick_counter' \in {0, tick_counter} /\ deltas' \in {0, deltas}
  <2>1. keyframe_interval > 0 => tick_counter % keyframe_interval \in 0 .. keyframe_interval - 1
    BY <1>c, ModRange
  <2>2. CASE keyframe_interval = 0
    BY <1>1, <1>c, <2>2 DEF DeltasCounted
  <2>3. CASE keyframe_interval > 0 /\ tick_counter' = 0
    BY <1>1, <1>c, <1>z, <2>3 DEF DeltasCounted
  <2>4. CASE keyframe_interval > 0 /\ tick_counter' = tick_counter
    <3>1. tick_counter' % keyframe_interval = tick_counter % keyframe_interval
      BY <2>4
    <3> DEFINE r == tick_counter % keyframe_interval
    <3>2. deltas' <= keyframe_interval - 1 /\ (r # 0 => deltas' <= r - 1)
      <4>1. deltas <= keyframe_interval - 1 /\ (r # 0 => deltas <= r - 1)
        BY <2>4 DEF DeltasCounted
      <4>2. r \in 0 .. keyframe_interval - 1
        BY <2>1, <2>4
      <4> HIDE DEF r
      <4> QED
        BY <4>1, <4>2, <1>1, <1>c
    <3> QED
      BY <3>1, <3>2, <2>4 DEF DeltasCounted
  <2> QED
    BY <1>1, <1>c, <2>2, <2>3, <2>4
<1>2. CASE SrcSendPartial
  <2> DEFINE k == keyframe_interval
             r == tick_counter % k
  <2>1. /\ tick_counter' = CountTick
        /\ deltas' = IF ~ UseDelta THEN 0
                     ELSE IF deltas < k THEN deltas + 1 ELSE deltas
    BY <1>2 DEF SrcSendPartial
  <2>2. CASE k = 0
    BY <2>1, <2>2, <1>c DEF UseDelta, DeltasCounted
  <2>3. CASE k > 0
    <3>1. r \in 0 .. k - 1
      BY <2>3, <1>c, ModRange
    <3>2. UseDelta => r # 0 /\ deltas <= r - 1
      BY <2>3 DEF UseDelta, DeltasCounted
    <3>3. deltas' <= r /\ deltas' <= k - 1
      BY <2>1, <2>3, <3>1, <3>2, <1>c DEF DeltasCounted
    <3>4. CASE CountTick = 0
      BY <2>1, <2>3, <3>3, <3>4, <1>c, <1>z DEF DeltasCounted
    <3>5. CASE CountTick = tick_counter + 1
      <4>1. (tick_counter + 1) % k = IF r = k - 1 THEN 0 ELSE r + 1
        BY <2>3, <1>c, ModSucc
      <4>2. tick_counter' % k = IF r = k - 1 THEN 0 ELSE r + 1
        BY <4>1, <2>1, <3>5
      <4> HIDE DEF r
      <4> QED
        BY <4>2, <2>3, <3>1, <3>3, <1>c DEF DeltasCounted
    <3> QED
      BY <3>4, <3>5, CountTickIs
  <2> QED
    BY <2>2, <2>3, <1>c
<1>3. CASE SimNext \/ SrcOpen \/ SrcTorn \/ SrcDuplicateTick \/ FullDue
  BY <1>3, <1>1 DEF SimNext, SimTick, SimSignal, SimSession, SimStop, SimStart, SrcOpen, SrcTorn,
                    SrcDuplicateTick, FullDue, Skip, sourceVars, sendVars
<1>4. CASE SrcIdle \/ SrcSendFull \/ SrcRestart
  BY <1>4, <1>1 DEF SrcIdle, SrcSendFull, SrcRestart
<1>5. CASE UNCHANGED sourceVars
  BY <1>5, <1>1 DEF sourceVars, sendVars
<1> QED
  BY <1>2, <1>3, <1>4, <1>5
  DEF Next, SourceNext, SourceLoop, LoseMessage, LoseRequest, OldTargetRequest, vars

\* No keyframe_interval frames in a row are deltas, for every interval and
\* every width of the counter, whether or not one divides the other
\* (source.rs:394-397).
THEOREM KeyframesInTime == Spec => []KeyframeInTime
<1>1. Init => DeltasCounted
  BY ConstantTypes, ZeroIsKeyframe DEF Init, SourceInit, DeltasCounted
<1>2. TypeOK /\ DeltasCounted /\ [Next]_vars => DeltasCounted'
  BY CountedStep DEF TypeOK
<1>3. TypeOK /\ DeltasCounted => KeyframeInTime
  BY ConstantTypes DEF TypeOK, SourceTypeOK, DeltasCounted, KeyframeInTime
<1> QED
  BY <1>1, <1>2, <1>3, TeleportTypes, PTL DEF Spec

-----------------------------------------------------------------------------
(* A frame under the YAML of its own session, as long as nothing was lost.   *)

\* s is the session whose YAML the target has when message j of the path w is
\* due, if it has one then; has and yaml say what it has now.
Shows(w, has, yaml, j, s) ==
    \/ \E i \in 1 .. j - 1 :
          /\ w[i].kind = "full" /\ w[i].session = s
          /\ \A k \in i + 1 .. j - 1 : w[k].kind # "full"
    \/ /\ \A k \in 1 .. j - 1 : w[k].kind # "full"
       /\ has => yaml = s

\* Every partial frame arrives under the YAML of its session.
UnderOwn(w, has, yaml) ==
    \A j \in 1 .. Len(w) :
        w[j].kind = "partial" => Shows(w, has, yaml, j, w[j].session)

\* So do those on their way, and so would the next one.
OwnSession ==
    faults = 0 =>
        /\ UnderOwn(wire, has_full_frame, map.yaml)
        /\ last_session_update # NoSession =>
              Shows(wire, has_full_frame, map.yaml, Len(wire) + 1, last_session_update)

\* Shows looks at the messages before j only.
LEMMA ShowsAppend ==
    ASSUME NEW w \in Seq(Message), NEW m \in Message, NEW has, NEW yaml, NEW s,
           NEW j \in 1 .. Len(w) + 1, Shows(w, has, yaml, j, s)
    PROVE  Shows(Append(w, m), has, yaml, j, s)
<1>1. Len(w) \in Nat /\ \A k \in 1 .. j - 1 : k \in 1 .. Len(w) /\ Append(w, m)[k] = w[k]
  BY AppendItems
<1>2. CASE \E i \in 1 .. j - 1 :
              /\ w[i].kind = "full" /\ w[i].session = s
              /\ \A k \in i + 1 .. j - 1 : w[k].kind # "full"
  <2>1. PICK i \in 1 .. j - 1 :
              /\ w[i].kind = "full" /\ w[i].session = s
              /\ \A k \in i + 1 .. j - 1 : w[k].kind # "full"
    BY <1>2
  <2>2. \A k \in i + 1 .. j - 1 : k \in 1 .. j - 1
    OBVIOUS
  <2> QED
    BY <2>1, <2>2, <1>1 DEF Shows
<1>3. CASE (\A k \in 1 .. j - 1 : w[k].kind # "full") /\ (has => yaml = s)
  BY <1>1, <1>3 DEF Shows
<1> QED
  BY <1>2, <1>3 DEF Shows

\* A message that is no session-info frame changes nothing.
LEMMA ShowsQuiet ==
    ASSUME NEW w \in Seq(Message), NEW m \in Message, m.kind # "full", NEW has, NEW yaml, NEW s,
           Shows(w, has, yaml, Len(w) + 1, s)
    PROVE  Shows(Append(w, m), has, yaml, Len(w) + 2, s)
<1>1. /\ Len(w) \in Nat
      /\ Append(w, m)[Len(w) + 1] = m
      /\ \A k \in 1 .. Len(w) : Append(w, m)[k] = w[k]
  BY AppendItems
<1>2. CASE \E i \in 1 .. Len(w) :
              /\ w[i].kind = "full" /\ w[i].session = s
              /\ \A k \in i + 1 .. Len(w) : w[k].kind # "full"
  <2>1. PICK i \in 1 .. Len(w) :
              /\ w[i].kind = "full" /\ w[i].session = s
              /\ \A k \in i + 1 .. Len(w) : w[k].kind # "full"
    BY <1>2
  <2>2. \A k \in i + 1 .. Len(w) + 1 : Append(w, m)[k].kind # "full"
    <3> TAKE k \in i + 1 .. Len(w) + 1
    <3>1. k \in 1 .. Len(w) \/ k = Len(w) + 1
      BY <1>1
    <3> QED
      BY <3>1, <2>1, <1>1
  <2>3. (Len(w) + 2) - 1 = Len(w) + 1 /\ i \in 1 .. Len(w) + 1
    BY <1>1
  <2>4. Append(w, m)[i].kind = "full" /\ Append(w, m)[i].session = s
    BY <2>1, <1>1
  <2> QED
    BY ONLY <2>2, <2>3, <2>4 DEF Shows
<1>3. CASE (\A k \in 1 .. Len(w) : w[k].kind # "full") /\ (has => yaml = s)
  <2>1. \A k \in 1 .. Len(w) + 1 : Append(w, m)[k].kind # "full"
    BY <1>1, <1>3
  <2> QED
    BY <1>1, <1>3, <2>1 DEF Shows
<1> QED
  BY <1>1, <1>2, <1>3 DEF Shows

\* After a session-info frame, it is its session.
LEMMA ShowsNew ==
    ASSUME NEW w \in Seq(Message), NEW m \in Message, m.kind = "full", NEW has, NEW yaml
    PROVE  Shows(Append(w, m), has, yaml, Len(w) + 2, m.session)
<1>1. Len(w) \in Nat /\ Append(w, m)[Len(w) + 1] = m
  BY AppendItems
<1>2. Len(w) + 1 \in 1 .. (Len(w) + 2) - 1
      /\ \A k \in (Len(w) + 1) + 1 .. (Len(w) + 2) - 1 : FALSE
  BY <1>1
<1> QED
  BY <1>1, <1>2 DEF Shows

\* What a step that takes m from the path may do to the YAML: a session-info
\* frame is written, anything else leaves it, or takes the belief in it away.
Leaves(m, has, yaml, has2, yaml2) ==
    /\ m.kind = "full" => (has2 => yaml2 = m.session)
    /\ m.kind # "full" => (has2 => has /\ yaml2 = yaml)

LEMMA ShowsTail ==
    ASSUME NEW w \in Seq(Message), w # <<>>, NEW has, NEW yaml, NEW has2, NEW yaml2,
           Leaves(w[1], has, yaml, has2, yaml2),
           NEW j \in 2 .. Len(w) + 1, NEW s, Shows(w, has, yaml, j, s)
    PROVE  Shows(Tail(w), has2, yaml2, j - 1, s)
<1>1. /\ Len(w) \in Nat /\ j \in Int
      /\ \A k \in 1 .. (j - 1) - 1 : k + 1 \in 1 .. j - 1 /\ Tail(w)[k] = w[k + 1]
  BY TailItems
<1>2. CASE \E i \in 1 .. j - 1 :
              /\ w[i].kind = "full" /\ w[i].session = s
              /\ \A k \in i + 1 .. j - 1 : w[k].kind # "full"
  <2>1. PICK i \in 1 .. j - 1 :
              /\ w[i].kind = "full" /\ w[i].session = s
              /\ \A k \in i + 1 .. j - 1 : w[k].kind # "full"
    BY <1>2
  <2>2. CASE i = 1
    <3>1. has2 => yaml2 = s
      BY <2>1, <2>2 DEF Leaves
    <3>2. \A k \in 1 .. (j - 1) - 1 : k + 1 \in i + 1 .. j - 1
      BY <1>1, <2>2
    <3>3. \A k \in 1 .. (j - 1) - 1 : Tail(w)[k].kind # "full"
      BY <1>1, <2>1, <3>2
    <3> QED
      BY <3>1, <3>3 DEF Shows
  <2>3. CASE i # 1
    <3>1. i - 1 \in 1 .. (j - 1) - 1 /\ Tail(w)[i - 1] = w[i]
      BY <1>1, <2>3
    <3>2. \A k \in (i - 1) + 1 .. (j - 1) - 1 :
             k \in 1 .. (j - 1) - 1 /\ k + 1 \in i + 1 .. j - 1
      BY <1>1
    <3>3. \A k \in (i - 1) + 1 .. (j - 1) - 1 : Tail(w)[k].kind # "full"
      BY <1>1, <2>1, <3>2
    <3> QED
      BY <2>1, <3>1, <3>3 DEF Shows
  <2> QED
    BY <2>2, <2>3
<1>3. CASE (\A k \in 1 .. j - 1 : w[k].kind # "full") /\ (has => yaml = s)
  <2>1. 1 \in 1 .. j - 1
    BY <1>1
  <2>2. w[1].kind # "full"
    BY <1>3, <2>1
  <2>3. \A k \in 1 .. (j - 1) - 1 : Tail(w)[k].kind # "full"
    BY <1>1, <1>3
  <2> QED
    BY <1>3, <2>2, <2>3 DEF Leaves, Shows
<1> QED
  BY <1>2, <1>3 DEF Shows

\* Sending keeps UnderOwn when a partial frame is one of the session on show.
LEMMA UnderAppend ==
    ASSUME NEW w \in Seq(Message), NEW has, NEW yaml, UnderOwn(w, has, yaml),
           NEW m \in Message,
           m.kind = "partial" => Shows(w, has, yaml, Len(w) + 1, m.session)
    PROVE  UnderOwn(Append(w, m), has, yaml)
<1> SUFFICES ASSUME NEW j \in 1 .. Len(w) + 1, Append(w, m)[j].kind = "partial"
             PROVE  Shows(Append(w, m), has, yaml, j, Append(w, m)[j].session)
  BY AppendItems DEF UnderOwn
<1>1. Len(w) \in Nat /\ Append(w, m)[Len(w) + 1] = m
  BY AppendItems
<1>2. CASE j = Len(w) + 1
  <2>1. Shows(w, has, yaml, Len(w) + 1, m.session)
    BY <1>1, <1>2
  <2>2. Shows(Append(w, m), has, yaml, Len(w) + 1, m.session)
    BY <2>1, <1>1, ShowsAppend
  <2> QED
    BY <2>2, <1>1, <1>2
<1>3. CASE j \in 1 .. Len(w)
  <2>1. Append(w, m)[j] = w[j]
    BY <1>3, AppendItems
  <2>2. Shows(w, has, yaml, j, w[j].session)
    BY <1>3, <2>1 DEF UnderOwn
  <2> QED
    BY <2>1, <2>2, ShowsAppend
<1> QED
  BY <1>1, <1>2, <1>3

LEMMA UnderTail ==
    ASSUME NEW w \in Seq(Message), w # <<>>, NEW has, NEW yaml, NEW has2, NEW yaml2,
           Leaves(w[1], has, yaml, has2, yaml2), UnderOwn(w, has, yaml)
    PROVE  UnderOwn(Tail(w), has2, yaml2)
<1> SUFFICES ASSUME NEW j \in 1 .. Len(w) - 1, Tail(w)[j].kind = "partial"
             PROVE  Shows(Tail(w), has2, yaml2, j, Tail(w)[j].session)
  BY TailItems DEF UnderOwn
<1>1. Len(w) \in Nat /\ j + 1 \in 2 .. Len(w) + 1 /\ j + 1 \in 1 .. Len(w) /\ Tail(w)[j] = w[j + 1]
  BY TailItems
<1>2. Shows(w, has, yaml, j + 1, w[j + 1].session)
  BY <1>1 DEF UnderOwn
<1>3. Shows(Tail(w), has2, yaml2, (j + 1) - 1, w[j + 1].session)
  BY <1>1, <1>2, ShowsTail
<1> QED
  BY <1>1, <1>3

\* What is sent: session info, then whatever comes of it, is the session's.
LEMMA SentOwn ==
    ASSUME TypeOK, OwnSession, faults = 0, SrcSendFull \/ SrcSendPartial, faults' = 0,
           UNCHANGED <<has_full_frame, map>>
    PROVE  OwnSession'
<1> DEFINE has == has_full_frame
           yaml == map.yaml
<1>t. WireTypeOK /\ SourceTypeOK /\ wire \in Seq(Message) /\ session \in Sessions
  BY DEF TypeOK, WireTypeOK, SourceTypeOK
<1>u. UnderOwn(wire, has, yaml) /\ Len(wire) \in Nat
  BY <1>t DEF OwnSession
<1>w. ASSUME UnderOwn(wire', has, yaml),
             Shows(wire', has, yaml, Len(wire') + 1, last_session_update')
      PROVE  OwnSession'
  BY <1>w DEF OwnSession
<1>1. CASE SrcSendFull
  <2> DEFINE m == SessionInfo(session)
             v == Append(wire, LeadFragment)
  <2>m. /\ m \in Message /\ m.kind = "full" /\ m.session = session
        /\ LeadFragment \in Message /\ LeadFragment.kind = "fragment"
    BY <1>t DEF Message, SessionInfo, LeadFragment
  <2>l. last_session_update' = session
    BY <1>1 DEF SrcSendFull
  <2>v. v \in Seq(Message) /\ UnderOwn(v, has, yaml)
    BY <2>m, <1>t, <1>u, UnderAppend, AppendItems
  <2>1. wire' = Append(wire, m) \/ wire' = Append(v, m)
    <3> DEFINE ms == IF LeadFragments = 1 THEN <<LeadFragment, m>> ELSE <<m>>
    <3>1. PICK gone \in BOOLEAN : Transmit(ms, gone)
      BY <1>1 DEF SrcSendFull
    <3> HIDE DEF ms
    <3>2. wire' = wire \o ms
      BY <3>1 DEF Transmit, Fault
    <3>3. wire \o <<m>> = Append(wire, m) /\ wire \o <<LeadFragment, m>> = Append(v, m)
      BY <2>m, <1>t, AppendItems, AppendTwo
    <3> QED
      BY <3>2, <3>3 DEF ms
  <2> HIDE DEF m, v, has, yaml
  <2>2. CASE wire' = Append(wire, m)
    <3>1. UnderOwn(Append(wire, m), has, yaml)
      BY <2>m, <1>t, <1>u, UnderAppend
    <3>2. Shows(Append(wire, m), has, yaml, Len(wire) + 2, session)
      BY <2>m, <1>t, ShowsNew
    <3>3. Len(wire') + 1 = Len(wire) + 2
      BY <2>2, <2>m, <1>t, <1>u, AppendItems
    <3> QED
      BY <3>1, <3>2, <3>3, <2>2, <2>l, <1>w DEF has, yaml
  <2>3. CASE wire' = Append(v, m)
    <3>1. UnderOwn(Append(v, m), has, yaml)
      BY <2>m, <2>v, UnderAppend
    <3>2. Shows(Append(v, m), has, yaml, Len(v) + 2, session)
      BY <2>m, <2>v, ShowsNew
    <3>3. Len(wire') + 1 = Len(v) + 2
      <4>1. Len(v) \in Nat /\ Len(wire') = Len(v) + 1
        BY <2>3, <2>m, <2>v, AppendItems
      <4> QED
        BY <4>1
    <3> QED
      BY <3>1, <3>2, <3>3, <2>3, <2>l, <1>w DEF has, yaml
  <2> QED
    BY <2>1, <2>2, <2>3
<1>2. CASE SrcSendPartial
  <2> DEFINE m == Partial(UseDelta, Payload(tick, session), source_prev, session, unsent)
  <2>m. m.kind = "partial" /\ m.session = session
    BY DEF Partial
  <2>l. last_session_update = session /\ last_session_update' = session
    BY <1>2 DEF SrcSendPartial, NeedsFull
  <2>t. m \in Message
    BY <1>2, <1>t, PartialIsMessage
  <2>s. Shows(wire, has, yaml, Len(wire) + 1, session)
    BY <2>l, <1>t, ConstantTypes DEF OwnSession, NoSession
  <2>1. wire' = Append(wire, m)
    <3>1. PICK gone \in BOOLEAN : Transmit(<<m>>, gone)
      BY <1>2 DEF SrcSendPartial
    <3> HIDE DEF m
    <3>2. wire' = wire \o <<m>>
      BY <3>1 DEF Transmit, Fault
    <3> QED
      BY <3>2, <2>t, <1>t, AppendItems
  <2> HIDE DEF m, has, yaml
  <2>2. UnderOwn(Append(wire, m), has, yaml)
    BY <2>m, <2>t, <2>s, <1>t, <1>u, UnderAppend
  <2>3. Shows(Append(wire, m), has, yaml, Len(wire) + 2, session)
    BY <2>m, <2>t, <2>s, <1>t, ShowsQuiet
  <2>4. Len(wire') + 1 = Len(wire) + 2
    BY <2>1, <2>t, <1>t, <1>u, AppendItems
  <2> QED
    BY <2>1, <2>2, <2>3, <2>4, <2>l, <1>w DEF has, yaml
<1> QED
  BY <1>1, <1>2

\* The other steps of the simulator and of the source say nothing of a session.
LEMMA SourceOwn ==
    ASSUME TypeOK, OwnSession, SourceNext, faults' = 0, UNCHANGED targetVars
    PROVE  OwnSession'
<1>t. WireTypeOK /\ SourceTypeOK /\ wire \in Seq(Message) /\ faults \in Nat
  BY ConstantTypes DEF TypeOK, WireTypeOK, SourceTypeOK
<1>n. \A f : ~ Fault(f)
  BY <1>t DEF Fault
<1>u. UNCHANGED <<has_full_frame, map>>
  BY DEF targetVars
<1>1. CASE SrcSendFull \/ SrcSendPartial
  <2>1. faults = 0
    BY <1>1, <1>n DEF SrcSendFull, SrcSendPartial, Transmit
  <2> QED
    BY <2>1, <1>1, <1>u, SentOwn
<1>2. CASE SrcIdle
  <2>f. faults = 0
    BY <1>2 DEF SrcIdle
  <2>l. last_session_update' \in {last_session_update, NoSession}
    BY <1>2 DEF SrcIdle
  <2>1. wire' = wire \/ wire' = Append(wire, Heartbeat)
    BY <1>2 DEF SrcIdle
  <2>2. CASE wire' = wire
    BY <2>2, <2>f, <2>l, <1>u DEF OwnSession
  <2>3. CASE wire' = Append(wire, Heartbeat)
    <3>h. Heartbeat \in Message /\ Heartbeat.kind = "heartbeat"
      BY ConstantMessages DEF Heartbeat
    <3>1. UnderOwn(wire', has_full_frame, map.yaml)
      BY <3>h, <2>3, <2>f, <1>t, UnderAppend DEF OwnSession
    <3>2. last_session_update' # NoSession =>
             Shows(wire', has_full_frame, map.yaml, Len(wire) + 2, last_session_update')
      BY <3>h, <2>3, <2>f, <2>l, <1>t, ShowsQuiet DEF OwnSession
    <3>3. Len(wire') + 1 = Len(wire) + 2
      <4>1. Len(wire) \in Nat /\ Len(wire') = Len(wire) + 1
        BY <3>h, <2>3, <1>t, AppendItems
      <4> QED
        BY <4>1
    <3> QED
      BY <3>1, <3>2, <3>3, <1>u DEF OwnSession
  <2> QED
    BY <2>1, <2>2, <2>3
<1>3. CASE SimStop \/ SrcTorn \/ SrcRestart
  BY <1>3, <1>n DEF SimStop, SrcTorn, SrcRestart
<1>4. CASE SimTick \/ SimSignal \/ SimSession \/ SimStart \/ SrcOpen \/ SrcDuplicateTick \/ FullDue
  <2>1. UNCHANGED <<wire, faults, last_session_update>>
    BY <1>4 DEF SimTick, SimSignal, SimSession, SimStart, SrcOpen, SrcDuplicateTick, FullDue, Skip,
                sourceVars, sendVars
  <2> QED
    BY <2>1, <1>u DEF OwnSession
<1> QED
  BY <1>1, <1>2, <1>3, <1>4 DEF SourceNext, SimNext, SourceLoop

\* What the target takes from the path, unless a frame cannot be decoded.
LEMMA TargetOwn ==
    ASSUME TypeOK, RowNeedsSessionInfo, OwnSession, "garble" \notin TargetFaults, TargetNext,
           UNCHANGED <<faults, last_session_update>>
    PROVE  OwnSession'
<1>t. WireTypeOK /\ TargetTypeOK /\ wire \in Seq(Message)
  BY DEF TypeOK, WireTypeOK
<1>o. OpenMap \in MapType /\ (has_full_frame => OpenMap = map)
  BY <1>t, OpenMapType DEF RowNeedsSessionInfo, OpenMap
<1>1. ASSUME wire # <<>>, wire' = Tail(wire),
             Leaves(Head(wire), has_full_frame, map.yaml, has_full_frame', map'.yaml)
      PROVE  OwnSession'
  <2>1. /\ wire[1] = Head(wire) /\ Len(wire) \in Nat /\ Len(wire) > 0
        /\ Len(wire') = Len(wire) - 1
    BY <1>1, <1>t, TailItems
  <2>2. ASSUME faults = 0 PROVE UnderOwn(wire', has_full_frame', map'.yaml)
    BY <1>1, <1>t, <2>1, <2>2, UnderTail DEF OwnSession
  <2>3. ASSUME faults = 0, last_session_update # NoSession
        PROVE  Shows(wire', has_full_frame', map'.yaml, Len(wire') + 1, last_session_update)
    <3>1. Shows(wire, has_full_frame, map.yaml, Len(wire) + 1, last_session_update)
      BY <2>3 DEF OwnSession
    <3>2. Len(wire) + 1 \in 2 .. Len(wire) + 1 /\ Len(wire') + 1 = (Len(wire) + 1) - 1
      BY <2>1
    <3> QED
      BY <3>1, <3>2, <2>1, <1>1, <1>t, ShowsTail
  <2> QED
    BY <2>2, <2>3 DEF OwnSession
<1>2. CASE TgtFull
  <2>1. Arrives("full") /\ map' = [OpenMap EXCEPT !.yaml = Head(wire).session]
    BY <1>2 DEF TgtFull
  <2>2. map'.yaml = Head(wire).session
    BY <2>1, <1>o DEF MapType
  <2> QED
    BY <2>1, <2>2, <1>1, <1>t, ArrivesTypes DEF Leaves
<1>3. CASE TgtPartial
  <2>1. Arrives("partial") /\ has_full_frame /\ has_full_frame' = has_full_frame
    BY <1>3 DEF TgtPartial
  <2>2. map'.yaml = map.yaml
    BY <1>3, <2>1, <1>o DEF TgtPartial, MapType
  <2> QED
    BY <2>1, <2>2, <1>1, <1>t, ArrivesTypes DEF Leaves
<1>4. CASE TgtPartialTooEarly
  <2>1. Arrives("partial") /\ ~ has_full_frame'
    BY <1>4 DEF TgtPartialTooEarly
  <2> QED
    BY <2>1, <1>1, <1>t, ArrivesTypes DEF Leaves
<1>5. CASE TgtHeartbeat \/ TgtFragment
  <2>1. /\ Arrives("heartbeat") \/ Arrives("fragment")
        /\ UNCHANGED <<map, has_full_frame>>
    BY <1>5 DEF TgtHeartbeat, TgtFragment
  <2> QED
    BY <2>1, <1>1, <1>t, ArrivesTypes DEF Leaves
<1>6. CASE TgtGarbled
  BY <1>6 DEF TgtGarbled
<1>7. CASE TgtStale \/ TgtRestart
  <2>1. wire' = wire /\ has_full_frame' = FALSE
    BY <1>7 DEF TgtStale, TgtRestart, Reset
  <2>2. \A j, s : Shows(wire, has_full_frame, map.yaml, j, s)
                     => Shows(wire, FALSE, map'.yaml, j, s)
    BY DEF Shows
  <2> QED
    BY <2>1, <2>2 DEF OwnSession, UnderOwn
<1>8. CASE ResyncDue
  BY <1>8 DEF ResyncDue, OwnSession
<1> QED
  BY <1>2, <1>3, <1>4, <1>5, <1>6, <1>7, <1>8 DEF TargetNext, TargetReceives

LEMMA OwnSessionStep ==
    ASSUME TypeOK, RowNeedsSessionInfo, OwnSession, "garble" \notin TargetFaults, [Next]_vars
    PROVE  OwnSession'
<1> SUFFICES ASSUME faults' = 0 PROVE OwnSession'
  BY DEF OwnSession
<1>1. CASE SourceNext /\ UNCHANGED targetVars
  BY <1>1, SourceOwn
<1>2. CASE TargetNext /\ UNCHANGED <<simVars, sourceVars, faults>>
  BY <1>2, TargetOwn DEF sourceVars, sendVars
<1>3. CASE LoseMessage \/ LoseRequest \/ OldTargetRequest
  <2>1. faults \in Nat
    BY ConstantTypes DEF TypeOK, SourceTypeOK
  <2>2. faults' = faults + 1
    <3>1. Fault("lose") \/ Fault("lose_request") \/ Fault("old_target")
      BY <1>3 DEF LoseMessage, LoseRequest, OldTargetRequest
    <3> QED
      BY <3>1 DEF Fault
  <2> QED
    BY <2>1, <2>2
<1>4. CASE UNCHANGED vars
  BY <1>4 DEF vars, targetVars, sourceVars, sendVars, OwnSession
<1> QED
  BY <1>1, <1>2, <1>3, <1>4 DEF Next

\* A frame is never shown under another session's YAML as long as nothing was
\* lost, refused or restarted, however the sessions change, the connection is
\* given up and made again, and the map goes stale (source.rs:318-323,
\* target.rs:274-318).  A frame that does not decompress would be such a loss.
THEOREM OwnYaml ==
    ASSUME "garble" \notin TargetFaults
    PROVE  Spec => WrittenUnderOwnSession
<1>1. Init => OwnSession
  BY DEF Init, SourceInit, TargetInit, OwnSession, UnderOwn
<1>2. TypeOK /\ RowNeedsSessionInfo /\ OwnSession /\ [Next]_vars => OwnSession'
  BY OwnSessionStep
<1>3. TypeOK /\ RowNeedsSessionInfo /\ OwnSession
         => (TgtPartial /\ faults = 0 => map'.yaml = Head(wire).session)
  <2> SUFFICES ASSUME TypeOK, RowNeedsSessionInfo, OwnSession, TgtPartial, faults = 0
               PROVE  map'.yaml = Head(wire).session
    OBVIOUS
  <2>t. WireTypeOK /\ TargetTypeOK /\ wire \in Seq(Message)
    BY DEF TypeOK, WireTypeOK
  <2>1. Arrives("partial") /\ has_full_frame /\ has_full_frame = TRUE
    BY <2>t DEF TgtPartial, TargetTypeOK
  <2>2. /\ wire # <<>> /\ Head(wire).kind = "partial"
        /\ Head(wire) = wire[1] /\ 1 \in 1 .. Len(wire)
    BY <2>1, <2>t, ArrivesTypes, TailItems
  <2>3. Shows(wire, has_full_frame, map.yaml, 1, wire[1].session)
    BY <2>2 DEF OwnSession, UnderOwn
  <2>4. map.yaml = wire[1].session
    BY <2>1, <2>3 DEF Shows
  <2>5. OpenMap \in MapType /\ OpenMap = map
    BY <2>1, <2>t, OpenMapType DEF RowNeedsSessionInfo, OpenMap
  <2>6. map'.yaml = map.yaml
    BY <2>5 DEF TgtPartial, MapType
  <2> QED
    BY <2>2, <2>4, <2>6
<1> QED
  BY <1>1, <1>2, <1>3, TeleportTypes, SessionInfoFirst, PTL DEF Spec, WrittenUnderOwnSession

=============================================================================
