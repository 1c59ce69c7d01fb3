--------------------------- MODULE LiveMapProof ---------------------------
(***************************************************************************)
(* Proofs about LiveMap, for every ring of up to four slots, any number of *)
(* ticks and sessions, and all faults.  The inductive invariant comes in   *)
(* five layers, each proved from those above it: the types and the shape   *)
(* of what is under way (Typed), the ring and the copy taken of it         *)
(* (CopyInv, ConnectInv), the order of the headers on their way (Chain),   *)
(* the .ibt files (FileInv), and the age of the YAML (UpdateInv, YamlInv). *)
(***************************************************************************)
EXTENDS LiveMap, FiniteSetTheorems, TLAPS

-----------------------------------------------------------------------------
(* The invariant *)

Copying == copy.at \in {"header", "first", "second", "check"}

\* What the frame being written says of the map.
Shape ==
    /\ frame.at = "recv" <=> frame = Idle
    /\ frame.at = "yaml" => frame.of.kind = "full"
    /\ frame.at = "header" => frame.of.kind = "partial"
    /\ frame.at # "recv" => map.made /\ frame.of.kind \in {"full", "partial"}
    /\ has_full_frame => map.made

\* The simulator writes a slot as a whole, for a later tick than it shows.
RingInv ==
    \A s \in Slots :
        ring[s].row[2] = ring[s].row[1] /\ ring[s].tick <= ring[s].row[1]

Typed ==
    /\ RingTypeOK
    /\ map \in MapType
    /\ frame \in [at : {"recv", "yaml", "header", "written"}, of : Frame]
    /\ has_full_frame \in BOOLEAN
    /\ stops \in 0 .. MaxStops
    /\ lost \in BOOLEAN
    /\ Shape
    /\ RingInv

\* As long as the slot is the chosen tick's, so are the halves copied from it.
CopyInv ==
    /\ signal => \E s \in Slots : ring[s].tick >= 1
    /\ Copying =>
         /\ 1 <= copy.tick /\ copy.tick <= ring[copy.slot].tick
         /\ copy.at \in {"second", "check"} => copy.row[1] >= 1
         /\ ring[copy.slot].tick = copy.tick /\ ~ Overwriting(copy.slot) =>
              /\ copy.at \in {"second", "check"} => copy.row[1] = copy.tick
              /\ copy.at = "check" => copy.row[2] = copy.tick

\* No partial frame has a slot that was never written.
ConnectInv ==
    /\ sent.kind = "partial" => sent.row # Zeros
    /\ frame.of.kind = "partial" => frame.of.row # Zeros
    /\ map.status = 1 \/ frame.at = "header" => \E s \in Slots : map.rows[s] # Zeros

\* No slot's tick is later in a than in b.
Before(a, b) == \A s \in Slots : a[s] <= b[s]

\* The headers on their way, the simulator's last: a header that is not there
\* counts as the one before it.
NoTicks == [s \in Slots |-> 0]
MapTicks == map.ticks
FrameTicks == IF frame.at = "recv" THEN MapTicks ELSE frame.of.ticks
SentTicks == IF sent = NoFrame THEN FrameTicks ELSE sent.ticks
CopyTicks == IF Copying \/ copy.at = "yaml" THEN copy.ticks ELSE SentTicks

\* They are in the order in which they were read.
Chain ==
    /\ Before(MapTicks, FrameTicks)
    /\ Before(FrameTicks, SentTicks)
    /\ Before(SentTicks, CopyTicks)
    /\ Before(CopyTicks, Ticks)

\* The tick a reader of the map finds.
ActiveTick(ticks) == ticks[Active(ticks)]

Subheader == [records : Nat, laps : Nat, start_time : Tick, end_time : Tick]

File ==
    [session : Sessions, yaml : Sessions \cup {NoSession}, data : Seq(Tick),
     sub : Subheader, final : BOOLEAN, rows : Seq(Row), ticks : Seq(Tick)]

OpenFile ==
    [is : {TRUE}, session : Sessions, record_count : Nat, start_time : Tick, end_time : Tick,
     lap_count : Nat, last_lap : Int, last_tick : Tick \cup {NoTick}]

Writer == [open : {Closed} \cup OpenFile, files : Seq(File)]

\* The subheader that finish() would write now.
SubheaderOf(o) ==
    [records |-> o.record_count, laps |-> o.lap_count,
     start_time |-> o.start_time, end_time |-> o.end_time]

\* The statistics kept up row by row are those of the rows.
Tallied(o, rows) ==
    /\ Describes(SubheaderOf(o), rows)
    /\ \A j \in DOMAIN rows : LapOf(rows[j]) <= o.last_lap
    /\ rows # <<>> => \E j \in DOMAIN rows : LapOf(rows[j]) = o.last_lap

\* No row is of a later tick than the writer has seen.
Behind(ticks, tick) == \A j \in DOMAIN ticks : ticks[j] <= tick

Ascends(ticks) == \A j, k \in DOMAIN ticks : j < k => ticks[j] < ticks[k]

\* The data is the rows, unless it is longer than they are.
Aligned(data, rows) ==
    /\ 2 * Len(rows) <= Len(data)
    /\ Len(data) = 2 * Len(rows) => \A j \in DOMAIN rows : RowAt(data, j) = rows[j]

Sound(file) ==
    /\ Ascends(file.ticks)
    /\ Aligned(file.data, file.rows)
    /\ file.final => Describes(file.sub, file.rows)
    /\ ~ file.final => file.sub = Placeholder

WriterInv(w) ==
    /\ w \in Writer
    /\ w.open.is =>
         /\ w.files # <<>>
         /\ ~ w.files[Last(w)].final
         /\ w.open.session = w.files[Last(w)].session
         /\ Tallied(w.open, w.files[Last(w)].rows)
         /\ Behind(w.files[Last(w)].ticks, w.open.last_tick)
    /\ \A i \in DOMAIN w.files : Sound(w.files[i])

\* The open file is not ahead of the map.
FileInv ==
    /\ WriterInv(ibt)
    /\ ibt.open.is => map.made /\ ibt.open.last_tick <= ActiveTick(map.ticks)

\* The YAML and the sessionInfoUpdate the map has once the frame being written
\* is, and the last YAML on its way.
YamlAfter == IF frame.at = "yaml" THEN frame.of.yaml ELSE map.yaml
UpdateAfter == IF frame.at = "header" THEN frame.of.update ELSE map.update
LastYaml == IF sent.kind = "full" THEN sent.yaml ELSE YamlAfter

\* There is, or is going to be, a YAML in the map.
HasYaml == has_full_frame \/ frame.at = "yaml"

\* The sessionInfoUpdates of the headers on their way.
FrameUpdate == IF frame.at = "recv" THEN map.update ELSE frame.of.update
SentUpdate == IF sent = NoFrame THEN FrameUpdate ELSE sent.update
Updates == {0, map.update, FrameUpdate, SentUpdate}

\* None is ahead of the simulator, whose YAML is not behind it; and while a
\* partial frame is copied none is ahead of the check that chose it.
UpdateInv ==
    /\ update <= session_info
    /\ last_session_update <= update
    /\ \A u \in Updates : u <= update
    /\ copy.at = "yaml" => copy.update <= update
    /\ Copying => copy.update <= update /\ \A u \in Updates : u <= last_session_update

\* A session-info frame is being copied.
CopyingFull == copy.at \in {"prefix", "yaml"}

\* Unless a session-info frame was lost, the last YAML on its way is the one
\* the source thinks it has sent, and a partial frame finds a map that it is
\* not ahead of.
YamlInv ==
    ~ lost =>
      /\ ~ CopyingFull /\ (HasYaml \/ sent.kind = "full") => last_session_update <= LastYaml
      /\ sent.kind = "partial" /\ HasYaml => UpdateAfter <= YamlAfter

-----------------------------------------------------------------------------
(* The active slot *)

\* A ring has a slot with the highest tick, the first of them.
LEMMA ActiveSlot ==
    ASSUME NEW ticks \in [Slots -> Tick]
    PROVE  /\ Active(ticks) \in Slots
           /\ \A r \in Slots : ticks[r] <= ticks[Active(ticks)]
<1> DEFINE Best(s) == \A r \in Slots : ticks[r] < ticks[s] \/ (ticks[r] = ticks[s] /\ s <= r)
<1>1. NumBuf \in 1 .. 4
  BY RingAssumption
<1>2. \A s \in Slots : s \in Int /\ ticks[s] \in Int
  BY <1>1 DEF Slots, Tick
<1>3. \E s \in Slots : Best(s)
  <2>1. CASE NumBuf = 1
    BY <2>1, <1>2 DEF Slots
  <2>2. CASE NumBuf = 2
    <3>1. Slots = {0, 1}
      BY <2>2 DEF Slots
    <3> QED BY <3>1, <1>2
  <2>3. CASE NumBuf = 3
    <3>1. Slots = {0, 1, 2}
      BY <2>3 DEF Slots
    <3> QED BY <3>1, <1>2
  <2>4. CASE NumBuf = 4
    <3>1. Slots = {0, 1, 2, 3}
      BY <2>4 DEF Slots
    <3> QED BY <3>1, <1>2, SMTT(60)
  <2> QED BY <1>1, <2>1, <2>2, <2>3, <2>4
<1>4. Active(ticks) \in Slots /\ Best(Active(ticks))
  BY <1>3 DEF Active
<1> QED BY <1>4, <1>2

\* The highest tick of a later header is not lower.
LEMMA ActiveTickGrows ==
    ASSUME NEW a \in [Slots -> Tick], NEW b \in [Slots -> Tick], Before(a, b)
    PROVE  ActiveTick(a) \in Tick /\ ActiveTick(a) <= ActiveTick(b)
<1>1. Active(a) \in Slots /\ Active(b) \in Slots
  BY ActiveSlot
<1>2. a[Active(a)] <= b[Active(a)] /\ b[Active(a)] <= b[Active(b)]
  BY <1>1, ActiveSlot DEF Before
<1>3. a[Active(a)] \in Tick /\ b[Active(a)] \in Tick /\ b[Active(b)] \in Tick
  BY <1>1
<1> QED BY <1>2, <1>3 DEF ActiveTick, Tick

-----------------------------------------------------------------------------
(* The rows of a file *)

\* A half of a row is replaced alone.
LEMMA RowHalves ==
    ASSUME NEW row \in Row, NEW t \in Tick
    PROVE  /\ row[1] \in Tick /\ row[2] \in Tick
           /\ [row EXCEPT ![1] = t][1] = t /\ [row EXCEPT ![1] = t][2] = row[2]
           /\ [row EXCEPT ![2] = t][1] = row[1] /\ [row EXCEPT ![2] = t][2] = t
           /\ [row EXCEPT ![1] = t] \in Row /\ [row EXCEPT ![2] = t] \in Row
BY DEF Row

LEMMA RowParts ==
    ASSUME NEW row \in Row
    PROVE  SessionTime(row) \in Tick /\ LapOf(row) \in Int /\ row = <<row[1], row[2]>>
BY LapAssumption DEF Row, SessionTime, LapOf

\* Laps begun are at most as many as the rows.
LEMMA LapsFinite ==
    ASSUME NEW rows \in Seq(Row)
    PROVE  /\ BeginLap(rows) \subseteq 1 .. Len(rows)
           /\ IsFiniteSet(BeginLap(rows))
           /\ Cardinality(BeginLap(rows)) \in 0 .. Len(rows)
<1>1. BeginLap(rows) \subseteq 1 .. Len(rows)
  BY DEF BeginLap
<1>2. IsFiniteSet(1 .. Len(rows)) /\ Cardinality(1 .. Len(rows)) = Len(rows)
  <2> DEFINE len == Len(rows)
  <2>1. len \in Nat
    OBVIOUS
  <2> HIDE DEF len
  <2>2. IsFiniteSet(1 .. len) /\ Cardinality(1 .. len) = len
    BY ONLY <2>1, FS_Interval
  <2> QED BY <2>2 DEF len
<1>3. IsFiniteSet(BeginLap(rows)) /\ Cardinality(BeginLap(rows)) <= Len(rows)
  BY <1>1, <1>2, FS_Subset
<1>4. Cardinality(BeginLap(rows)) \in Nat /\ Len(rows) \in Nat
  BY <1>3, FS_CardinalityType
<1> QED BY <1>1, <1>3, <1>4

\* One more row begins a lap when all before it are of earlier ones.
LEMMA AppendLap ==
    ASSUME NEW rows \in Seq(Row), NEW row \in Row
    PROVE  LET more == Append(rows, row)
               n == Len(rows) + 1
               begins == \A k \in DOMAIN rows : LapOf(rows[k]) < LapOf(row)
           IN  /\ DOMAIN more = DOMAIN rows \cup {n} /\ Len(more) = n /\ n \in Nat
               /\ more[n] = row
               /\ \A j \in DOMAIN rows : j \in Nat /\ j < n /\ more[j] = rows[j]
               /\ begins => Cardinality(BeginLap(more)) = Cardinality(BeginLap(rows)) + 1
               /\ ~ begins => Cardinality(BeginLap(more)) = Cardinality(BeginLap(rows))
<1> DEFINE more == Append(rows, row)
           n == Len(rows) + 1
           begins == \A k \in DOMAIN rows : LapOf(rows[k]) < LapOf(row)
<1>1. /\ DOMAIN more = DOMAIN rows \cup {n} /\ Len(more) = n /\ n \in Nat
      /\ more[n] = row
      /\ \A j \in DOMAIN rows : j \in Nat /\ j < n /\ more[j] = rows[j]
  OBVIOUS
<1> HIDE DEF more, n
<1>2. BeginLap(more) = BeginLap(rows) \cup (IF begins THEN {n} ELSE {})
  <2>1. \A j \in DOMAIN rows : j \in BeginLap(more) <=> j \in BeginLap(rows)
    BY <1>1 DEF BeginLap
  <2>2. n \in BeginLap(more) <=> begins
    BY <1>1 DEF BeginLap
  <2> QED BY <2>1, <2>2, <1>1 DEF BeginLap
<1>3. IsFiniteSet(BeginLap(rows)) /\ n \notin BeginLap(rows)
  <2>1. n \notin DOMAIN rows
    BY <1>1
  <2> QED BY <2>1, LapsFinite DEF BeginLap
<1>4. /\ begins => Cardinality(BeginLap(more)) = Cardinality(BeginLap(rows)) + 1
      /\ ~ begins => BeginLap(more) = BeginLap(rows)
  BY <1>2, <1>3, FS_AddElement
<1> HIDE DEF begins
<1> QED BY <1>1, <1>4 DEF more, n, begins

LEMMA TickNumbers ==
    ASSUME NEW ticks \in Seq(Tick)
    PROVE  \A j \in DOMAIN ticks : ticks[j] \in Int
<1>1. \A j \in DOMAIN ticks : ticks[j] \in Tick
  OBVIOUS
<1> QED BY <1>1 DEF Tick

LEMMA AppendAscends ==
    ASSUME NEW ticks \in Seq(Tick), NEW tick \in Tick, Ascends(ticks),
           \A j \in DOMAIN ticks : ticks[j] < tick
    PROVE  Ascends(Append(ticks, tick)) /\ Behind(Append(ticks, tick), tick)
<1> DEFINE more == Append(ticks, tick)
<1>1. DOMAIN more = DOMAIN ticks \cup {Len(ticks) + 1} /\ more[Len(ticks) + 1] = tick
  OBVIOUS
<1>2. \A j \in DOMAIN ticks : more[j] = ticks[j] /\ j \in 1 .. Len(ticks) /\ ticks[j] \in Int
  BY TickNumbers
<1>3. tick \in Int
  BY DEF Tick
<1> QED BY <1>1, <1>2, <1>3 DEF Ascends, Behind

\* A row of the data is its two halves; what follows does not change it.
LEMMA AppendAligned ==
    ASSUME NEW data \in Seq(Tick), NEW rows \in Seq(Row), NEW row \in Row, Aligned(data, rows)
    PROVE  Aligned(data \o <<row[1], row[2]>>, Append(rows, row))
<1> DEFINE longer == data \o <<row[1], row[2]>>
           more == Append(rows, row)
           n == Len(rows) + 1
<1>1. /\ Len(longer) = Len(data) + 2 /\ Len(data) \in Nat /\ Len(rows) \in Nat /\ Len(more) = n
      /\ DOMAIN more = DOMAIN rows \cup {n} /\ DOMAIN rows = 1 .. Len(rows) /\ more[n] = row
      /\ \A j \in DOMAIN rows : more[j] = rows[j]
  BY RowHalves
<1>2. /\ \A i \in 1 .. Len(data) : longer[i] = data[i]
      /\ longer[Len(data) + 1] = row[1] /\ longer[Len(data) + 2] = row[2]
  BY RowHalves
<1> HIDE DEF longer, more
<1>3. ASSUME Len(longer) = 2 * Len(more), NEW j \in DOMAIN more
      PROVE  RowAt(longer, j) = more[j]
  <2>1. Len(data) = 2 * Len(rows)
    BY <1>1, <1>3
  <2>2. CASE j = n
    <3>1. longer[2 * j - 1] = row[1] /\ longer[2 * j] = row[2]
      <4>1. 2 * j - 1 = Len(data) + 1 /\ 2 * j = Len(data) + 2
        BY <2>1, <2>2, <1>1
      <4> QED BY <4>1, <1>2
    <3> QED BY <3>1, <2>2, <1>1, RowParts DEF RowAt
  <2>3. CASE j \in DOMAIN rows
    <3>1. 2 * j - 1 \in 1 .. Len(data) /\ 2 * j \in 1 .. Len(data)
      BY <2>1, <2>3, <1>1
    <3>2. longer[2 * j - 1] = data[2 * j - 1] /\ longer[2 * j] = data[2 * j]
      BY <3>1, <1>2
    <3> QED BY <2>1, <2>3, <3>2, <1>1 DEF Aligned, RowAt
  <2> QED BY <2>2, <2>3, <1>1, <1>3
<1>4. 2 * Len(more) <= Len(longer)
  BY <1>1 DEF Aligned
<1> QED BY <1>3, <1>4 DEF Aligned, longer, more

-----------------------------------------------------------------------------
(* The statistics of the open file *)

\* The subheader of a new file is that of no rows.
LEMMA DescribesNothing ==
    ASSUME NEW sub, sub.records = 0, sub.laps = 0
    PROVE  Describes(sub, <<>>)
<1>1. BeginLap(<<>>) = {} /\ Cardinality({}) = 0
  BY FS_EmptySet DEF BeginLap
<1>2. Len(<<>>) = 0 /\ DOMAIN <<>> = {}
  OBVIOUS
<1>3. sub.laps = Cardinality(BeginLap(<<>>))
  BY <1>1
<1>4. \A j \in DOMAIN <<>> : SessionTime(<<>>[j]) <= sub.end_time
  BY <1>2
<1> QED BY <1>2, <1>3, <1>4 DEF Describes

\* One more row: the count, the first and the highest SessionTime, and a lap
\* when the highest lap so far is passed.
LEMMA TallyRow ==
    ASSUME NEW o \in OpenFile, NEW rows \in Seq(Row), Tallied(o, rows),
           NEW row \in Row, NEW tick \in Tick
    PROVE  LET c == [Counted(o, row) EXCEPT !.last_tick = tick]
           IN  c \in OpenFile /\ c.session = o.session /\ Tallied(c, Append(rows, row))
<1> DEFINE c == [Counted(o, row) EXCEPT !.last_tick = tick]
           more == Append(rows, row)
           n == Len(rows) + 1
           first == o.record_count = 0
           t == SessionTime(row)
           l == LapOf(row)
           before == IF first THEN l - 1 ELSE o.last_lap
           start == IF first THEN t ELSE o.start_time
           end == IF first \/ t > o.end_time THEN t ELSE o.end_time
           laps == IF l > before THEN o.lap_count + 1 ELSE o.lap_count
           last == IF l > before THEN l ELSE before
           begins == \A k \in DOMAIN rows : LapOf(rows[k]) < l
<1>1. t \in Tick /\ l \in Int /\ t \in Nat
  BY RowParts DEF Tick
<1>2. /\ o.record_count \in Nat /\ o.lap_count \in Nat /\ o.last_lap \in Int
      /\ o.start_time \in Tick /\ o.end_time \in Tick /\ o.start_time \in Nat /\ o.end_time \in Nat
      /\ o.session \in Sessions
  BY DEF OpenFile, Tick
<1>3. /\ c \in OpenFile
      /\ c.session = o.session
      /\ c.record_count = o.record_count + 1
      /\ c.start_time = start
      /\ c.end_time = end
      /\ c.lap_count = laps
      /\ c.last_lap = last
  <2>1. c = [o EXCEPT
              !.record_count = o.record_count + 1,
              !.start_time = start, !.end_time = end, !.lap_count = laps, !.last_lap = last,
              !.last_tick = tick]
    BY DEF Counted, OpenFile
  <2>2. start \in Tick /\ end \in Tick /\ laps \in Nat /\ last \in Int
    BY <1>1, <1>2
  <2>3. o.record_count + 1 \in Nat
    BY <1>2
  <2> HIDE DEF c, start, end, laps, last
  <2> QED BY <1>1, <1>2, <2>1, <2>2, <2>3 DEF OpenFile
<1>4. o.record_count = Len(rows) /\ o.lap_count = Cardinality(BeginLap(rows))
  BY DEF Tallied, Describes, SubheaderOf
<1>5. \A j \in DOMAIN rows : SessionTime(rows[j]) \in Nat /\ LapOf(rows[j]) \in Int
  <2>1. \A j \in DOMAIN rows : rows[j] \in Row
    OBVIOUS
  <2> QED BY <2>1, RowParts DEF Tick
<1>6. /\ first <=> rows = <<>>
      /\ rows # <<>> => 1 \in DOMAIN rows
      /\ rows = <<>> => DOMAIN rows = {} /\ n = 1
  BY <1>4
<1>7. /\ DOMAIN more = DOMAIN rows \cup {n} /\ Len(more) = n /\ n \in Nat
      /\ more[n] = row
      /\ \A j \in DOMAIN rows : j < n /\ more[j] = rows[j]
  BY AppendLap
<1>8. /\ begins => Cardinality(BeginLap(more)) = o.lap_count + 1
      /\ ~ begins => Cardinality(BeginLap(more)) = o.lap_count
  BY <1>4, AppendLap
<1>9. /\ \A j \in DOMAIN rows : LapOf(rows[j]) <= o.last_lap
      /\ rows # <<>> => \E j \in DOMAIN rows : LapOf(rows[j]) = o.last_lap
  BY DEF Tallied
<1>10. begins <=> l > before
  <2>1. CASE first
    BY <2>1, <1>1, <1>6
  <2>2. CASE ~ first
    <3>1. before = o.last_lap
      BY <2>2
    <3>2. /\ \A k \in DOMAIN rows : LapOf(rows[k]) \in Int /\ LapOf(rows[k]) <= before
          /\ \E k \in DOMAIN rows : LapOf(rows[k]) = before
      BY <2>2, <3>1, <1>5, <1>6, <1>9
    <3> HIDE DEF first, before, l
    <3> QED BY <3>1, <3>2, <1>1, <1>2
  <2> QED BY <2>1, <2>2
<1> HIDE DEF c, more, n, t, l, begins, before, first, start, end, laps, last
<1>11. c.record_count = Len(more) /\ c.lap_count = Cardinality(BeginLap(more))
  BY <1>2, <1>3, <1>4, <1>7, <1>8, <1>10 DEF laps, n
<1>12. SessionTime(more[n]) = t /\ LapOf(more[n]) = l /\ n \in DOMAIN more
  BY <1>7 DEF t, l
<1>13. /\ \A j \in DOMAIN more : SessionTime(more[j]) <= c.end_time
       /\ \E j \in DOMAIN more : SessionTime(more[j]) = c.end_time
  <2>1. /\ \A j \in DOMAIN rows : SessionTime(rows[j]) <= o.end_time
        /\ rows # <<>> => \E j \in DOMAIN rows : SessionTime(rows[j]) = o.end_time
    BY DEF Tallied, Describes, SubheaderOf
  <2>2. CASE first
    BY <2>2, <1>1, <1>3, <1>6, <1>7, <1>12 DEF end
  <2>3. CASE ~ first /\ t > o.end_time
    <3>1. c.end_time = t
      BY <2>3, <1>3 DEF end
    <3>2. \A j \in DOMAIN rows : SessionTime(more[j]) \in Int /\ SessionTime(more[j]) <= o.end_time
      BY <2>1, <1>5, <1>7
    <3>3. \A j \in DOMAIN rows : SessionTime(more[j]) <= t
      BY <2>3, <3>2, <1>1, <1>2
    <3> QED BY <3>1, <3>3, <1>1, <1>7, <1>12
  <2>4. CASE ~ first /\ t <= o.end_time
    <3>1. c.end_time = o.end_time
      BY <2>4, <1>1, <1>2, <1>3 DEF end
    <3> QED BY <2>1, <2>4, <3>1, <1>6, <1>7, <1>12
  <2> QED BY <2>2, <2>3, <2>4, <1>1, <1>2
<1>14. SessionTime(more[1]) = c.start_time
  <2>1. CASE first
    BY <2>1, <1>3, <1>6, <1>12 DEF start
  <2>2. CASE ~ first
    <3>1. SessionTime(rows[1]) = o.start_time
      BY <2>2, <1>6 DEF Tallied, Describes, SubheaderOf
    <3> QED BY <2>2, <3>1, <1>3, <1>6, <1>7 DEF start
  <2> QED BY <2>1, <2>2
<1>15. /\ \A j \in DOMAIN more : LapOf(more[j]) <= c.last_lap
       /\ \E j \in DOMAIN more : LapOf(more[j]) = c.last_lap
  <2>1. CASE first
    BY <2>1, <1>1, <1>3, <1>6, <1>7, <1>12 DEF before, last
  <2>2. CASE ~ first /\ l > o.last_lap
    <3>1. c.last_lap = l
      BY <2>2, <1>3 DEF before, last
    <3>2. \A j \in DOMAIN rows : LapOf(more[j]) \in Int /\ LapOf(more[j]) <= o.last_lap
      BY <1>5, <1>7, <1>9
    <3>3. \A j \in DOMAIN rows : LapOf(more[j]) <= l
      BY <2>2, <3>2, <1>1, <1>2
    <3> QED BY <3>1, <3>3, <1>1, <1>7, <1>12
  <2>3. CASE ~ first /\ l <= o.last_lap
    <3>1. c.last_lap = o.last_lap
      BY <2>3, <1>1, <1>2, <1>3 DEF before, last
    <3> QED BY <2>3, <3>1, <1>6, <1>7, <1>9, <1>12
  <2> QED BY <2>1, <2>2, <2>3, <1>1, <1>2
<1>16. Tallied(c, more)
  BY <1>11, <1>13, <1>14, <1>15 DEF Tallied, Describes, SubheaderOf
<1> QED BY <1>3, <1>16 DEF c, more

-----------------------------------------------------------------------------
(* The operations of the writer *)

LEMMA WriterNew == WriterInv(NewWriter)
BY DEF WriterInv, Writer, NewWriter, Closed

\* Changing the last file leaves the others sound.
LEMMA LastFile ==
    ASSUME NEW w, WriterInv(w), w.open.is
    PROVE  /\ Last(w) \in DOMAIN w.files
           /\ w.files[Last(w)] \in File
           /\ w.open \in OpenFile
BY DEF WriterInv, Writer, Last, Closed

LEMMA OpenTick ==
    ASSUME NEW o \in OpenFile
    PROVE  o.last_tick \in Int
BY DEF OpenFile, Tick, NoTick

\* finish() closes the file.
LEMMA FinishSound ==
    ASSUME NEW w, WriterInv(w), NEW fails \in BOOLEAN
    PROVE  WriterInv(Finish(w, fails)) /\ ~ Finish(w, fails).open.is
<1>1. CASE ~ w.open.is
  BY <1>1 DEF Finish
<1>2. CASE w.open.is
  <2> DEFINE o == w.open
             last == Last(w)
             sub == SubheaderOf(o)
             file == [w.files[last] EXCEPT !.sub = sub, !.final = TRUE]
  <2>1. last \in DOMAIN w.files /\ w.files[last] \in File /\ o \in OpenFile /\ w.files \in Seq(File)
    BY <1>2, LastFile DEF WriterInv, Writer
  <2>2. sub \in Subheader
    BY <2>1 DEF OpenFile, Subheader, SubheaderOf
  <2>3. /\ file \in File /\ file.rows = w.files[last].rows /\ file.sub = sub /\ file.final
        /\ file.data = w.files[last].data /\ file.ticks = w.files[last].ticks
    BY <2>1, <2>2 DEF File
  <2>4. Sound(file)
    BY <1>2, <2>1, <2>3 DEF Sound, WriterInv, Tallied
  <2>5. Finish(w, fails) =
          [open |-> Closed, files |-> IF fails THEN w.files ELSE [w.files EXCEPT ![last] = file]]
    BY <1>2, <2>1 DEF Finish, Finalise, SubheaderOf, File
  <2>6. ASSUME NEW i \in DOMAIN w.files
        PROVE  Sound(w.files[i])
    BY DEF WriterInv
  <2> HIDE DEF file, last, sub, o
  <2>7. CASE fails
    BY <2>1, <2>5, <2>6, <2>7 DEF WriterInv, Writer, Closed
  <2>8. CASE ~ fails
    <3> DEFINE files == [w.files EXCEPT ![last] = file]
    <3>1. /\ files \in Seq(File) /\ DOMAIN files = DOMAIN w.files
          /\ \A i \in DOMAIN files : files[i] = IF i = last THEN file ELSE w.files[i]
      BY <2>1, <2>3
    <3> HIDE DEF files
    <3>2. Finish(w, fails) = [open |-> Closed, files |-> files]
      BY <2>5, <2>8 DEF files
    <3> QED BY <2>4, <2>6, <3>1, <3>2 DEF WriterInv, Writer, Closed
  <2> QED BY <2>7, <2>8
<1> QED BY <1>1, <1>2

\* start_session() opens an empty file.
LEMMA StartSound ==
    ASSUME NEW w, WriterInv(w), NEW m \in MapType
    PROVE  LET v == StartSession(w, m)
           IN  WriterInv(v) /\ v.open.is /\ v.open.last_tick = NoTick
<1> DEFINE v == StartSession(w, m)
           n == Len(w.files) + 1
           file == [session |-> m.update, yaml |-> m.yaml, data |-> <<>>,
                    sub |-> Placeholder, final |-> FALSE, rows |-> <<>>, ticks |-> <<>>]
<1>1. w.files \in Seq(File) /\ \A i \in DOMAIN w.files : Sound(w.files[i])
  BY DEF WriterInv, Writer
<1>2. Placeholder \in Subheader /\ m.update \in Sessions /\ m.yaml \in Sessions \cup {NoSession}
  BY RingAssumption DEF Placeholder, Subheader, MapType, Tick
<1>3. file \in File /\ Sound(file)
  BY <1>2 DEF File, Sound, Ascends, Aligned
<1>4. /\ v.open \in OpenFile /\ v.open.is /\ v.open.last_tick = NoTick
      /\ v.open.session = m.update /\ v.open.record_count = 0 /\ v.open.lap_count = 0
      /\ v.files = Append(w.files, file) /\ v = [open |-> v.open, files |-> v.files]
  BY <1>2, RingAssumption DEF StartSession, OpenFile, NoTick, Tick
<1>5. Tallied(v.open, <<>>)
  BY <1>4, DescribesNothing DEF Tallied, SubheaderOf
<1>6. file.rows = <<>> /\ ~ file.final /\ file.session = m.update /\ Behind(file.ticks, NoTick)
  BY DEF Behind
<1> HIDE DEF v, file
<1>7. /\ v.files \in Seq(File) /\ Len(v.files) = n /\ v.files # <<>> /\ v.files[n] = file
      /\ \A i \in DOMAIN v.files : v.files[i] = file \/ (i \in DOMAIN w.files /\ v.files[i] = w.files[i])
  <2> DEFINE files == Append(w.files, file)
  <2>1. /\ files \in Seq(File) /\ Len(files) = n /\ files # <<>> /\ files[n] = file
        /\ \A i \in DOMAIN files : files[i] = file \/ (i \in DOMAIN w.files /\ files[i] = w.files[i])
    <3>1. files \in Seq(File) /\ Len(files) = n /\ n \in Nat \ {0}
      BY <1>1, <1>3
    <3>2. files[n] = file /\ DOMAIN files = 1 .. n /\ DOMAIN w.files = 1 .. (n - 1)
      BY <1>1, <1>3
    <3>3. \A i \in DOMAIN w.files : files[i] = w.files[i]
      BY <1>1, <1>3
    <3> HIDE DEF files, n
    <3> QED BY <3>1, <3>2, <3>3
  <2> QED BY <2>1, <1>4
<1>8. v \in Writer
  BY <1>4, <1>7 DEF Writer
<1>9. Last(v) = n
  BY <1>7 DEF Last
<1>10. \A i \in DOMAIN v.files : Sound(v.files[i])
  BY <1>1, <1>3, <1>7
<1> QED BY <1>4, <1>5, <1>6, <1>7, <1>8, <1>9, <1>10 DEF WriterInv, v

\* What write_all() leaves on the disk: a row, nothing, or a part that no row
\* is counted for.
LEMMA WriteAllSound ==
    ASSUME NEW file \in File, Sound(file), ~ file.final, NEW fails,
           NEW tick \in Tick, NEW row \in Row, \A j \in DOMAIN file.ticks : file.ticks[j] < tick
    PROVE  LET f == WriteAll(file, Sample(tick, row), fails)
               fell == fails \in {"row", "part"}
           IN  /\ f \in File /\ Sound(f) /\ ~ f.final /\ f.session = file.session
               /\ f.rows = IF fell THEN file.rows ELSE Append(file.rows, row)
               /\ Behind(f.ticks, tick)
<1> DEFINE f == WriteAll(file, Sample(tick, row), fails)
<1>1. /\ file.rows \in Seq(Row) /\ file.ticks \in Seq(Tick) /\ file.data \in Seq(Tick)
      /\ row[1] \in Tick /\ row[2] \in Tick
  BY RowHalves DEF File
<1>2. Sample(tick, row).row = row /\ Sample(tick, row).tick = tick
  BY DEF Sample
<1>3. Behind(file.ticks, tick)
  <2>1. \A j \in DOMAIN file.ticks : file.ticks[j] \in Int /\ tick \in Int
    BY <1>1, TickNumbers DEF Tick
  <2> QED BY <2>1 DEF Behind
<1>4. CASE fails = "row"
  BY <1>3, <1>4 DEF WriteAll
<1>5. CASE fails = "part"
  <2> DEFINE longer == Append(file.data, row[1])
  <2>1. longer \in Seq(Tick) /\ Aligned(longer, file.rows)
    <3>1. longer \in Seq(Tick) /\ Len(longer) = Len(file.data) + 1
      BY <1>1
    <3>2. 2 * Len(file.rows) <= Len(file.data) /\ Len(file.data) \in Nat /\ Len(file.rows) \in Nat
      BY <1>1 DEF Sound, Aligned
    <3> HIDE DEF longer
    <3> QED BY <3>1, <3>2 DEF Aligned
  <2>2. f = [file EXCEPT !.data = longer]
    BY <1>2, <1>5 DEF WriteAll, File
  <2> HIDE DEF longer, f
  <2>3. /\ f \in File /\ f.data = longer /\ f.rows = file.rows /\ f.ticks = file.ticks
        /\ f.final = file.final /\ f.sub = file.sub /\ f.session = file.session
    BY <2>1, <2>2 DEF File
  <2> QED BY <1>3, <1>5, <2>1, <2>3 DEF Sound, f
<1>6. CASE fails \notin {"row", "part"}
  <2> DEFINE longer == file.data \o <<row[1], row[2]>>
             rows == Append(file.rows, row)
             ticks == Append(file.ticks, tick)
  <2>1. Aligned(longer, rows)
    BY <1>1, AppendAligned DEF Sound
  <2>2. Ascends(ticks) /\ Behind(ticks, tick)
    BY <1>1, AppendAscends DEF Sound
  <2>3. longer \in Seq(Tick) /\ rows \in Seq(Row) /\ ticks \in Seq(Tick)
    BY <1>1
  <2>4. f = [file EXCEPT !.data = longer, !.rows = rows, !.ticks = ticks]
    BY <1>2, <1>6 DEF WriteAll, File
  <2> HIDE DEF longer, rows, ticks, f
  <2>5. /\ f \in File /\ f.data = longer /\ f.rows = rows /\ f.ticks = ticks
        /\ f.final = file.final /\ f.sub = file.sub /\ f.session = file.session
    BY <2>3, <2>4 DEF File
  <2>6. Sound(f)
    BY <2>1, <2>2, <2>5 DEF Sound
  <2> QED BY <1>6, <2>2, <2>5, <2>6 DEF f, rows
<1> QED BY <1>4, <1>5, <1>6

\* append_row() keeps the statistics those of the rows, whether or not the row
\* is written.
LEMMA AppendRowSound ==
    ASSUME NEW w, WriterInv(w), NEW fails, NEW tick \in Tick, NEW row \in Row,
           w.open.is => w.open.last_tick <= tick
    PROVE  LET v == AppendRow(w, Sample(tick, row), fails)
           IN  WriterInv(v) /\ (v.open.is <=> w.open.is) /\ (v.open.is => v.open.last_tick <= tick)
<1> DEFINE sample == Sample(tick, row)
           v == AppendRow(w, sample, fails)
<1>1. sample.tick = tick /\ sample.row = row
  BY DEF Sample
<1>2. CASE ~ Advanced(w, tick)
  BY <1>1, <1>2 DEF AppendRow
<1>3. CASE Advanced(w, tick)
  <2> DEFINE o == w.open
             last == Last(w)
             rows == w.files[last].rows
             c == [CountedIf(o, row, fails) EXCEPT !.last_tick = tick]
             file == WriteAll(w.files[last], sample, fails)
             files == [w.files EXCEPT ![last] = file]
  <2>1. w.open.is /\ tick # o.last_tick
    BY <1>3 DEF Advanced
  <2>2. /\ last \in DOMAIN w.files /\ w.files[last] \in File /\ o \in OpenFile
        /\ w.files \in Seq(File) /\ w.files # <<>> /\ rows \in Seq(Row)
        /\ \A i \in DOMAIN w.files : Sound(w.files[i])
        /\ ~ w.files[last].final /\ o.session = w.files[last].session /\ Tallied(o, rows)
        /\ Behind(w.files[last].ticks, o.last_tick)
    BY <2>1, LastFile DEF WriterInv, Writer, File
  <2>3. o.last_tick < tick
    BY <2>1, <2>2, OpenTick DEF Tick
  <2>4. \A j \in DOMAIN w.files[last].ticks : w.files[last].ticks[j] < tick
    <3>1. w.files[last].ticks \in Seq(Tick)
      BY <2>2 DEF File
    <3>2. \A j \in DOMAIN w.files[last].ticks : w.files[last].ticks[j] \in Int
      BY <3>1, TickNumbers
    <3>3. o.last_tick \in Int /\ tick \in Int
      BY <2>2, OpenTick DEF Tick
    <3> QED BY <2>2, <2>3, <3>2, <3>3 DEF Behind
  <2>5. /\ file \in File /\ Sound(file) /\ ~ file.final /\ file.session = w.files[last].session
        /\ file.rows = IF fails \in {"row", "part"} THEN rows ELSE Append(rows, row)
        /\ Behind(file.ticks, tick)
    BY <2>2, <2>4, WriteAllSound
  <2>6. c \in OpenFile /\ c.session = o.session /\ Tallied(c, file.rows)
    <3>1. CASE fails \in {"row", "part"}
      <4>1. c = [o EXCEPT !.last_tick = tick]
        BY <3>1 DEF CountedIf
      <4> HIDE DEF c, o
      <4>2. c \in OpenFile /\ c.session = o.session /\ c.last_lap = o.last_lap
            /\ SubheaderOf(c) = SubheaderOf(o)
        BY <2>2, <4>1 DEF OpenFile, SubheaderOf
      <4> QED BY <2>2, <2>5, <3>1, <4>2 DEF Tallied
    <3>2. CASE fails \notin {"row", "part"}
      BY <2>2, <2>5, <3>2, TallyRow DEF CountedIf
    <3> QED BY <3>1, <3>2
  <2>7. v = [open |-> c, files |-> files]
    BY <1>1, <1>3, <2>2 DEF AppendRow
  <2>8. c.last_tick = tick /\ c.is
    BY <2>2, <2>6 DEF OpenFile, CountedIf, Counted
  <2> HIDE DEF c, file, last
  <2>9. /\ files \in Seq(File) /\ DOMAIN files = DOMAIN w.files /\ Len(files) = Len(w.files)
        /\ files[last] = file
        /\ \A i \in DOMAIN files : files[i] = IF i = last THEN file ELSE w.files[i]
    BY <2>2, <2>5
  <2> HIDE DEF files, v
  <2>10. v \in Writer /\ Last(v) = last /\ files # <<>>
    BY <2>6, <2>7, <2>9, <2>2 DEF Writer, Last, last
  <2>11. \A i \in DOMAIN files : Sound(files[i])
    BY <2>2, <2>5, <2>9
  <2>12. WriterInv(v)
    BY <2>2, <2>5, <2>6, <2>7, <2>8, <2>9, <2>10, <2>11 DEF WriterInv
  <2>13. v.open.is /\ v.open.last_tick <= tick
    BY <2>7, <2>8 DEF Tick
  <2> QED BY <2>1, <2>12, <2>13 DEF v
<1> QED BY <1>2, <1>3

\* on_map_update(), with a row that is not older than the last one.
LEMMA OnMapUpdateSound ==
    ASSUME NEW w, WriterInv(w), NEW m \in MapType, NEW fails, NEW tick \in Tick, NEW row \in Row,
           w.open.is => w.open.last_tick <= tick
    PROVE  LET v == OnMapUpdate(w, m, Sample(tick, row), fails)
           IN  WriterInv(v) /\ (v.open.is => v.open.last_tick <= tick)
<1> DEFINE sample == Sample(tick, row)
           rolled == IF w.open.is /\ w.open.session # m.update
                     THEN Finish(w, fails = "finish") ELSE w
           opened == IF rolled.open.is \/ fails = "open" THEN rolled ELSE StartSession(rolled, m)
<1>1. CASE ~ Populated(m)
  BY <1>1 DEF OnMapUpdate
<1>2. CASE Populated(m)
  <2>1. WriterInv(rolled) /\ (rolled.open.is => rolled.open.last_tick <= tick)
    BY FinishSound
  <2> HIDE DEF rolled
  <2>2. WriterInv(opened) /\ (opened.open.is => opened.open.last_tick <= tick)
    BY <2>1, StartSound DEF NoTick, Tick
  <2> HIDE DEF opened
  <2>3. OnMapUpdate(w, m, sample, fails) = AppendRow(opened, sample, fails)
    BY <1>2 DEF OnMapUpdate, opened, rolled
  <2>4. LET v == AppendRow(opened, sample, fails)
        IN  WriterInv(v) /\ (v.open.is => v.open.last_tick <= tick)
    BY <2>2, AppendRowSound
  <2> QED BY <2>3, <2>4
<1> QED BY <1>1, <1>2

-----------------------------------------------------------------------------
(* Types *)

HeaderType == [Slots -> Tick]

LEMMA FrameKinds ==
    ASSUME NEW f \in Frame
    PROVE  /\ f.kind \in {"none", "full", "partial"}
           /\ f = NoFrame <=> f.kind = "none"
           /\ f # NoFrame => f.ticks \in HeaderType /\ f.update \in Sessions
           /\ f.kind = "full" => f.yaml \in Sessions
           /\ f.kind = "partial" => f.slot \in Slots /\ f.row \in Row
BY DEF Frame, NoFrame, HeaderType

LEMMA CopyStages ==
    ASSUME RingTypeOK
    PROVE  /\ copy.at \in {"wait", "prefix", "yaml", "header", "first", "second", "check"}
           /\ copy = Waiting <=> copy.at = "wait"
           /\ copy = Prefix <=> copy.at = "prefix"
           /\ copy.at = "yaml" => copy \in [at : {"yaml"}, ticks : HeaderType, update : Sessions]
           /\ Copying => copy \in [at : {"header", "first", "second", "check"}, slot : Slots,
                                   tick : Tick, ticks : HeaderType, update : Sessions, row : Row]
BY DEF RingTypeOK, Copy, Waiting, Prefix, Copying, HeaderType

\* The types that the properties compare numbers of.
LEMMA Numbers ==
    /\ \A s \in Slots : s \in Nat
    /\ \A t \in Tick : t \in Nat
    /\ \A u \in Sessions : u \in Nat
    /\ 0 \in Tick /\ 0 \in Sessions /\ Slots # {}
BY RingAssumption DEF Slots, Tick

LEMMA RingTicks ==
    ASSUME RingTypeOK
    PROVE  /\ Ticks \in HeaderType
           /\ \A s \in Slots : /\ Ticks[s] = ring[s].tick /\ ring[s].tick \in Tick
                               /\ ring[s].row \in Row
           /\ Active(Ticks) \in Slots
           /\ \A s \in Slots : ring[s].tick <= ring[Active(Ticks)].tick
<1>1. Ticks \in HeaderType /\ \A s \in Slots : Ticks[s] = ring[s].tick
  BY DEF RingTypeOK, Ticks, HeaderType
<1>2. Active(Ticks) \in Slots /\ \A s \in Slots : Ticks[s] <= Ticks[Active(Ticks)]
  BY <1>1, ActiveSlot DEF HeaderType
<1> QED BY <1>1, <1>2 DEF RingTypeOK

LEMMA TypedInit == Init => Typed
<1> SUFFICES ASSUME Init PROVE Typed
  OBVIOUS
<1>1. RingTypeOK
  <2>1. ring \in [Slots -> [tick : Tick, row : Row]]
    BY Numbers DEF Init, RingInit, Zeros, Whole, Row
  <2>2. copy \in Copy /\ sent \in Frame
    BY DEF Init, RingInit, Copy, Frame
  <2> QED BY <2>1, <2>2, Numbers DEF Init, RingInit, RingTypeOK
<1>2. RingInv
  BY Numbers DEF Init, RingInit, RingInv, Zeros, Whole
<1>3. frame \in [at : {"recv", "yaml", "header", "written"}, of : Frame] /\ Shape
  BY DEF Init, Idle, Frame, Shape
<1>4. stops \in 0 .. MaxStops /\ map \in MapType /\ has_full_frame \in BOOLEAN /\ lost \in BOOLEAN
  <2>1. 0 \in 0 .. MaxStops
    BY StopsAssumption
  <2>2. [s \in Slots |-> 0] \in HeaderType /\ [s \in Slots |-> Zeros] \in [Slots -> Row]
    BY Numbers DEF HeaderType, Zeros, Whole, Row
  <2>3. NoMap \in MapType
    BY <2>2, Numbers DEF NoMap, MapType, HeaderType
  <2> QED BY <2>1, <2>3 DEF Init
<1> QED BY <1>1, <1>2, <1>3, <1>4 DEF Typed

\* A step of the simulator or of the source.
LEMMA TypedRing ==
    ASSUME Typed, RingNext, UNCHANGED <<mapVars, ibt, stops, lost>>
    PROVE  Typed'
<1> USE DEF mapVars
<1>1. RingTypeOK /\ RingInv /\ Shape
  BY DEF Typed
<1>2. RingTypeOK' /\ RingInv'
  <2>1. CASE SimWrite
    <3> DEFINE t == Ticks[Active(Ticks)] + 1
               s == t % NumBuf
    <3>1. t \in Tick /\ t \in Nat /\ \A r \in Slots : ring[r].tick < t
      BY <2>1, <1>1, RingTicks DEF SimWrite, Tick
    <3>2. s \in Slots
      BY <3>1, RingAssumption DEF Slots
    <3>3. ring' = [ring EXCEPT ![s].row = Whole(t)]
      BY <2>1 DEF SimWrite
    <3> HIDE DEF t, s
    <3>4. ring' \in [Slots -> [tick : Tick, row : Row]]
      BY <1>1, <3>1, <3>2, <3>3 DEF RingTypeOK, Whole, Row
    <3>5. RingInv'
      <4>1. \A r \in Slots : /\ ring'[r].tick = ring[r].tick
                              /\ ring'[r].row = IF r = s THEN Whole(t) ELSE ring[r].row
        BY <1>1, <3>2, <3>3 DEF RingTypeOK
      <4>2. ASSUME NEW r \in Slots
            PROVE  ring'[r].row[2] = ring'[r].row[1] /\ ring'[r].tick <= ring'[r].row[1]
        <5>1. CASE r = s
          <6>1. ring'[r].row[2] = t /\ ring'[r].row[1] = t
            BY <4>1, <5>1 DEF Whole
          <6>2. ring[r].tick \in Nat
            BY <1>1, RingTicks, Numbers
          <6>3. ring'[r].tick <= t
            BY <6>2, <3>1, <4>1
          <6> QED BY <6>1, <6>3
        <5>2. CASE r # s
          BY <1>1, <4>1, <5>2 DEF RingInv
        <5> QED BY <5>1, <5>2
      <4> QED BY <4>2 DEF RingInv
    <3> QED BY <2>1, <1>1, <3>4, <3>5 DEF SimWrite, RingTypeOK, copyVars, Copy, Frame
  <2>2. CASE SimPublish
    <3>1. PICK s \in Slots : ring' = [ring EXCEPT ![s].tick = ring[s].row[1]]
      BY <2>2 DEF SimPublish
    <3>2. ring' \in [Slots -> [tick : Tick, row : Row]]
      BY <1>1, <3>1 DEF RingTypeOK, Row
    <3>3. RingInv'
      BY <1>1, <3>1, Numbers DEF RingTypeOK, RingInv, Whole, Row
    <3> QED BY <2>2, <1>1, <3>2, <3>3 DEF SimPublish, RingTypeOK, copyVars, Copy, Frame
  <2>3. CASE SimYaml \/ SimSession
    BY <2>3, <1>1 DEF SimYaml, SimSession, RingTypeOK, RingInv, copyVars
  <2>4. CASE SrcWake
    <3>1. UNCHANGED <<ring, update, session_info, last_tick, sent>> /\ signal' \in BOOLEAN
      BY <2>4 DEF SrcWake
    <3>2. last_session_update' \in Sessions \cup {NoSession} /\ copy' \in Copy
      BY <2>4, <1>1, RingTicks, Numbers
         DEF SrcWake, RingTypeOK, Copy, Zeros, Whole, Row, HeaderType
    <3> QED BY <3>1, <3>2, <1>1 DEF RingTypeOK, RingInv
  <2>5. CASE SrcPrefixHeader
    BY <2>5, <1>1, RingTicks DEF SrcPrefixHeader, RingTypeOK, RingInv, simVars, Copy, HeaderType
  <2>11. CASE SrcPrefixYaml
    BY <2>11, <1>1, CopyStages
       DEF SrcPrefixYaml, RingTypeOK, RingInv, simVars, Copy, Frame, FullFrame, HeaderType
  <2>6. CASE SrcHeader
    <3>1. copy' \in Copy
      BY <2>6, <1>1, RingTicks, CopyStages DEF SrcHeader, RingTypeOK, Copy, Copying, HeaderType
    <3> QED BY <2>6, <1>1, <3>1 DEF SrcHeader, RingTypeOK, RingInv, simVars
  <2>7. CASE SrcFirstHalf
    <3>1. copy' \in Copy
      <4>1. Copying /\ copy' = [copy EXCEPT !.at = "second",
                                 !.row = [copy.row EXCEPT ![1] = ring[copy.slot].row[1]]]
        BY <2>7 DEF SrcFirstHalf, Copying
      <4> QED BY <4>1, <1>1, RingTicks, CopyStages, RowHalves DEF Copy, HeaderType
    <3> QED BY <2>7, <1>1, <3>1 DEF SrcFirstHalf, RingTypeOK, RingInv, simVars
  <2>8. CASE SrcSecondHalf
    <3>1. copy' \in Copy
      <4>1. Copying /\ copy' = [copy EXCEPT !.at = "check",
                                 !.row = [copy.row EXCEPT ![2] = ring[copy.slot].row[2]]]
        BY <2>8 DEF SrcSecondHalf, Copying
      <4> QED BY <4>1, <1>1, RingTicks, CopyStages, RowHalves DEF Copy, HeaderType
    <3> QED BY <2>8, <1>1, <3>1 DEF SrcSecondHalf, RingTypeOK, RingInv, simVars
  <2>9. CASE SrcDiscard
    BY <2>9, <1>1 DEF SrcDiscard, RingTypeOK, RingInv, simVars, Copy
  <2>10. CASE SrcSend
    BY <2>10, <1>1, CopyStages
       DEF SrcSend, RingTypeOK, RingInv, simVars, Copy, Copying, Frame, PartialFrame, HeaderType
  <2> QED BY <2>1, <2>2, <2>3, <2>4, <2>5, <2>6, <2>7, <2>8, <2>9, <2>10, <2>11
         DEF RingNext, SimNext, SrcNext
<1> QED BY <1>1, <1>2 DEF Typed, Shape

\* The map a frame is written to, and what is left of it when the target lets
\* go of it.
LEMMA SectionType ==
    ASSUME Typed
    PROVE  /\ OpenMap \in MapType /\ OpenMap.made
           /\ OpenMap.status = map.status /\ OpenMap.ticks = map.ticks
           /\ OpenMap.update = map.update /\ OpenMap.rows = map.rows
           /\ OpenMap.yaml = map.yaml
           /\ map.made => OpenMap = map
           /\ NoMap \in MapType
           /\ \A m \in Dropped : /\ m \in MapType
                                 /\ m = NoMap \/ (m.ticks = map.ticks /\ m.rows = map.rows
                                        /\ m.update = map.update /\ m.status = map.status)
<1>1. map \in MapType
  BY DEF Typed
<1>2. NoMap \in MapType
  <2>1. [s \in Slots |-> 0] \in HeaderType /\ [s \in Slots |-> Zeros] \in [Slots -> Row]
    BY Numbers DEF HeaderType, Zeros, Whole, Row
  <2> QED BY <2>1, Numbers DEF NoMap, MapType, HeaderType
<1> QED BY <1>1, <1>2 DEF OpenMap, Dropped, MapType

\* What the target leaves alone.
LEMMA TargetKeepsRing ==
    ASSUME TargetNext \/ Lose
    PROVE  UNCHANGED <<simVars, copyVars>> /\ (sent' = sent \/ sent' = NoFrame)
BY DEF TargetNext, Lose, TgtFullHeader, TgtFullYaml, TgtVarBuf, TgtHeader, TgtTooEarly,
       TgtWritten, TgtStale, TgtShutdown, TgtCrash, Stops, Takes

\* A step of the target, or the loss of a frame.
LEMMA TypedTarget ==
    ASSUME Typed, TargetNext \/ Lose
    PROVE  Typed'
<1>1. RingTypeOK' /\ RingInv'
  BY TargetKeepsRing DEF Typed, RingTypeOK, RingInv, simVars, copyVars, Copy, Frame
<1>2. sent \in Frame /\ frame.of \in Frame /\ OpenMap \in MapType /\ OpenMap.made
  BY SectionType DEF Typed, RingTypeOK
<1> DEFINE Rest ==
      /\ map \in MapType
      /\ frame \in [at : {"recv", "yaml", "header", "written"}, of : Frame]
      /\ has_full_frame \in BOOLEAN
      /\ stops \in 0 .. MaxStops
      /\ lost \in BOOLEAN
      /\ Shape
<1>3. Rest
  BY DEF Typed
<1>4. Rest'
  <2>1. CASE TgtFullHeader
    <3>1. sent.ticks \in HeaderType /\ sent.update \in Sessions /\ sent.kind = "full"
      BY <2>1, <1>2, FrameKinds DEF TgtFullHeader, Takes, NoFrame
    <3>2. map' \in MapType
      BY <2>1, <1>2, <3>1 DEF TgtFullHeader, MapType, HeaderType
    <3> QED BY <2>1, <1>2, <1>3, <3>1, <3>2 DEF TgtFullHeader, Shape, Idle, MapType
  <2>2. CASE TgtFullYaml
    <3>1. map \in MapType /\ frame.of.yaml \in Sessions /\ frame.of.kind = "full"
      BY <2>2, <1>2, <1>3, FrameKinds, SectionType DEF TgtFullYaml, Shape
    <3>2. map' \in MapType
      BY <2>2, <3>1 DEF TgtFullYaml, MapType
    <3> QED BY <2>2, <1>3, <3>1, <3>2 DEF TgtFullYaml, Shape, Idle, MapType
  <2>3. CASE TgtVarBuf
    <3>1. sent.slot \in Slots /\ sent.row \in Row /\ sent.kind = "partial"
      BY <2>3, <1>2, FrameKinds DEF TgtVarBuf, Takes
    <3>2. map' \in MapType /\ map'.made
      BY <2>3, <1>2, <3>1 DEF TgtVarBuf, WriteVarBuf, MapType
    <3> QED BY <2>3, <1>2, <1>3, <3>1, <3>2 DEF TgtVarBuf, Shape, Idle, MapType
  <2>4. CASE TgtHeader
    <3>1. map \in MapType /\ frame.of.ticks \in HeaderType /\ frame.of.update \in Sessions
          /\ frame.of.kind = "partial"
      BY <2>4, <1>2, <1>3, FrameKinds, SectionType DEF TgtHeader, Shape, NoFrame
    <3>2. map' \in MapType
      BY <2>4, <3>1 DEF TgtHeader, MapType, HeaderType
    <3> QED BY <2>4, <1>3, <3>1, <3>2 DEF TgtHeader, Shape, Idle, MapType
  <2>5. CASE TgtTooEarly
    BY <2>5, <1>2, <1>3 DEF TgtTooEarly, Shape, Idle
  <2>6. CASE TgtWritten
    BY <2>6, <1>3 DEF TgtWritten, Shape, Idle, Frame
  <2>7. CASE TgtStale \/ TgtShutdown \/ TgtCrash
    <3>1. Stops /\ (map' = NoMap \/ map' \in Dropped)
      BY <2>7 DEF TgtStale, TgtShutdown, TgtCrash
    <3>2. stops' \in 0 .. MaxStops
      BY <3>1, <1>3, StopsAssumption DEF Stops
    <3>3. map' \in MapType
      BY <3>1, SectionType
    <3> QED BY <1>3, <3>1, <3>2, <3>3 DEF Stops, Shape, Idle, Frame
  <2>9. CASE Lose
    BY <2>9, <1>3 DEF Lose, mapVars, Shape, Idle
  <2> QED BY <2>1, <2>2, <2>3, <2>4, <2>5, <2>6, <2>7, <2>9 DEF TargetNext
<1> QED BY <1>1, <1>4 DEF Typed

LEMMA TypedNext == Typed /\ [Next]_vars => Typed'
<1> SUFFICES ASSUME Typed, [Next]_vars PROVE Typed'
  OBVIOUS
<1>1. CASE RingNext /\ UNCHANGED <<mapVars, ibt, stops, lost>>
  BY <1>1, TypedRing
<1>2. CASE TargetNext \/ Lose
  BY <1>2, TypedTarget
<1>3. CASE UNCHANGED vars
  BY <1>3 DEF vars, simVars, copyVars, mapVars, Typed, RingTypeOK, RingInv, Shape
<1> QED BY <1>1, <1>2, <1>3 DEF Next

LEMMA AlwaysTyped == Spec => []Typed
BY TypedInit, TypedNext, PTL DEF Spec

-----------------------------------------------------------------------------
(* The ring and the copy *)

\* What a slot's varBuf is while the slot is written and when it is not.
LEMMA SlotRow ==
    ASSUME Typed, NEW s \in Slots
    PROVE  /\ ring[s].tick \in Nat /\ ring[s].row[1] \in Nat /\ ring[s].row[1] \in Tick
           /\ ring[s].tick <= ring[s].row[1]
           /\ ring[s].row[2] = ring[s].row[1]
           /\ ~ Overwriting(s) <=> ring[s].row[1] = ring[s].tick
<1>1. ring[s].tick \in Tick /\ ring[s].row \in Row
  BY RingTicks DEF Typed
<1>2. ring[s].row[2] = ring[s].row[1] /\ ring[s].tick <= ring[s].row[1]
  BY DEF Typed, RingInv
<1>3. ring[s].row[1] \in Tick
  BY <1>1, RowHalves
<1>4. ring[s].row = Whole(ring[s].tick) <=> ring[s].row[1] = ring[s].tick
  BY <1>1, <1>2 DEF Whole, Row
<1> QED BY <1>1, <1>2, <1>3, <1>4, Numbers DEF Overwriting

\* The simulator's steps change no half of a row that is not being written, and
\* a published tick is a later one.
LEMMA SimSteps ==
    ASSUME Typed, SimNext
    PROVE  /\ UNCHANGED <<copy, last_session_update, last_tick, sent>>
           /\ \A s \in Slots :
                 /\ ring[s].tick <= ring'[s].tick
                 /\ ring'[s].tick = ring[s].tick /\ ~ Overwriting(s)' => ~ Overwriting(s)
           /\ signal' => signal \/ \E s \in Slots : ring'[s].tick >= 1
<1>1. UNCHANGED <<copy, last_session_update, last_tick, sent>>
  BY DEF SimNext, SimWrite, SimPublish, SimYaml, SimSession, copyVars
<1>2. CASE SimWrite
  <2> DEFINE t == Ticks[Active(Ticks)] + 1
             s == t % NumBuf
  <2>1. \A r \in Slots : ~ Overwriting(r)
    BY <1>2 DEF SimWrite
  <2>2. ring' = [ring EXCEPT ![s].row = Whole(t)] /\ signal' = signal
    BY <1>2 DEF SimWrite
  <2>3. \A r \in Slots : ring'[r].tick = ring[r].tick
    BY <2>2 DEF Typed, RingTypeOK
  <2> QED BY <1>1, <2>1, <2>2, <2>3, SlotRow
<1>3. CASE SimPublish
  <2>1. PICK s \in Slots : Overwriting(s) /\ ring' = [ring EXCEPT ![s].tick = ring[s].row[1]]
    BY <1>3 DEF SimPublish
  <2>2. \A r \in Slots : ring'[r].row = ring[r].row
                         /\ ring'[r].tick = IF r = s THEN ring[s].row[1] ELSE ring[r].tick
    BY <2>1 DEF Typed, RingTypeOK
  <2>3. ring[s].tick < ring[s].row[1]
    BY <2>1, SlotRow
  <2>4. ring'[s].tick >= 1
    BY <2>2, <2>3, SlotRow
  <2>5. ASSUME NEW r \in Slots
        PROVE  /\ ring[r].tick <= ring'[r].tick
               /\ ring'[r].tick = ring[r].tick /\ ~ Overwriting(r)' => ~ Overwriting(r)
    <3>1. CASE r = s
      BY <3>1, <2>2, <2>3, SlotRow
    <3>2. CASE r # s
      BY <3>2, <2>2, SlotRow DEF Overwriting
    <3> QED BY <3>1, <3>2
  <2> QED BY <1>1, <2>4, <2>5
<1>4. CASE SimYaml \/ SimSession
  <2>1. ring' = ring /\ signal' = signal
    BY <1>4 DEF SimYaml, SimSession
  <2> QED BY <1>1, <2>1, SlotRow DEF Overwriting
<1> QED BY <1>2, <1>3, <1>4 DEF SimNext

LEMMA CopyInit == Init => CopyInv
BY DEF Init, RingInit, CopyInv, Waiting, Copying

LEMMA CopyNext == Typed /\ CopyInv /\ [Next]_vars => CopyInv'
<1> SUFFICES ASSUME Typed, CopyInv, [Next]_vars PROVE CopyInv'
  OBVIOUS
<1>1. RingTypeOK
  BY DEF Typed
<1>2. Copying => copy.slot \in Slots /\ copy.tick \in Nat /\ copy.row \in Row
  BY <1>1, CopyStages, Numbers
<1>3. CASE SimNext
  <2>1. copy' = copy /\ (Copying' <=> Copying)
    BY <1>3, SimSteps DEF Copying
  <2>2. signal' => \E s \in Slots : ring'[s].tick >= 1
    <3>1. CASE signal
      <4>1. PICK s \in Slots : ring[s].tick >= 1
        BY <3>1 DEF CopyInv
      <4>2. ring[s].tick <= ring'[s].tick /\ ring'[s].tick \in Nat /\ ring[s].tick \in Nat
        BY <1>3, <1>1, SimSteps, TypedNext, RingTicks, Numbers DEF Typed, RingTypeOK
      <4> QED BY <4>1, <4>2
    <3>2. CASE ~ signal
      BY <3>2, <1>3, SimSteps
    <3> QED BY <3>1, <3>2
  <2>3. ASSUME Copying
        PROVE  /\ copy.tick <= ring'[copy.slot].tick
               /\ ring'[copy.slot].tick = copy.tick /\ ~ Overwriting(copy.slot)' =>
                     ring[copy.slot].tick = copy.tick /\ ~ Overwriting(copy.slot)
    <3>1. ring[copy.slot].tick <= ring'[copy.slot].tick /\ copy.tick <= ring[copy.slot].tick
      BY <2>3, <1>2, <1>3, SimSteps DEF CopyInv
    <3>2. ring[copy.slot].tick \in Nat /\ ring'[copy.slot].tick \in Nat
      BY <2>3, <1>2, <1>1, TypedNext, Numbers DEF Typed, RingTypeOK
    <3>3. ring'[copy.slot].tick = copy.tick => ring[copy.slot].tick = copy.tick
      BY <3>1, <3>2, <2>3, <1>2
    <3> QED BY <3>1, <3>2, <3>3, <2>3, <1>2, <1>3, SimSteps
  <2> QED BY <2>1, <2>2, <2>3, <1>2 DEF CopyInv, Overwriting
<1>4. CASE SrcWake
  <2>1. ring' = ring /\ ~ signal'
    BY <1>4 DEF SrcWake
  <2>2. CASE copy' = Prefix
    BY <2>1, <2>2 DEF CopyInv, Copying, Prefix
  <2>3. CASE copy' # Prefix
    <3>1. copy'.at = "header" /\ copy'.slot = Active(Ticks) /\ copy'.tick = Ticks[Active(Ticks)]
      BY <2>3, <1>4 DEF SrcWake
    <3>2. copy'.tick = ring[copy'.slot].tick /\ copy'.slot \in Slots /\ copy'.tick \in Nat
      BY <3>1, <1>1, RingTicks, Numbers
    <3>3. PICK s \in Slots : ring[s].tick >= 1
      BY <1>4 DEF SrcWake, CopyInv
    <3>4. ring[s].tick <= copy'.tick /\ ring[s].tick \in Nat
      BY <3>1, <1>1, RingTicks, Numbers
    <3> QED BY <2>1, <3>1, <3>2, <3>3, <3>4 DEF CopyInv
  <2> QED BY <2>2, <2>3
<1>5. CASE SrcPrefixHeader \/ SrcPrefixYaml \/ SrcDiscard \/ SrcSend
  BY <1>5 DEF SrcPrefixHeader, SrcPrefixYaml, SrcDiscard, SrcSend, simVars, CopyInv, Copying, Waiting
<1>6. CASE SrcHeader
  <2>1. /\ ring' = ring /\ signal' = signal /\ Copying /\ copy'.at = "first"
        /\ copy'.slot = copy.slot /\ copy'.tick = copy.tick
    BY <1>6, <1>1, CopyStages DEF SrcHeader, simVars, Copying
  <2> QED BY <2>1 DEF CopyInv, Copying
<1>7. CASE SrcFirstHalf
  <2>1. /\ ring' = ring /\ signal' = signal /\ Copying /\ copy'.at = "second"
        /\ copy'.slot = copy.slot /\ copy'.tick = copy.tick
        /\ copy'.row = [copy.row EXCEPT ![1] = ring[copy.slot].row[1]]
    BY <1>7, <1>1, CopyStages DEF SrcFirstHalf, simVars, Copying
  <2>2. copy'.row[1] = ring[copy.slot].row[1]
    BY <2>1, <1>2 DEF Row
  <2> QED BY <2>1, <2>2, <1>2, SlotRow DEF CopyInv, Overwriting
<1>8. CASE SrcSecondHalf
  <2>1. /\ ring' = ring /\ signal' = signal /\ Copying /\ copy.at = "second" /\ copy'.at = "check"
        /\ copy'.slot = copy.slot /\ copy'.tick = copy.tick
        /\ copy'.row = [copy.row EXCEPT ![2] = ring[copy.slot].row[2]]
    BY <1>8, <1>1, CopyStages DEF SrcSecondHalf, simVars, Copying
  <2>2. copy'.row[1] = copy.row[1] /\ copy'.row[2] = ring[copy.slot].row[2]
    BY <2>1, <1>2 DEF Row
  <2> QED BY <2>1, <2>2, <1>2, SlotRow DEF CopyInv, Overwriting
<1>9. CASE TargetNext \/ Lose \/ UNCHANGED vars
  BY <1>9, TargetKeepsRing DEF vars, simVars, copyVars, CopyInv, Copying, Overwriting
<1> QED BY <1>3, <1>4, <1>5, <1>6, <1>7, <1>8, <1>9 DEF Next, RingNext, SrcNext

LEMMA AlwaysCopy == Spec => []CopyInv
BY AlwaysTyped, CopyInit, CopyNext, PTL DEF Spec

\* Torn reads, for every ring, speed of the simulator and of the source
\* (source.rs:372-383).
THEOREM SentIsWhole == Spec => SentWhole
<1>1. Typed /\ CopyInv /\ [Next]_vars =>
        [SrcSend => copy.row = Whole(copy.tick) \/ Overwriting(copy.slot)]_vars
  <2> SUFFICES ASSUME Typed, CopyInv, SrcSend, ~ Overwriting(copy.slot)
               PROVE  copy.row = Whole(copy.tick)
    OBVIOUS
  <2>1. copy.at = "check" /\ ring[copy.slot].tick = copy.tick
    BY DEF SrcSend, Torn
  <2>2. copy.row[1] = copy.tick /\ copy.row[2] = copy.tick
    BY <2>1 DEF CopyInv, Copying
  <2>3. copy.row \in Row
    BY <2>1, CopyStages DEF Typed, Copying
  <2> QED BY <2>2, <2>3 DEF Row, Whole
<1> QED BY <1>1, AlwaysTyped, AlwaysCopy, PTL DEF Spec, SentWhole

-----------------------------------------------------------------------------
(* The status of the target's map *)

LEMMA ConnectInit == Init => ConnectInv
BY DEF Init, RingInit, ConnectInv, NoFrame, Idle, NoMap

LEMMA ConnectNext == Typed /\ CopyInv /\ ConnectInv /\ [Next]_vars => ConnectInv'
<1> SUFFICES ASSUME Typed, CopyInv, ConnectInv, [Next]_vars PROVE ConnectInv'
  OBVIOUS
<1> DEFINE Filled(m) == \E s \in Slots : m.rows[s] # Zeros
<1>1. CASE UNCHANGED <<map, frame>> /\ (sent' = sent \/ sent' = NoFrame)
  BY <1>1 DEF ConnectInv, NoFrame
<1>2. CASE SrcPrefixYaml /\ UNCHANGED mapVars
  BY <1>2 DEF SrcPrefixYaml, mapVars, FullFrame, ConnectInv
<1>3. CASE SrcSend /\ UNCHANGED mapVars
  <2>1. copy.row # Zeros
    BY <1>3 DEF SrcSend, CopyInv, Copying, Zeros, Whole
  <2> QED BY <1>3, <2>1 DEF SrcSend, mapVars, PartialFrame, ConnectInv
<1>4. CASE (SrcPrefixYaml \/ SrcSend) /\ UNCHANGED mapVars
  BY <1>2, <1>3, <1>4
<1>5. CASE TgtFullHeader
  <2>1. frame = Idle /\ sent.kind = "full" /\ sent' = NoFrame
    BY <1>5 DEF TgtFullHeader, Takes
  <2>2. map'.rows = OpenMap.rows /\ map'.status = OpenMap.status /\ frame' = [at |-> "yaml", of |-> sent]
    BY <1>5, SectionType DEF TgtFullHeader, MapType
  <2>3. OpenMap.status = 1 => Filled(OpenMap)
    BY SectionType DEF ConnectInv
  <2> QED BY <2>1, <2>2, <2>3 DEF ConnectInv, NoFrame
<1>6. CASE TgtFullYaml
  <2>1. map.made /\ map \in MapType
    BY <1>6, SectionType DEF TgtFullYaml, Typed, Shape
  <2>2. map'.rows = map.rows /\ map'.status = map.status /\ frame'.of = frame.of /\ frame'.at = "written"
    BY <1>6, <2>1 DEF TgtFullYaml, MapType, Typed
  <2> QED BY <1>6, <2>1, <2>2 DEF ConnectInv, TgtFullYaml
<1>7. CASE TgtVarBuf
  <2>1. sent.kind = "partial" /\ sent.slot \in Slots /\ sent' = NoFrame
        /\ frame' = [at |-> "header", of |-> sent]
    BY <1>7, FrameKinds DEF TgtVarBuf, Takes, Typed, RingTypeOK
  <2>2. map'.rows[sent.slot] = sent.row
    BY <1>7, <2>1, SectionType DEF TgtVarBuf, WriteVarBuf, MapType
  <2>3. sent.row # Zeros
    BY <2>1 DEF ConnectInv
  <2> QED BY <2>1, <2>2, <2>3 DEF ConnectInv, NoFrame
<1>8. CASE TgtHeader
  <2>1. map.made /\ map \in MapType
    BY <1>8, SectionType DEF TgtHeader, Typed, Shape
  <2>2. map'.rows = map.rows /\ frame'.of = frame.of /\ frame'.at = "written" /\ sent' = sent
    BY <1>8, <2>1 DEF TgtHeader, MapType, Typed
  <2> QED BY <1>8, <2>1, <2>2 DEF ConnectInv, TgtHeader
<1>9. CASE TgtTooEarly
  <2>1. map' = OpenMap /\ frame' = frame /\ frame.at = "recv" /\ sent' = NoFrame
    BY <1>9 DEF TgtTooEarly, Takes, Idle
  <2> QED BY <2>1, SectionType DEF ConnectInv, NoFrame
<1>10. CASE TgtWritten
  BY <1>10 DEF TgtWritten, Idle, NoFrame, ConnectInv
<1>11. CASE TgtStale \/ TgtShutdown \/ TgtCrash
  <2>1. Stops /\ (map' = NoMap \/ map' \in Dropped)
    BY <1>11 DEF TgtStale, TgtShutdown, TgtCrash
  <2>2. map'.status = 1 => map'.rows = map.rows /\ map.status = 1
    BY <2>1, SectionType DEF NoMap
  <2> QED BY <2>1, <2>2 DEF Stops, Idle, NoFrame, ConnectInv
<1>12. CASE RingNext /\ UNCHANGED <<mapVars, ibt, stops, lost>>
  BY <1>12, <1>1, <1>4 DEF RingNext, SrcNext, SimNext, SimWrite, SimPublish, SimYaml, SimSession,
     SrcWake, SrcPrefixHeader, SrcHeader, SrcFirstHalf, SrcSecondHalf, SrcDiscard, mapVars
<1>13. CASE Lose \/ UNCHANGED vars
  BY <1>13, <1>1 DEF Lose, vars, mapVars
<1> QED BY <1>5, <1>6, <1>7, <1>8, <1>9, <1>10, <1>11, <1>12, <1>13 DEF Next, TargetNext

\* A map that says connected has a varBuf, for every order in which frames
\* arrive, are lost and the target restarts (source.rs:299-315).
THEOREM ConnectedHasVarBuf == Spec => []StatusAfterVarBuf
<1>1. ConnectInv => StatusAfterVarBuf
  BY DEF ConnectInv, StatusAfterVarBuf
<1> QED BY <1>1, AlwaysTyped, AlwaysCopy, ConnectInit, ConnectNext, PTL DEF Spec

-----------------------------------------------------------------------------
(* The order of the headers *)

LEMMA BeforeOrder ==
    ASSUME NEW a \in HeaderType
    PROVE  /\ Before(a, a)
           /\ Before(NoTicks, a)
           /\ \A b, c \in HeaderType : Before(a, b) /\ Before(b, c) => Before(a, c)
<1>1. \A b \in HeaderType : \A s \in Slots : b[s] \in Nat
  BY Numbers DEF HeaderType
<1>2. Before(a, a) /\ Before(NoTicks, a)
  BY <1>1 DEF Before, NoTicks
<1>3. ASSUME NEW b \in HeaderType, NEW c \in HeaderType, Before(a, b), Before(b, c), NEW s \in Slots
      PROVE  a[s] <= c[s]
  <2>1. a[s] <= b[s] /\ b[s] <= c[s]
    BY <1>3 DEF Before
  <2>2. a[s] \in Nat /\ b[s] \in Nat /\ c[s] \in Nat
    BY <1>1
  <2> QED BY <2>1, <2>2
<1> QED BY <1>2, <1>3 DEF Before

LEMMA HeadersTyped ==
    ASSUME Typed
    PROVE  /\ NoTicks \in HeaderType /\ MapTicks \in HeaderType /\ FrameTicks \in HeaderType
           /\ SentTicks \in HeaderType /\ CopyTicks \in HeaderType /\ Ticks \in HeaderType
<1>1. NoTicks \in HeaderType
  BY Numbers DEF NoTicks, HeaderType
<1>2. MapTicks \in HeaderType
  BY DEF Typed, MapTicks, MapType, HeaderType
<1>3. FrameTicks \in HeaderType
  <2>1. frame.at # "recv" => frame.of.ticks \in HeaderType
    <3>1. frame.of \in Frame /\ (frame.at # "recv" => frame.of.kind \in {"full", "partial"})
      BY DEF Typed, Shape
    <3> QED BY <3>1, FrameKinds
  <2> QED BY <1>2, <2>1 DEF FrameTicks
<1>4. SentTicks \in HeaderType
  BY <1>3, FrameKinds DEF SentTicks, Typed, RingTypeOK
<1>5. CopyTicks \in HeaderType
  BY <1>4, CopyStages DEF CopyTicks, Typed
<1> QED BY <1>1, <1>2, <1>3, <1>4, <1>5, RingTicks DEF Typed

\* Before, without its quantifiers.
LEMMA ChainOrder ==
    ASSUME Typed, Chain
    PROVE  /\ Before(MapTicks, FrameTicks) /\ Before(MapTicks, SentTicks)
           /\ Before(MapTicks, CopyTicks) /\ Before(MapTicks, Ticks)
           /\ Before(FrameTicks, SentTicks) /\ Before(FrameTicks, CopyTicks)
           /\ Before(FrameTicks, Ticks)
           /\ Before(SentTicks, CopyTicks) /\ Before(SentTicks, Ticks)
           /\ Before(CopyTicks, Ticks)
           /\ Before(MapTicks, MapTicks) /\ Before(FrameTicks, FrameTicks)
           /\ Before(SentTicks, SentTicks) /\ Before(CopyTicks, CopyTicks)
           /\ Before(Ticks, Ticks)
           /\ Before(NoTicks, NoTicks) /\ Before(NoTicks, SentTicks)
           /\ Before(NoTicks, CopyTicks) /\ Before(NoTicks, Ticks)
BY HeadersTyped, BeforeOrder DEF Chain

LEMMA ChainInit == Init => Chain
<1> SUFFICES ASSUME Init PROVE Chain
  OBVIOUS
<1>1. Typed
  BY TypedInit
<1>2. /\ MapTicks = NoTicks /\ FrameTicks = NoTicks /\ SentTicks = NoTicks
      /\ CopyTicks = NoTicks
  BY DEF Init, RingInit, Idle, NoMap, Waiting, Copying, MapTicks, FrameTicks, SentTicks, CopyTicks, NoTicks
<1> QED BY <1>1, <1>2, HeadersTyped, BeforeOrder DEF Chain

\* The steps of the source: a header joins the chain at its end.
LEMMA ChainRing ==
    ASSUME Typed, Typed', Chain, RingNext, UNCHANGED <<mapVars, ibt, stops, lost>>
    PROVE  Chain'
<1>1. MapTicks' = MapTicks /\ FrameTicks' = FrameTicks
  BY DEF mapVars, MapTicks, FrameTicks
<1>2. CASE SimNext
  <2>1. SentTicks' = SentTicks /\ CopyTicks' = CopyTicks
    BY <1>1, <1>2, SimSteps DEF SentTicks, CopyTicks, Copying
  <2>2. Before(Ticks, Ticks')
    BY <1>2, SimSteps DEF Before, Ticks
  <2>3. Before(CopyTicks, Ticks')
    <3>1. Ticks' \in HeaderType
      BY DEF Typed, RingTypeOK, Ticks, HeaderType
    <3> QED BY <2>2, <3>1, HeadersTyped, BeforeOrder DEF Chain
  <2> QED BY <1>1, <2>1, <2>3 DEF Chain
<1>3. CASE SrcWake
  <2>1. SentTicks' = SentTicks /\ Ticks' = Ticks
    BY <1>1, <1>3 DEF SrcWake, SentTicks, Ticks
  <2>2. CopyTicks' \in {SentTicks, Ticks}
    BY <1>3, <2>1 DEF SrcWake, Prefix, Copying, CopyTicks
  <2> QED BY <1>1, <2>1, <2>2, ChainOrder DEF Chain
<1>4. CASE SrcPrefixHeader
  <2>1. SentTicks' = SentTicks /\ Ticks' = Ticks
    BY <1>1, <1>4 DEF SrcPrefixHeader, simVars, SentTicks, Ticks
  <2>2. CopyTicks' = Ticks
    BY <1>4 DEF SrcPrefixHeader, CopyTicks
  <2> QED BY <1>1, <2>1, <2>2, ChainOrder DEF Chain
<1>9. CASE SrcPrefixYaml
  <2>1. SentTicks' = CopyTicks /\ Ticks' = Ticks
    BY <1>9 DEF SrcPrefixYaml, simVars, SentTicks, CopyTicks, FullFrame, NoFrame, Ticks
  <2>2. CopyTicks' = CopyTicks
    BY <1>9, <2>1 DEF SrcPrefixYaml, Waiting, Copying, CopyTicks
  <2> QED BY <1>1, <2>1, <2>2, ChainOrder DEF Chain
<1>5. CASE SrcHeader
  <2>1. SentTicks' = SentTicks /\ Ticks' = Ticks
    BY <1>1, <1>5 DEF SrcHeader, simVars, SentTicks, Ticks
  <2>2. CopyTicks' = Ticks
    BY <1>5, CopyStages DEF SrcHeader, Copying, CopyTicks, Typed
  <2> QED BY <1>1, <2>1, <2>2, ChainOrder DEF Chain
<1>6. CASE SrcFirstHalf \/ SrcSecondHalf
  <2>1. SentTicks' = SentTicks /\ Ticks' = Ticks
    BY <1>1, <1>6 DEF SrcFirstHalf, SrcSecondHalf, simVars, SentTicks, Ticks
  <2>2. CopyTicks' = CopyTicks
    BY <1>6, CopyStages DEF SrcFirstHalf, SrcSecondHalf, Copying, CopyTicks, Typed
  <2> QED BY <1>1, <2>1, <2>2, ChainOrder DEF Chain
<1>7. CASE SrcDiscard
  <2>1. SentTicks' = SentTicks /\ Ticks' = Ticks
    BY <1>1, <1>7 DEF SrcDiscard, simVars, SentTicks, Ticks
  <2>2. CopyTicks' = SentTicks
    BY <1>7, <2>1 DEF SrcDiscard, Waiting, Copying, CopyTicks
  <2> QED BY <1>1, <2>1, <2>2, ChainOrder DEF Chain
<1>8. CASE SrcSend
  <2>1. SentTicks' = CopyTicks /\ Ticks' = Ticks
    BY <1>8 DEF SrcSend, simVars, SentTicks, CopyTicks, Copying, PartialFrame, NoFrame, Ticks
  <2>2. CopyTicks' = CopyTicks
    BY <1>8, <2>1 DEF SrcSend, Waiting, Copying, CopyTicks
  <2> QED BY <1>1, <2>1, <2>2, ChainOrder DEF Chain
<1> QED BY <1>2, <1>3, <1>4, <1>5, <1>6, <1>7, <1>8, <1>9 DEF RingNext, SrcNext

\* What the steps of the target make of the headers: one replaces the one
\* before it, and one that is lost leaves the chain.
HeadersBecome(m, f, s) == MapTicks' = m /\ FrameTicks' = f /\ SentTicks' = s

LEMMA TargetHeaders ==
    ASSUME Typed
    PROVE  /\ TgtFullHeader => map'.made /\ HeadersBecome(SentTicks, SentTicks, SentTicks)
           /\ TgtFullYaml => map'.made /\ HeadersBecome(MapTicks, FrameTicks, SentTicks)
           /\ TgtVarBuf => map'.made /\ HeadersBecome(MapTicks, SentTicks, SentTicks)
           /\ TgtHeader => map'.made /\ HeadersBecome(FrameTicks, FrameTicks, SentTicks)
           /\ TgtTooEarly => map'.made /\ HeadersBecome(MapTicks, MapTicks, MapTicks)
           /\ TgtWritten => \E s \in {SentTicks, MapTicks} : HeadersBecome(MapTicks, MapTicks, s)
           /\ TgtStale \/ TgtShutdown \/ TgtCrash =>
                \E m \in {NoTicks, MapTicks}, s \in {SentTicks, NoTicks, MapTicks} :
                   HeadersBecome(m, m, s) /\ s \in {SentTicks, m}
           /\ Lose => HeadersBecome(MapTicks, FrameTicks, FrameTicks)
<1> USE DEF MapTicks, FrameTicks, SentTicks, NoTicks, HeadersBecome
<1>1. OpenMap.ticks = MapTicks
  BY SectionType
<1>2. ASSUME TgtFullHeader
      PROVE  map'.made /\ HeadersBecome(SentTicks, SentTicks, SentTicks)
  <2>1. sent # NoFrame /\ sent' = NoFrame /\ frame' = [at |-> "yaml", of |-> sent]
        /\ map' = [OpenMap EXCEPT !.ticks = sent.ticks, !.update = sent.update]
    BY <1>2 DEF TgtFullHeader, Takes, NoFrame
  <2>2. map'.ticks = sent.ticks /\ map'.made
    BY <2>1, SectionType DEF MapType
  <2> QED BY <2>1, <2>2
<1>3. ASSUME TgtFullYaml
      PROVE  map'.made /\ HeadersBecome(MapTicks, FrameTicks, SentTicks)
  <2>1. map.made /\ map \in MapType
    BY <1>3, SectionType DEF TgtFullYaml, Typed, Shape
  <2>2. map'.ticks = map.ticks /\ map'.made /\ frame'.of = frame.of /\ frame'.at = "written" /\ sent' = sent
    BY <1>3, <2>1 DEF TgtFullYaml, MapType, Typed
  <2> QED BY <1>3, <2>1, <2>2 DEF TgtFullYaml
<1>4. ASSUME TgtVarBuf
      PROVE  map'.made /\ HeadersBecome(MapTicks, SentTicks, SentTicks)
  <2>1. sent # NoFrame /\ sent' = NoFrame /\ frame' = [at |-> "header", of |-> sent]
        /\ map' = [OpenMap EXCEPT !.rows[sent.slot] = sent.row]
    BY <1>4 DEF TgtVarBuf, WriteVarBuf, Takes, NoFrame
  <2>2. map'.ticks = OpenMap.ticks /\ map'.made
    BY <2>1, SectionType DEF MapType
  <2> QED BY <2>1, <2>2, <1>1
<1>5. ASSUME TgtHeader
      PROVE  map'.made /\ HeadersBecome(FrameTicks, FrameTicks, SentTicks)
  <2>1. map.made /\ map \in MapType
    BY <1>5, SectionType DEF TgtHeader, Typed, Shape
  <2>2. /\ map'.ticks = frame.of.ticks /\ map'.made
        /\ frame'.of = frame.of /\ frame'.at = "written" /\ sent' = sent
    BY <1>5, <2>1 DEF TgtHeader, MapType, Typed
  <2> QED BY <1>5, <2>1, <2>2 DEF TgtHeader
<1>6. ASSUME TgtTooEarly
      PROVE  map'.made /\ HeadersBecome(MapTicks, MapTicks, MapTicks)
  <2>1. map' = OpenMap /\ frame' = frame /\ frame.at = "recv" /\ sent' = NoFrame
    BY <1>6 DEF TgtTooEarly, Takes, Idle
  <2> QED BY <2>1, <1>1, SectionType
<1>7. ASSUME TgtWritten
      PROVE  \E s \in {SentTicks, MapTicks} : HeadersBecome(MapTicks, MapTicks, s)
  BY <1>7 DEF TgtWritten, Idle
<1>8. ASSUME TgtStale \/ TgtShutdown \/ TgtCrash
      PROVE  \E m \in {NoTicks, MapTicks}, s \in {SentTicks, NoTicks, MapTicks} :
                HeadersBecome(m, m, s) /\ s \in {SentTicks, m}
  <2>1. Stops /\ (map' = NoMap \/ map' \in Dropped)
    BY <1>8 DEF TgtStale, TgtShutdown, TgtCrash
  <2>2. map'.ticks \in {NoTicks, MapTicks}
    BY <2>1, SectionType DEF NoMap
  <2>3. frame'.at = "recv" /\ sent' = sent
    BY <2>1 DEF Stops, Idle
  <2> QED BY <2>2, <2>3
<1>9. ASSUME Lose
      PROVE  HeadersBecome(MapTicks, FrameTicks, FrameTicks)
  BY <1>9 DEF Lose, mapVars
<1> QED BY <1>2, <1>3, <1>4, <1>5, <1>6, <1>7, <1>8, <1>9

LEMMA ChainTarget ==
    ASSUME Typed, Chain, TargetNext \/ Lose
    PROVE  Chain'
<1>1. Ticks' = Ticks /\ CopyTicks' = IF Copying \/ copy.at = "yaml" THEN CopyTicks ELSE SentTicks'
  BY TargetKeepsRing DEF simVars, copyVars, Ticks, CopyTicks, Copying
<1>2. ASSUME SentTicks' \in {NoTicks, MapTicks, FrameTicks, SentTicks},
             Before(MapTicks', FrameTicks'), Before(FrameTicks', SentTicks')
      PROVE  Chain'
  <2>1. /\ Before(SentTicks', SentTicks') /\ Before(SentTicks', CopyTicks)
        /\ Before(SentTicks', Ticks)
    BY <1>2, ChainOrder
  <2> QED BY <1>1, <1>2, <2>1, ChainOrder DEF Chain
<1>3. CASE TgtFullHeader \/ TgtVarBuf
  BY <1>2, <1>3, TargetHeaders, ChainOrder DEF HeadersBecome
<1>4. CASE TgtFullYaml \/ TgtHeader
  BY <1>2, <1>4, TargetHeaders, ChainOrder DEF HeadersBecome
<1>5. CASE TgtTooEarly \/ Lose
  BY <1>2, <1>5, TargetHeaders, ChainOrder DEF HeadersBecome
<1>6. CASE TgtWritten
  BY <1>2, <1>6, TargetHeaders, ChainOrder DEF HeadersBecome
<1>7. CASE TgtStale \/ TgtShutdown \/ TgtCrash
  <2>1. PICK m \in {NoTicks, MapTicks}, s \in {SentTicks, NoTicks, MapTicks} :
                HeadersBecome(m, m, s) /\ s \in {SentTicks, m}
    BY <1>7, TargetHeaders
  <2> QED BY <1>2, <2>1, ChainOrder DEF HeadersBecome
<1> QED BY <1>3, <1>4, <1>5, <1>6, <1>7 DEF TargetNext

LEMMA ChainNext == Typed /\ Typed' /\ Chain /\ [Next]_vars => Chain'
<1> SUFFICES ASSUME Typed, Typed', Chain, [Next]_vars PROVE Chain'
  OBVIOUS
<1>1. CASE UNCHANGED vars
  BY <1>1 DEF vars, simVars, copyVars, mapVars, Chain, Before, MapTicks, FrameTicks, SentTicks,
     CopyTicks, Copying, Ticks
<1> QED BY <1>1, ChainRing, ChainTarget DEF Next

LEMMA AlwaysChain == Spec => []Chain
BY AlwaysTyped, ChainInit, ChainNext, PTL DEF Spec

-----------------------------------------------------------------------------
(* The files *)

LEMMA FileInit == Init => FileInv
BY WriterNew DEF Init, FileInv, NewWriter, Closed

LEMMA FileNext == Typed /\ Typed' /\ Chain /\ FileInv /\ [Next]_vars => FileInv'
<1> SUFFICES ASSUME Typed, Typed', Chain, FileInv, [Next]_vars PROVE FileInv'
  OBVIOUS
<1>1. CASE UNCHANGED <<map, ibt>>
  BY <1>1 DEF FileInv, ActiveTick, Active
<1>2. CASE TgtFullHeader \/ TgtFullYaml \/ TgtVarBuf \/ TgtHeader \/ TgtTooEarly
  <2>1. map'.made /\ MapTicks' \in {MapTicks, FrameTicks, SentTicks}
    BY <1>2, TargetHeaders DEF HeadersBecome
  <2>2. ibt' = ibt
    BY <1>2 DEF TgtFullHeader, TgtFullYaml, TgtVarBuf, TgtHeader, TgtTooEarly
  <2>3. CASE ~ ibt.open.is
    BY <2>2, <2>3 DEF FileInv
  <2>4. CASE ibt.open.is
    <3>1. map.made /\ MapTicks = map.ticks /\ MapTicks' = map'.ticks
      BY <2>1, <2>4 DEF FileInv, MapTicks
    <3>2. Before(map.ticks, map'.ticks) /\ map.ticks \in HeaderType /\ map'.ticks \in HeaderType
      BY <2>1, <3>1, ChainOrder, HeadersTyped
    <3>3. /\ ActiveTick(map.ticks) \in Tick /\ ActiveTick(map'.ticks) \in Tick
          /\ ActiveTick(map.ticks) <= ActiveTick(map'.ticks)
      BY <3>2, ActiveTickGrows, BeforeOrder DEF HeaderType
    <3>4. ibt.open.last_tick \in Int /\ ibt.open.last_tick <= ActiveTick(map.ticks)
      BY <2>4, LastFile, OpenTick DEF FileInv
    <3>5. ibt.open.last_tick <= ActiveTick(map'.ticks)
      BY <3>3, <3>4, Numbers
    <3> QED BY <2>1, <2>2, <3>5 DEF FileInv, ActiveTick, Active
  <2> QED BY <2>3, <2>4
<1>3. CASE TgtWritten
  <2>1. map \in MapType /\ map.made /\ map' = map
    BY <1>3, SectionType DEF TgtWritten, Typed, Shape
  <2>2. map.ticks \in HeaderType /\ Active(map.ticks) \in Slots
    BY <2>1, ActiveSlot DEF MapType, HeaderType
  <2>3. ActiveTick(map.ticks) \in Tick /\ map.rows[Active(map.ticks)] \in Row
    BY <2>1, <2>2 DEF ActiveTick, MapType, HeaderType
  <2>4. PICK fails : ibt' = OnMapUpdate(ibt, map, ActiveSample(map), fails)
    BY <1>3 DEF TgtWritten
  <2>5. ActiveSample(map) = Sample(ActiveTick(map.ticks), map.rows[Active(map.ticks)])
    BY DEF ActiveSample, ActiveTick
  <2>6. WriterInv(ibt') /\ (ibt'.open.is => ibt'.open.last_tick <= ActiveTick(map.ticks))
    BY <2>1, <2>3, <2>4, <2>5, OnMapUpdateSound DEF FileInv
  <2> QED BY <2>1, <2>6 DEF FileInv, ActiveTick, Active
<1>4. CASE TgtStale \/ TgtShutdown
  <2>1. PICK fails : ibt' = Finish(ibt, fails = "finish")
    BY <1>4 DEF TgtStale, TgtShutdown
  <2>2. WriterInv(ibt') /\ ~ ibt'.open.is
    BY <2>1, FinishSound DEF FileInv
  <2> QED BY <2>2 DEF FileInv
<1>5. CASE TgtCrash
  <2>1. ibt' = [ibt EXCEPT !.open = Closed]
    BY <1>5 DEF TgtCrash
  <2>2. WriterInv(ibt') /\ ~ ibt'.open.is
    BY <2>1 DEF FileInv, WriterInv, Writer, Closed
  <2> QED BY <2>2 DEF FileInv
<1>6. CASE (RingNext /\ UNCHANGED <<mapVars, ibt, stops, lost>>) \/ Lose \/ UNCHANGED vars
  BY <1>1, <1>6 DEF mapVars, Lose, vars
<1> QED BY <1>2, <1>3, <1>4, <1>5, <1>6 DEF Next, TargetNext

LEMMA AlwaysFiles == Spec => []FileInv
BY AlwaysTyped, AlwaysChain, FileInit, FileNext, PTL DEF Spec

\* The types of the simulator, both loops and the writer; an open file is the
\* last one, not finalised, and its counts are within its rows
\* (ibt_writer.rs:224-239, 379-382).
THEOREM LiveMapTypes == Spec => []TypeOK
<1>1. Typed /\ FileInv => TypeOK
  <2> SUFFICES ASSUME Typed, FileInv PROVE IbtTypeOK
    BY DEF Typed, TypeOK
  <2>1. ibt.open.is \in BOOLEAN
    <3>1. ibt.open = Closed \/ ibt.open \in OpenFile
      BY DEF FileInv, WriterInv, Writer
    <3>2. \A o \in OpenFile : o.is = TRUE
      BY DEF OpenFile
    <3>3. Closed.is = FALSE
      BY DEF Closed
    <3> QED BY <3>1, <3>2, <3>3
  <2>2. ASSUME ibt.open.is
        PROVE  LET o == ibt.open
                   file == ibt.files[Last(ibt)]
               IN  /\ ibt.files # <<>> /\ ~ file.final
                   /\ o.session = file.session
                   /\ o.record_count \in 0 .. Len(file.rows)
                   /\ o.lap_count \in 0 .. o.record_count
    <3> DEFINE o == ibt.open
               file == ibt.files[Last(ibt)]
    <3>1. file \in File /\ ibt.files # <<>> /\ ~ file.final /\ o.session = file.session
          /\ Tallied(o, file.rows)
      BY <2>2, LastFile DEF FileInv, WriterInv
    <3>2. file.rows \in Seq(Row) /\ Len(file.rows) \in Nat
      BY <3>1 DEF File
    <3>3. o.record_count = Len(file.rows) /\ o.lap_count = Cardinality(BeginLap(file.rows))
      BY <3>1 DEF Tallied, Describes, SubheaderOf
    <3> QED BY <3>1, <3>2, <3>3, LapsFinite
  <2> QED BY <2>1, <2>2 DEF IbtTypeOK
<1> QED BY <1>1, AlwaysTyped, AlwaysFiles, PTL

\* If a file ends where its subheader says, a reader finds the rows that were
\* written and the subheader describes them, for every sequence of updates and
\* sessions, writes that fail or leave a part, and kills; and once closed it
\* counts all that were written whole (ibt_writer.rs:345-375, 382-411).
THEOREM FilesDescribed == Spec => []FileTellsTruth
<1>1. ASSUME NEW file \in File, Sound(file)
      PROVE  /\ file.final => file.sub.records = Len(file.rows)
             /\ Fits(file) => RowsFound(file) = file.rows /\ Describes(file.sub, RowsFound(file))
  <2>1. file.rows \in Seq(Row) /\ Len(file.rows) \in Nat /\ Len(file.data) \in Nat
    BY <1>1 DEF File
  <2>2. file.final => file.sub.records = Len(file.rows) /\ Describes(file.sub, file.rows)
    BY <1>1 DEF Sound, Describes
  <2>3. ASSUME Fits(file)
        PROVE  file.sub.records = Len(file.rows) /\ Describes(file.sub, file.rows)
    <3>1. CASE file.final
      BY <2>2, <3>1
    <3>2. CASE ~ file.final
      <4>1. file.sub.records = 0 /\ file.sub.laps = 0
        BY <1>1, <3>2 DEF Sound, Placeholder
      <4>2. Len(file.rows) = 0
        BY <1>1, <2>1, <2>3, <4>1 DEF Sound, Aligned, Fits
      <4>3. file.rows = <<>>
        BY <2>1, <4>2
      <4> QED BY <4>1, <4>2, <4>3, DescribesNothing
    <3> QED BY <3>1, <3>2
  <2>4. ASSUME Fits(file)
        PROVE  RowsFound(file) = file.rows
    <3>1. \A j \in 1 .. Len(file.rows) : RowAt(file.data, j) = file.rows[j]
      BY <1>1, <2>1, <2>3, <2>4 DEF Sound, Aligned, Fits
    <3>2. file.rows = [j \in 1 .. Len(file.rows) |-> file.rows[j]]
      BY <2>1
    <3> QED BY <2>3, <2>4, <3>1, <3>2 DEF RowsFound
  <2> QED BY <2>2, <2>3, <2>4
<1>2. FileInv => FileTellsTruth
  <2> SUFFICES ASSUME FileInv, NEW i \in DOMAIN ibt.files
               PROVE  ibt.files[i] \in File /\ Sound(ibt.files[i])
    BY <1>1 DEF FileTellsTruth
  <2> QED BY DEF FileInv, WriterInv, Writer
<1> QED BY <1>2, AlwaysFiles, PTL

\* No tick has two rows, and the rows are in the order of their ticks: no
\* header overtakes another on its way (ibt_writer.rs:335-340).
THEOREM FilesAscend == Spec => []RowsAscend
<1>1. FileInv => RowsAscend
  BY DEF FileInv, WriterInv, Sound, Ascends, RowsAscend
<1> QED BY <1>1, AlwaysFiles, PTL

-----------------------------------------------------------------------------
(* The age of the YAML *)

LEMMA UpdatesTyped ==
    ASSUME Typed
    PROVE  /\ Updates \subseteq Sessions /\ 0 \in Sessions
           /\ \A u \in Updates : u \in Nat
           /\ update \in Nat /\ last_session_update \in Int /\ session_info \in Nat
           /\ Copying \/ copy.at = "yaml" => copy.update \in Nat
<1>1. map.update \in Sessions
  BY DEF Typed, MapType
<1>2. FrameUpdate \in Sessions
  <2>1. frame.of \in Frame /\ (frame.at # "recv" => frame.of.kind \in {"full", "partial"})
    BY DEF Typed, Shape
  <2> QED BY <1>1, <2>1, FrameKinds DEF FrameUpdate
<1>3. SentUpdate \in Sessions
  BY <1>2, FrameKinds DEF SentUpdate, Typed, RingTypeOK
<1>4. update \in Nat /\ last_session_update \in Int /\ session_info \in Nat
  BY Numbers DEF Typed, RingTypeOK, NoSession
<1>5. Copying \/ copy.at = "yaml" => copy.update \in Nat
  BY CopyStages, Numbers DEF Typed
<1> QED BY <1>1, <1>2, <1>3, <1>4, <1>5, Numbers DEF Updates

\* The target takes a header on or forgets it.
LEMMA TargetUpdates ==
    ASSUME Typed, TargetNext \/ Lose
    PROVE  Updates' \subseteq Updates
<1> USE DEF FrameUpdate, SentUpdate, Updates
<1>1. OpenMap.update = map.update
  BY SectionType
<1>2. CASE TgtFullHeader
  <2>1. sent # NoFrame /\ sent' = NoFrame /\ frame' = [at |-> "yaml", of |-> sent]
        /\ map' = [OpenMap EXCEPT !.ticks = sent.ticks, !.update = sent.update]
    BY <1>2 DEF TgtFullHeader, Takes, NoFrame
  <2>2. map'.update = sent.update /\ map'.made
    BY <2>1, SectionType DEF MapType
  <2> QED BY <2>1, <2>2
<1>3. CASE TgtFullYaml \/ TgtHeader
  <2>1. map.made /\ map \in MapType
    BY <1>3, SectionType DEF TgtFullYaml, TgtHeader, Typed, Shape
  <2>2. /\ map'.update \in {map.update, frame.of.update} /\ map'.made
        /\ frame'.of = frame.of /\ frame'.at = "written" /\ sent' = sent /\ frame.at # "recv"
    BY <1>3, <2>1 DEF TgtFullYaml, TgtHeader, MapType, Typed
  <2> QED BY <2>1, <2>2
<1>4. CASE TgtVarBuf
  <2>1. sent # NoFrame /\ sent' = NoFrame /\ frame' = [at |-> "header", of |-> sent]
        /\ map' = [OpenMap EXCEPT !.rows[sent.slot] = sent.row]
    BY <1>4 DEF TgtVarBuf, WriteVarBuf, Takes, NoFrame
  <2>2. map'.update = OpenMap.update /\ map'.made
    BY <2>1, SectionType DEF MapType
  <2> QED BY <2>1, <2>2, <1>1
<1>5. CASE TgtTooEarly
  BY <1>1, <1>5, SectionType DEF TgtTooEarly, Takes, Idle
<1>6. CASE TgtWritten
  BY <1>6 DEF TgtWritten, Idle
<1>7. CASE TgtStale \/ TgtShutdown \/ TgtCrash
  <2>1. Stops /\ (map' = NoMap \/ map' \in Dropped)
    BY <1>7 DEF TgtStale, TgtShutdown, TgtCrash
  <2>2. map'.update \in {0, map.update}
    BY <2>1, SectionType DEF NoMap
  <2> QED BY <2>1, <2>2 DEF Stops, Idle
<1>8. CASE Lose
  BY <1>8 DEF Lose, mapVars
<1> QED BY <1>2, <1>3, <1>4, <1>5, <1>6, <1>7, <1>8 DEF TargetNext

LEMMA UpdateInit == Init => UpdateInv
BY DEF Init, RingInit, UpdateInv, Updates, FrameUpdate, SentUpdate, NoMap, Idle,
       Waiting, Copying, NoSession

LEMMA UpdateNext == Typed /\ Typed' /\ UpdateInv /\ [Next]_vars => UpdateInv'
<1> SUFFICES ASSUME Typed, Typed', UpdateInv, [Next]_vars PROVE UpdateInv'
  OBVIOUS
<1>1. CASE TargetNext \/ Lose
  <2>1. UNCHANGED <<copy, update, session_info, last_session_update>>
    BY <1>1, TargetKeepsRing DEF simVars, copyVars
  <2> QED BY <1>1, <2>1, TargetUpdates DEF UpdateInv, Copying
<1>2. CASE RingNext /\ UNCHANGED <<mapVars, ibt, stops, lost>>
  <2>1. map' = map /\ FrameUpdate' = FrameUpdate
    BY <1>2 DEF mapVars, FrameUpdate
  <2>2. ASSUME sent' = sent
        PROVE  Updates' = Updates
    BY <2>1, <2>2 DEF SentUpdate, Updates
  <2>3. CASE SimNext
    <3>1. UNCHANGED <<copy, sent, last_session_update>>
      BY <2>3, SimSteps
    <3>2. \/ update' = update /\ session_info' \in {session_info, update + 1}
          \/ update' = session_info /\ session_info' = session_info
      BY <2>3 DEF SimNext, SimWrite, SimPublish, SimYaml, SimSession
    <3>3. update' \in Nat /\ update <= update' /\ update' <= session_info'
      BY <3>2, UpdatesTyped DEF UpdateInv
    <3>4. Updates' = Updates /\ (Copying' <=> Copying)
      BY <3>1, <2>2 DEF Copying
    <3> QED BY <3>1, <3>3, <3>4, UpdatesTyped DEF UpdateInv
  <2>4. CASE SrcWake
    <3>1. sent' = sent /\ update' = update /\ session_info' = session_info /\ Updates' = Updates
      BY <2>2, <2>4 DEF SrcWake
    <3>2. CASE copy' = Prefix
      <4>1. last_session_update' \in {update, last_session_update} /\ ~ Copying'
        BY <2>4, <3>2 DEF SrcWake, Prefix, Copying
      <4> QED BY <3>1, <3>2, <4>1, UpdatesTyped DEF UpdateInv, Prefix
    <3>3. CASE copy' # Prefix
      <4>1. last_session_update = update /\ last_session_update' = last_session_update
            /\ copy'.update = update /\ copy'.at = "header"
        BY <2>4, <3>3 DEF SrcWake, NeedsFull
      <4> QED BY <3>1, <4>1, UpdatesTyped DEF UpdateInv
    <3> QED BY <3>2, <3>3
  <2>10. CASE SrcPrefixHeader
    <3>1. /\ sent' = sent /\ update' = update /\ session_info' = session_info
          /\ last_session_update' = last_session_update
          /\ ~ Copying' /\ copy'.update = update
      BY <2>10 DEF SrcPrefixHeader, simVars, Copying
    <3> QED BY <2>2, <3>1, UpdatesTyped DEF UpdateInv
  <2>5. CASE SrcPrefixYaml
    <3>1. /\ sent' = FullFrame(copy) /\ update' = update /\ session_info' = session_info
          /\ ~ Copying' /\ copy'.at = "wait" /\ copy.at = "yaml"
          /\ last_session_update' = last_session_update
      BY <2>5 DEF SrcPrefixYaml, simVars, Waiting, Copying
    <3>2. SentUpdate' = copy.update
      BY <3>1 DEF SentUpdate, FullFrame, NoFrame
    <3> QED BY <2>1, <3>1, <3>2, UpdatesTyped DEF UpdateInv, Updates
  <2>6. CASE SrcHeader
    <3>1. /\ sent' = sent /\ UNCHANGED <<update, session_info>> /\ Copying /\ copy'.at # "yaml"
          /\ copy'.update = update
          /\ last_session_update' = last_session_update
      BY <2>6, CopyStages DEF SrcHeader, simVars, Copying, Typed
    <3> QED BY <2>2, <3>1, UpdatesTyped DEF UpdateInv
  <2>7. CASE SrcFirstHalf \/ SrcSecondHalf
    <3>1. /\ sent' = sent /\ UNCHANGED <<update, session_info>> /\ Copying /\ copy'.at # "yaml"
          /\ copy'.update = copy.update
          /\ last_session_update' = last_session_update
      BY <2>7, CopyStages DEF SrcFirstHalf, SrcSecondHalf, simVars, Copying, Typed
    <3> QED BY <2>2, <3>1 DEF UpdateInv
  <2>8. CASE SrcDiscard
    <3>1. /\ sent' = sent /\ UNCHANGED <<update, session_info>> /\ ~ Copying' /\ copy'.at = "wait"
          /\ last_session_update' = last_session_update
      BY <2>8 DEF SrcDiscard, simVars, Waiting, Copying
    <3> QED BY <2>2, <3>1 DEF UpdateInv
  <2>9. CASE SrcSend
    <3>1. /\ sent' = PartialFrame(copy) /\ UNCHANGED <<update, session_info>>
          /\ Copying /\ ~ Copying' /\ copy'.at = "wait"
          /\ last_session_update' = last_session_update
      BY <2>9 DEF SrcSend, simVars, Waiting, Copying
    <3>2. SentUpdate' = copy.update
      BY <3>1 DEF SentUpdate, PartialFrame, NoFrame
    <3> QED BY <2>1, <3>1, <3>2, UpdatesTyped DEF UpdateInv, Updates
  <2> QED BY <1>2, <2>3, <2>4, <2>5, <2>6, <2>7, <2>8, <2>9, <2>10
         DEF RingNext, SrcNext
<1>3. CASE UNCHANGED vars
  BY <1>3 DEF vars, simVars, copyVars, mapVars, UpdateInv, Updates, FrameUpdate,
     SentUpdate, Copying
<1> QED BY <1>1, <1>2, <1>3 DEF Next

LEMMA AlwaysUpdate == Spec => []UpdateInv
BY AlwaysTyped, UpdateInit, UpdateNext, PTL DEF Spec

LEMMA YamlInit == Init => YamlInv
BY DEF Init, RingInit, YamlInv, HasYaml, Idle, NoFrame

\* A step of the simulator or the source: only a frame that is sent, and the
\* choice of one, matter.
LEMMA YamlRing ==
    ASSUME Typed, UpdateInv, YamlInv, RingNext, UNCHANGED <<mapVars, ibt, stops, lost>>
    PROVE  YamlInv'
<1>1. /\ YamlAfter' = YamlAfter /\ UpdateAfter' = UpdateAfter
      /\ HasYaml' = HasYaml /\ lost' = lost
  BY DEF mapVars, YamlAfter, UpdateAfter, HasYaml
<1>2. ASSUME sent' = sent
      PROVE  LastYaml' = LastYaml
  BY <1>1, <1>2 DEF LastYaml
<1>3. CASE SimNext
  BY <1>1, <1>2, <1>3, SimSteps DEF YamlInv, CopyingFull
<1>4. CASE SrcWake
  <2>1. sent' = sent /\ copy = Waiting /\ ~ CopyingFull
    BY <1>4 DEF SrcWake, Waiting, CopyingFull
  <2>2. copy' = Prefix \/ last_session_update' = last_session_update
    BY <1>4 DEF SrcWake
  <2> QED BY <1>1, <1>2, <2>1, <2>2 DEF YamlInv, CopyingFull, Prefix
<1>8. CASE SrcPrefixHeader
  <2>1. sent' = sent /\ last_session_update' = last_session_update /\ CopyingFull /\ CopyingFull'
    BY <1>8 DEF SrcPrefixHeader, Prefix, CopyingFull
  <2> QED BY <1>1, <1>2, <2>1 DEF YamlInv
<1>5. CASE SrcPrefixYaml
  <2>1. /\ sent'.kind = "full" /\ sent'.yaml = session_info
        /\ last_session_update' = last_session_update
    BY <1>5 DEF SrcPrefixYaml, FullFrame
  <2>2. LastYaml' = session_info
    BY <2>1 DEF LastYaml
  <2>3. last_session_update <= session_info
    BY UpdatesTyped DEF UpdateInv
  <2> QED BY <1>1, <2>1, <2>2, <2>3 DEF YamlInv
<1>6. CASE SrcHeader \/ SrcFirstHalf \/ SrcSecondHalf \/ SrcDiscard
  <2>1. sent' = sent /\ last_session_update' = last_session_update /\ ~ CopyingFull
    BY <1>6 DEF SrcHeader, SrcFirstHalf, SrcSecondHalf, SrcDiscard, CopyingFull
  <2> QED BY <1>1, <1>2, <2>1 DEF YamlInv
<1>7. CASE SrcSend
  <2>1. /\ sent = NoFrame /\ sent'.kind = "partial" /\ Copying /\ ~ CopyingFull
        /\ last_session_update' = last_session_update
    BY <1>7 DEF SrcSend, PartialFrame, Copying, CopyingFull
  <2>2. LastYaml = YamlAfter /\ LastYaml' = YamlAfter
    BY <1>1, <2>1 DEF LastYaml, NoFrame
  <2>3. ASSUME ~ lost, HasYaml
        PROVE  UpdateAfter <= YamlAfter
    <3>1. UpdateAfter \in Updates
      BY <2>3 DEF UpdateAfter, HasYaml, Updates, FrameUpdate, Typed, Shape
    <3>2. UpdateAfter <= last_session_update
      BY <2>1, <3>1 DEF UpdateInv
    <3>3. last_session_update <= YamlAfter
      BY <2>1, <2>2, <2>3 DEF YamlInv
    <3>4. YamlAfter \in Int
      <4>1. frame.at = "yaml" => frame.of.yaml \in Nat
        BY FrameKinds, Numbers DEF Typed, Shape
      <4>2. map.made => map.yaml \in Int
        BY SectionType, Numbers DEF MapType, NoSession
      <4> QED BY <2>3, <4>1, <4>2 DEF YamlAfter, HasYaml, Typed, Shape
    <3> QED BY <3>1, <3>2, <3>3, <3>4, UpdatesTyped
  <2> QED BY <1>1, <2>1, <2>2, <2>3 DEF YamlInv
<1> QED BY <1>3, <1>4, <1>5, <1>6, <1>7, <1>8 DEF RingNext, SrcNext

\* A step of the target, or a loss: the YAML goes from the path to the map.
LEMMA YamlTarget ==
    ASSUME Typed, YamlInv, TargetNext \/ Lose
    PROVE  YamlInv'
<1>1. copy' = copy /\ last_session_update' = last_session_update
  BY TargetKeepsRing DEF copyVars
<1> USE DEF YamlInv, HasYaml, LastYaml, YamlAfter, UpdateAfter, CopyingFull
<1>2. CASE TgtFullHeader
  <2>1. sent.kind = "full" /\ sent' = NoFrame /\ frame' = [at |-> "yaml", of |-> sent] /\ lost' = lost
    BY <1>2 DEF TgtFullHeader, Takes
  <2> QED BY <1>1, <2>1 DEF NoFrame
<1>3. CASE TgtFullYaml
  <2>1. map.made /\ map \in MapType
    BY <1>3, SectionType DEF TgtFullYaml, Typed, Shape
  <2>2. /\ map'.yaml = frame.of.yaml /\ map'.update = map.update /\ frame.at = "yaml"
        /\ frame'.at = "written" /\ sent' = sent /\ lost' = lost
    BY <1>3, <2>1 DEF TgtFullYaml, MapType, Typed
  <2> QED BY <1>1, <2>2
<1>4. CASE TgtVarBuf
  <2>1. map.made /\ has_full_frame /\ has_full_frame' /\ sent.kind = "partial" /\ sent' = NoFrame
        /\ frame = Idle /\ frame' = [at |-> "header", of |-> sent] /\ lost' = lost
        /\ map' = [OpenMap EXCEPT !.rows[sent.slot] = sent.row]
    BY <1>4 DEF TgtVarBuf, Takes, WriteVarBuf, Typed, Shape
  <2>2. map'.yaml = map.yaml
    BY <2>1, SectionType DEF MapType
  <2> QED BY <1>1, <2>1, <2>2 DEF NoFrame, Idle
<1>5. CASE TgtHeader
  <2>1. map.made /\ map \in MapType
    BY <1>5, SectionType DEF TgtHeader, Typed, Shape
  <2>2. /\ map'.yaml = map.yaml /\ map'.update = frame.of.update /\ frame.at = "header"
        /\ frame'.at = "written" /\ sent' = sent /\ lost' = lost /\ has_full_frame' = has_full_frame
    BY <1>5, <2>1 DEF TgtHeader, MapType, Typed
  <2> QED BY <1>1, <2>2
<1>6. CASE TgtTooEarly
  <2>1. ~ has_full_frame' /\ frame' = frame /\ frame.at = "recv" /\ sent' = NoFrame
    BY <1>6 DEF TgtTooEarly, Takes, Idle
  <2> QED BY <2>1 DEF NoFrame
<1>7. CASE TgtWritten
  <2>1. map' = map /\ has_full_frame' = has_full_frame /\ sent' = sent /\ lost' = lost
        /\ frame.at = "written" /\ frame'.at = "recv"
    BY <1>7 DEF TgtWritten, Idle
  <2> QED BY <1>1, <2>1
<1>8. CASE TgtStale \/ TgtShutdown \/ TgtCrash
  <2>1. ~ has_full_frame' /\ frame'.at = "recv" /\ sent' = sent /\ lost' = lost
    BY <1>8 DEF TgtStale, TgtShutdown, TgtCrash, Stops, Idle
  <2> QED BY <1>1, <2>1
<1>9. CASE Lose
  <2>1. UNCHANGED <<map, frame, has_full_frame>> /\ sent' = NoFrame
        /\ (~ lost' => ~ lost /\ sent.kind # "full")
    BY <1>9 DEF Lose, mapVars
  <2> QED BY <1>1, <2>1 DEF NoFrame
<1> QED BY <1>2, <1>3, <1>4, <1>5, <1>6, <1>7, <1>8, <1>9 DEF TargetNext

LEMMA YamlNext == Typed /\ UpdateInv /\ YamlInv /\ [Next]_vars => YamlInv'
<1> SUFFICES ASSUME Typed, UpdateInv, YamlInv, [Next]_vars PROVE YamlInv'
  OBVIOUS
<1>1. CASE UNCHANGED vars
  BY <1>1 DEF vars, simVars, copyVars, mapVars, YamlInv, HasYaml, LastYaml, YamlAfter, UpdateAfter, CopyingFull
<1> QED BY <1>1, YamlRing, YamlTarget DEF Next

\* The header of a new session is above the YAML of the old one for one frame
\* at most, for every number of sessions and every order of the steps, unless a
\* session-info frame is lost (source.rs:293, 321, 369).
THEOREM YamlKeepsUp == Spec => YamlFollows
<1>1. Typed /\ YamlInv /\ [Next]_vars => [TgtVarBuf /\ ~ lost => map.yaml >= map.update]_vars
  <2> SUFFICES ASSUME Typed, YamlInv, TgtVarBuf, ~ lost
               PROVE  map.yaml >= map.update
    OBVIOUS
  <2>1. sent.kind = "partial" /\ has_full_frame /\ frame.at = "recv" /\ map.made
    BY DEF TgtVarBuf, Takes, Idle, Typed, Shape
  <2>2. map.update <= map.yaml
    BY <2>1 DEF YamlInv, HasYaml, UpdateAfter, YamlAfter
  <2> QED BY <2>1, <2>2, SectionType, Numbers DEF MapType, NoSession
<1>2. Spec => []YamlInv
  BY AlwaysTyped, AlwaysUpdate, YamlInit, YamlNext, PTL DEF Spec
<1> QED BY <1>1, <1>2, AlwaysTyped, PTL DEF Spec, YamlFollows
=============================================================================
