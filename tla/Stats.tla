-------------------------------- MODULE Stats --------------------------------
(***************************************************************************)
(* Transfer statistics (src/teleport/src/stats.rs) as the loops of the     *)
(* source and the target keep them (source.rs, target.rs): the window that *)
(* a line is printed of, the lifetime totals, and the percentiles.         *)
(*                                                                         *)
(* A line is the numbers it is computed from; rates and ratios, quotients  *)
(* of these and of the time, are left out.                                 *)
(***************************************************************************)
EXTENDS Integers, Sequences, FiniteSets

CONSTANTS
    Frames,           \* what may be recorded: [compressed, uncompressed,
                      \* source_us, is_full, is_delta]
    Transits,         \* possible values of transit_us
    PRINT_INTERVAL,
    P99,              \* p99's place among n samples is n * P99[1] / P99[2]
    U64_MAX,
    MaxFrames,        \* bound: frames in a behaviour
    MaxDropped        \* bound: dropped frames in a behaviour

ASSUME FramesAssumption ==
    /\ Frames \subseteq [compressed : Nat, uncompressed : Nat, source_us : Nat,
                         is_full : BOOLEAN, is_delta : BOOLEAN]
    /\ \A f \in Frames : ~ (f.is_full /\ f.is_delta)
    /\ Transits \subseteq Nat
    /\ \A f \in Frames, t \in Transits \cup {0} : f.source_us + t <= U64_MAX

ASSUME BoundsAssumption ==
    /\ PRINT_INTERVAL \in Nat \ {0} /\ U64_MAX \in Nat
    /\ MaxFrames \in Nat /\ MaxDropped \in Nat

ASSUME P99Assumption ==
    /\ P99 \in Nat \X (Nat \ {0})
    /\ P99[1] <= P99[2] /\ P99[2] <= 2 * P99[1]

VARIABLES
    role,              \* the loop: "source" or "target"
    stats,
    window_age,        \* window_start.elapsed(), up to PRINT_INTERVAL
    dropped_sequences, \* of the target's receiver
    line,              \* the last line printed
    reported,          \* the arguments of the last callback
    window,            \* history: the frames recorded since the last line
    shown,             \* history: the frames of the last line
    printed,           \* history: sums over the lines since Stats::new()
    recorded,          \* history: the number of frames recorded
    dropped            \* history: frames dropped since Stats::new()

vars == <<role, stats, window_age, dropped_sequences, line, reported, window, shown, printed,
          recorded, dropped>>

Nothing == [updates |-> 0, bytes |-> 0, dropped |-> 0]

-----------------------------------------------------------------------------
(* Percentiles *)

\* The orders that up to MaxFrames samples may be put in.
Orders ==
    UNION {{p \in [1 .. n -> 1 .. n] : \A j \in 1 .. n : \E i \in 1 .. n : p[i] = j} :
             n \in 0 .. MaxFrames}

Rearrangements(s) == {[i \in DOMAIN s |-> s[p[i]]] : p \in {q \in Orders : DOMAIN q = DOMAIN s}}

\* What select_nth_unstable may make of s: the sample of rank k is in its
\* place, none before it is larger, and none after it is smaller.
Selected(s, k) ==
    {t \in Rearrangements(s) :
        /\ \A i \in 1 .. k : t[i] <= t[k]
        /\ \A i \in k .. Len(s) : t[k] <= t[i]}

Smaller(a, b) == IF a < b THEN a ELSE b

Median(n) == n \div 2 + 1
Ninetyninth(n) == Smaller((n * P99[1]) \div P99[2], n - 1) + 1

\* Mutant: the places are read after the last pass.
PercentilesReadLate(s) ==
    LET n == Len(s)
    IN  IF n = 0 THEN {<<0, 0, 0>>}
        ELSE {<<c[Median(n)], c[Ninetyninth(n)], c[n]>> :
                c \in UNION {UNION {Selected(b, Median(n)) : b \in Selected(a, Ninetyninth(n))} :
                               a \in Selected(s, n)}}

\* What percentiles() may return: three passes over the samples, and the
\* value in place read after each.
Percentiles(s) ==
    LET n == Len(s)
    IN  IF n = 0 THEN {<<0, 0, 0>>}
        ELSE UNION {UNION {{<<c[Median(n)], b[Ninetyninth(n)], a[n]>> :
                              c \in Selected(b, Median(n))} :
                             b \in Selected(a, Ninetyninth(n))} :
                      a \in Selected(s, n)}

-----------------------------------------------------------------------------
(* Stats.  Each operator maps a Stats to a Stats. *)

NewStats ==
    [updates |-> 0, bytes |-> 0, uncompressed_bytes |-> 0, delta_updates |-> 0, dropped |-> 0,
     partial_latencies |-> <<>>, full_latencies |-> <<>>, source_latencies |-> <<>>,
     lifetime_updates |-> 0, lifetime_bytes |-> 0, lifetime_uncompressed_bytes |-> 0,
     lifetime_dropped |-> 0, lifetime_latency_sum |-> 0, lifetime_latency_min |-> U64_MAX,
     lifetime_latency_max |-> 0]

\* Mutant: only a latency that is no new minimum may be a new maximum.
HighestUnlessLowest(s, us) ==
    IF us >= s.lifetime_latency_min /\ us > s.lifetime_latency_max
    THEN us
    ELSE s.lifetime_latency_max

Lowest(s, us) == IF us < s.lifetime_latency_min THEN us ELSE s.lifetime_latency_min
Highest(s, us) == IF us > s.lifetime_latency_max THEN us ELSE s.lifetime_latency_max

Record(s, f, transit_us) ==
    LET total_us == f.source_us + transit_us
    IN  [s EXCEPT
           !.updates = @ + 1,
           !.bytes = @ + f.compressed,
           !.uncompressed_bytes = @ + f.uncompressed,
           !.delta_updates = @ + IF f.is_delta THEN 1 ELSE 0,
           !.full_latencies = IF f.is_full THEN Append(@, total_us) ELSE @,
           !.partial_latencies = IF f.is_full THEN @ ELSE Append(@, total_us),
           !.source_latencies =
               IF ~ f.is_full /\ transit_us > 0 THEN Append(@, f.source_us) ELSE @,
           !.lifetime_updates = @ + 1,
           !.lifetime_bytes = @ + f.compressed,
           !.lifetime_uncompressed_bytes = @ + f.uncompressed,
           !.lifetime_latency_sum = @ + total_us,
           !.lifetime_latency_min = Lowest(s, total_us),
           !.lifetime_latency_max = Highest(s, total_us)]

RecordDropped(s, count) ==
    [s EXCEPT !.dropped = @ + count, !.lifetime_dropped = @ + count]

ClearCounters(s) ==
    [s EXCEPT !.updates = 0, !.bytes = 0, !.uncompressed_bytes = 0, !.delta_updates = 0,
              !.dropped = 0]

ClearSamples(s) ==
    [s EXCEPT !.partial_latencies = <<>>, !.full_latencies = <<>>, !.source_latencies = <<>>]

\* Mutant: the count of dropped frames is kept.
StartWindowKeepsDropped(s) == [ClearSamples(ClearCounters(s)) EXCEPT !.dropped = s.dropped]

\* Mutant: the count of delta frames is kept.
StartWindowKeepsDeltas(s) ==
    [ClearSamples(ClearCounters(s)) EXCEPT !.delta_updates = s.delta_updates]

StartWindow(s) == ClearSamples(ClearCounters(s))

Average(s) ==
    IF s.lifetime_updates > 0 THEN s.lifetime_latency_sum \div s.lifetime_updates ELSE 0

LifetimeSnapshot(s) ==
    [messages |-> s.lifetime_updates, bytes |-> s.lifetime_bytes, latency |-> Average(s)]

SumOf(s) ==
    LET sum[i \in 0 .. Len(s)] == IF i = 0 THEN 0 ELSE sum[i - 1] + s[i] IN sum[Len(s)]

\* The lines that may be printed of a window.
Lines(s) ==
    LET fulls == Len(s.full_latencies)
        deltas == s.delta_updates
        partials == IF s.updates > fulls THEN s.updates - fulls ELSE 0
    IN  {[updates |-> s.updates,
          bytes |-> s.bytes,
          uncompressed_bytes |-> s.uncompressed_bytes,
          dropped |-> s.dropped,
          latencies |-> p,
          full_average |-> IF fulls = 0 THEN 0 ELSE SumOf(s.full_latencies) \div fulls,
          source_latencies |-> q,
          delta_percent |-> IF deltas > 0 /\ partials > 0 THEN (deltas * 100) \div partials ELSE 0] :
            p \in Percentiles(s.partial_latencies), q \in Percentiles(s.source_latencies)}

-----------------------------------------------------------------------------
(* The loops *)

\* maybe_print() and the callback, after s was recorded.
MaybePrint(s, frames) ==
    IF window_age < PRINT_INTERVAL
    THEN /\ stats' = s
         /\ window' = frames
         /\ UNCHANGED <<window_age, line, reported, shown, printed>>
    ELSE /\ line' \in Lines(s)
         /\ stats' = StartWindow(s)
         /\ window_age' = 0
         /\ reported' = LifetimeSnapshot(stats')
         /\ window' = <<>>
         /\ shown' = frames
         /\ printed' = [updates |-> printed.updates + line'.updates,
                        bytes |-> printed.bytes + line'.bytes,
                        dropped |-> printed.dropped + line'.dropped]

\* One more frame is recorded, if the bound allows.
CountFrame == recorded < MaxFrames /\ recorded' = recorded + 1

\* The source's frame was sent.
SourceSent(f) ==
    /\ role = "source"
    /\ CountFrame
    /\ MaybePrint(Record(stats, f, 0), Append(window, [frame |-> f, transit_us |-> 0]))
    /\ UNCHANGED <<role, dropped_sequences, dropped>>

\* The send buffer was full.
SourceBlocked ==
    /\ role = "source"
    /\ dropped < MaxDropped
    /\ dropped' = dropped + 1
    /\ MaybePrint(RecordDropped(stats, 1), window)
    /\ UNCHANGED <<role, dropped_sequences, recorded>>

\* The send failed otherwise.
SourceFailed ==
    /\ role = "source"
    /\ MaybePrint(stats, window)
    /\ UNCHANGED <<role, dropped_sequences, recorded, dropped>>

\* A torn read: the pass ends there.
SourceTorn ==
    /\ role = "source"
    /\ dropped < MaxDropped
    /\ dropped' = dropped + 1
    /\ stats' = RecordDropped(stats, 1)
    /\ UNCHANGED <<role, window_age, dropped_sequences, line, reported, window, shown, printed,
                   recorded>>

\* Stats::new() after the simulator was given up and opened again.
SourceReconnects ==
    /\ role = "source"
    /\ stats' = NewStats
    /\ window_age' = 0
    /\ window' = <<>>
    /\ printed' = Nothing
    /\ dropped' = 0
    /\ UNCHANGED <<role, dropped_sequences, line, reported, shown, recorded>>

\* ingest() gives a sequence up.
TargetAbandons ==
    /\ role = "target"
    /\ dropped < MaxDropped
    /\ dropped' = dropped + 1
    /\ dropped_sequences' = dropped_sequences + 1
    /\ UNCHANGED <<role, stats, window_age, line, reported, window, shown, printed,
                   recorded>>

\* Mutant: the receiver's count is not taken off.
TargetWroteKeepsCount(f, transit_us) ==
    /\ role = "target"
    /\ CountFrame
    /\ MaybePrint(RecordDropped(Record(stats, f, transit_us), dropped_sequences),
                  Append(window, [frame |-> f, transit_us |-> transit_us]))
    /\ UNCHANGED <<role, dropped_sequences, dropped>>

\* A frame was written to the map.
TargetWrote(f, transit_us) ==
    /\ role = "target"
    /\ CountFrame
    /\ MaybePrint(RecordDropped(Record(stats, f, transit_us), dropped_sequences),
                  Append(window, [frame |-> f, transit_us |-> transit_us]))
    /\ dropped_sequences' = 0
    /\ UNCHANGED <<role, dropped>>

Tick ==
    /\ window_age < PRINT_INTERVAL
    /\ window_age' = window_age + 1
    /\ UNCHANGED <<role, stats, dropped_sequences, line, reported, window, shown, printed,
                   recorded, dropped>>

Init ==
    /\ role \in {"source", "target"}
    /\ stats = NewStats
    /\ window_age = 0
    /\ dropped_sequences = 0
    /\ line \in Lines(NewStats)
    /\ reported = LifetimeSnapshot(NewStats)
    /\ window = <<>>
    /\ shown = <<>>
    /\ printed = Nothing
    /\ recorded = 0
    /\ dropped = 0

Next ==
    \/ \E f \in Frames : SourceSent(f) \/ \E t \in Transits : TargetWrote(f, t)
    \/ SourceBlocked \/ SourceFailed \/ SourceTorn \/ SourceReconnects
    \/ TargetAbandons
    \/ Tick

Spec == Init /\ [][Next]_vars

-----------------------------------------------------------------------------
(* Properties *)

\* v is the k-th smallest of the samples f, a function on any finite set.
IsRanked(f, k, v) ==
    /\ Cardinality({i \in DOMAIN f : f[i] < v}) < k
    /\ Cardinality({i \in DOMAIN f : f[i] <= v}) >= k

\* The numbers of a line are percentiles of the samples.
ArePercentiles(p, f) ==
    LET n == Cardinality(DOMAIN f)
    IN  IF n = 0 THEN p = <<0, 0, 0>>
        ELSE /\ IsRanked(f, Median(n), p[1])
             /\ IsRanked(f, Ninetyninth(n), p[2])
             /\ IsRanked(f, n, p[3])

\* The places of frames among the entries of a window.
PartialsOf(entries) == {i \in DOMAIN entries : ~ entries[i].frame.is_full}
MeasuredOf(entries) == {i \in PartialsOf(entries) : entries[i].transit_us > 0}
DeltasOf(entries) == {i \in DOMAIN entries : entries[i].frame.is_delta}

LatenciesOf(entries) ==
    [i \in PartialsOf(entries) |-> entries[i].frame.source_us + entries[i].transit_us]
SourceLatenciesOf(entries) ==
    [i \in MeasuredOf(entries) |-> entries[i].frame.source_us]

StatsType ==
    [updates : Nat, bytes : Nat, uncompressed_bytes : Nat, delta_updates : Nat, dropped : Nat,
     partial_latencies : Seq(Nat), full_latencies : Seq(Nat), source_latencies : Seq(Nat),
     lifetime_updates : Nat, lifetime_bytes : Nat, lifetime_uncompressed_bytes : Nat,
     lifetime_dropped : Nat, lifetime_latency_sum : Nat, lifetime_latency_min : 0 .. U64_MAX,
     lifetime_latency_max : 0 .. U64_MAX]

\* The types of the variables; a line's share of delta frames is a share.
TypeOK ==
    /\ role \in {"source", "target"}
    /\ stats \in StatsType
    /\ window_age \in 0 .. PRINT_INTERVAL
    /\ dropped_sequences \in Nat
    /\ line.delta_percent \in 0 .. 100
    /\ reported \in [messages : Nat, bytes : Nat, latency : Nat]
    /\ printed \in [updates : Nat, bytes : Nat, dropped : Nat]
    /\ recorded \in 0 .. MaxFrames
    /\ dropped \in Nat

\* What a line is to say of the entries of a window.
Tells(l, entries) ==
    LET partials == Cardinality(PartialsOf(entries))
    IN  /\ l.updates = Len(entries)
        /\ ArePercentiles(l.latencies, LatenciesOf(entries))
        /\ ArePercentiles(l.source_latencies, SourceLatenciesOf(entries))
        /\ partials > 0 =>
              l.delta_percent = (Cardinality(DeltasOf(entries)) * 100) \div partials

\* A line shows the percentiles of the partial frames of its own window, and
\* its share of delta frames, however the passes rearrange the samples
\* (stats.rs:202-217).
LineTellsItsWindow == Tells(line, shown)

\* The lines since Stats::new() and the window still open add up to the
\* totals of the summary: no frame is in two windows or in none.
LinesAddUp ==
    /\ printed.updates + stats.updates = stats.lifetime_updates
    /\ printed.bytes + stats.bytes = stats.lifetime_bytes
    /\ printed.dropped + stats.dropped = stats.lifetime_dropped

\* A dropped frame is counted once, in the summary or still by the receiver
\* (target.rs:360-361).
DropsCountedOnce == stats.lifetime_dropped + dropped_sequences = dropped

\* The summary's average lies between its minimum and its maximum.
AverageInRange ==
    stats.lifetime_updates > 0 =>
        stats.lifetime_latency_min <= Average(stats) /\ Average(stats) <= stats.lifetime_latency_max

\* The callback is given the totals since the run started, across every time
\* the simulator is given up and opened again (lib.rs:10, 33).
TotalsSinceStart == [][reported' # reported => reported'.messages = recorded']_vars
=============================================================================
