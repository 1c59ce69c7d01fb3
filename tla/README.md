# iracing-teleport in TLA+

iracing-teleport copies iRacing's live telemetry from the PC that runs the
simulator (the *source*) to another PC (the *target*), over UDP, and rebuilds
the simulator's shared-memory map there for SimHub and other tools. This
directory specifies that program, checks it with TLC and proves its safety
properties with TLAPS. Paths below are relative to `src/teleport/src/`.

## The system

### Components

| Component | State it keeps | Operations | What makes it correct |
|---|---|---|---|
| Sender (`protocol.rs:82`) | `sequence`, a datagram buffer | `send`, `send_heartbeat` | one sequence number per message; all fragments but the last are full |
| Receiver (`protocol.rs:204`) | reassembly buffer, `received`, `current_seq`, counters | `ingest`, `reset` | what comes out is what went in; every fragment counts once |
| Source loop (`source.rs:187`) | `last_session_update`, `last_full_frame`, `pending_resync`, `prev_varbuf`, `target_supports_delta`, `tick_counter`, `last_tick`, timers | idle, session-info frame, partial frame, torn read, duplicate tick, reconnect, shutdown | the first partial frame after session info is a keyframe; sessions are announced before their rows; loss is healed |
| Target loop (`target.rs:178`) | the map, `has_full_frame`, `prev_varbuf`, `first_data_called`, `fanalab_stub`, timers | heartbeat, fragment, session-info frame, partial frame, garbled frame, stale timeout, resync request, shutdown | no row without its descriptors; the row is the source's |
| .ibt writer (`ibt_writer.rs:224`) | the open file, its layout, record, lap and time counters, `last_tick` | `on_map_update`, `finish`, `Drop` | a row per tick, a file per session, final counts that match the rows |
| Telemetry provider (`telemetry/windows.rs`) | handles and view of the map and the event | `open`, `create`, `wait_for_data`, `signal_data_ready`, `active_var_buf`, `zero_on_exit` | the active slot is the newest; no handle leaks |
| Stats (`stats.rs`) | window and lifetime counters, samples | `record`, `record_dropped`, `maybe_print`, `lifetime_snapshot` | a line tells of its own window; lines add up to the totals; a drop counts once |
| FanaLab stub (`target.rs:23`) | a child process | `spawn`, `Drop` | lives exactly while telemetry does |
| Library, command line (`lib.rs`, `main.rs`, `bin/`) | configuration, shutdown channel | `run_source`, `run_target` | - |
| Platform tuning (`platform.rs`), mock (`telemetry/mock.rs`) | none that the program reads | priorities, timer resolution | - |

### How they interact

The simulator publishes a tick in one of the varBufs of its map and sets an
event. The source loop wakes, and sends either a *session-info frame* (header,
variable descriptors, YAML) or a *partial frame* (header and newest varBuf;
whole, or as the XOR with the previous one). `Sender` splits it into datagrams,
the path loses, duplicates and reorders them, `Receiver` puts them together,
and the target loop writes the map and sets its own event for SimHub. While it
has no session info the target sends *requests*, which also say that it
understands XOR-delta; the source polls for one request per iteration. When
there is nothing to send the source sends heartbeats, and a target that hears
nothing for long enough drops its map.

### Which behaviours are hard

Each side is one thread; all concurrency is between processes. Hard are the
faults of the path in the middle of a multi-datagram message; sends that fail
half-way; the delta state of both sides, which must agree across loss, session
info, reconnect and restart; negotiation by messages that may be lost; timers
on both sides; reading a map while another process writes it. `PROJECT.json`
lists each under `hazards`, at its line, with the property aimed at it, or the
reason why none is yet.

## The modules

| Module | Models |
|---|---|
| `Reassembly` | `Sender`, `Receiver` and the UDP path, datagram by datagram |
| `MessageChannel` | what a stream of messages promises on an order-preserving path |
| `ReassemblyProof` | theorems about `Reassembly` on any path |
| `ChannelProof` | theorems about `Reassembly` on a path that keeps the order, `MessageChannel` among them |
| `Wire` | the messages between the loops, above fragmentation |
| `Source` | the source loop, with the simulator next to it |
| `Target` | the target loop and its map |
| `Teleport` | both loops and the path between them |
| `TeleportProof` | theorems about `Teleport` |
| `Ring` | the simulator's map written step by step, and the copy the source takes of it |
| `IbtWriter` | the .ibt writer and its files |
| `LiveMap` | `Ring`, the target's writes to its map, and `IbtWriter` reading it |
| `LiveMapProof` | theorems about `LiveMap` |
| `KeepAlive` | the timers of both loops, in discrete time |
| `KeepAliveProof` | theorems about `KeepAlive` |
| `Stats` | the statistics and the places where both loops keep them |
| `StatsProof` | theorems about `Stats` |
| `MCReassembly`, `MCTeleport`, `MCLiveMap`, `MCStats` | instances for TLC (`KeepAlive` needs none) |

A definition whose comment begins with *Mutant* is the definition below it with
a plausible bug. No specification uses it; with it in the place of the original,
the property it is listed for under `mutants` is violated, so the property does
depend on that piece of the code.

### Reassembly

Byte `j` of message `m` is the pair `<<m, j>>`; a datagram carries its header
and says which bytes of which message are its payload. So the buffer of the
receiver shows exactly which bytes went where, and "the payload is intact" is
equality. `Send(msg, k)` puts the first `k` of a message's fragments on the
path: all of them, or fewer when `send_fn` fails (`k \in FailPoints`), in which
case the sequence number stays. `Ingest(r, d)` is the whole of `ingest()` in the
code's order: heartbeat, time stamp, sequence change with `Reset`, `Ignored`,
size detection, placement, completion. `Receive(i)` takes datagram `i` of the
path; `i > 1` is a reordering.

Not modelled: `last_fragment_count`, which nothing reads, datagrams shorter
than a header or not from a teleport sender, and the target's receive buffer of
9000 bytes (`target.rs:143`, `target.rs:188`). The source accepts a
`--datagram-size` of up to 65507 (`source.rs:88`); what `recv_from` makes of a
datagram above 9000 bytes is up to the system, so what is said here of a target
is said of sizes up to 9000, the default. All receivers of the model hear one
sender from its start; a restarted sender, which starts at sequence number 0
again, is part of `Source` only.

### Source, Target, Teleport

An action is one iteration of a loop of `run()`. `wire` holds whole messages in
order: `ReassemblyInOrder` checks, and `ChannelProof` proves, that `Reassembly`
gives its callers that on an order-preserving path, and intact when a send goes
out whole or not at all (`FailPoints = {}`); `ReassemblySendFails` shows that
the payload may not be whole otherwise. A
session-info frame is two messages, a `fragment` that completes nothing and the
one that completes it: between the two the target already asks for session info,
which is how the capability gets to the source at all.

A payload is a set of bits, so XOR is symmetric difference; `MCPayload` gives
consecutive ticks different payloads, none of them the zeroed buffer. `cur` and
`gap` in a partial frame, `cur` and `session` in the map, `chain`, `unsent`,
`deltas` and `faults` are history variables: nothing the code does depends on
them.

Time is abstracted. `full_due` and `resync_due` say that an interval has
elapsed and become true at any moment; the heartbeat, reconnect and stale timers
fire at any moment their branch is reached, the stale timer also while a
message is on its way. A property that holds here holds for
every setting of the intervals. What depends on exact timers is in `KeepAlive`.

`Faults` and `TargetFaults` name what may go wrong: `lose`, `lose_request` (a
message or request is lost), `sendfail` (WouldBlock), `torn` (the varBuf is
overwritten during the copy), `repeat` (the event is set without a new tick),
`simstop`, `menus` (silence for as long as the reconnect timeout while the
simulator is up), `no_var_buf` (the header cannot be parsed), `source_restart`,
`old_target` (a request without capability byte from another target), `garble`
(a frame does not decompress, or to an implausible size), `target_restart`.
At most `MaxFaults` of the counted ones happen in a behaviour. A map that the
target makes is zeroed here; that another program may have kept the one before
is in `LiveMap`.

### Ring, IbtWriter, LiveMap

`Teleport` takes an iteration of a loop as one step. Here the steps are as fine
as another process can see them, because both maps are shared memory: the
simulator writes the one while the source reads it, and SimHub polls the other
while the target writes it. What is coarser instead: frames are always whole
(delta and fragments are the other modules' subject), one frame is on its way
at a time, and it may be lost.

A varBuf is two halves, each named by the tick it belongs to, so a torn row is
one with two names. The source copies the header and then each half
(`SrcHeader`, `SrcFirstHalf`, `SrcSecondHalf`), and discards or sends. Choosing
between the two frames and choosing the slot is one step (`SrcWake`). A
session-info frame is copied in two: the header (`SrcPrefixHeader`), then the
YAML (`SrcPrefixYaml`), with no check afterwards. The simulator is external: it
writes a varBuf, then the slot's tickCount, then sets the event; and a session's
YAML (`session_info`), then its `sessionInfoUpdate` (`update`). A YAML that is
read while it is written, two strings in one, is left out, and so are ticks that
start again with a session (`source.rs:350`): ticks only grow here. It never
disconnects, so the status in every partial frame is 1.

The target's writes are `TgtFullHeader`, `TgtFullYaml`, and `TgtVarBuf`,
`TgtHeader` in the order of `target.rs`; `TgtWritten` ends the pass with
`on_map_update`. A target stops in three ways. `TgtStale` zeroes the map and
finalises the file; `TgtShutdown` finalises the file and drops the map as it is;
`TgtCrash` can come between any two writes and leaves the file as it is. After
the last two the section is gone, or another program that has it open keeps it
with what is in it (`Dropped`), and the next target's `create` opens that one
(`OpenMap`).

The writer is a record `[open, files]` and its methods are operators on it.
`fails` says which of its writes to the disk fails, at most one per pass: the
prefix of a new file (`open`), the whole of a row (`row`), its second half
(`part`), or the rewrite of the subheader (`finish`). `data` is what follows a
file's prefix on the disk, half a row an element, and what a reader finds in it
is a matter of place: row `j` is the `j`-th pair of halves (`RowAt`), whoever
wrote them. `rows` and `ticks`, the rows written whole and their ticks, and
`final`, that `finish` rewrote the subheader, are history. A file whose prefix
cannot be written is not listed; the disk header's final tick and the names of
files are left out. `lost`, also history, says that a session-info frame was
lost.

### KeepAlive

The complement of `Teleport`: here the content of frames is left out, and every
interval of the two loops is a constant and every `Instant` a timer, the time
elapsed since it was restarted. `Tick` advances all timers by one unit, up to
the interval each is compared with. It is enabled only while nobody has anything
to do: no datagram is on its way, no loop is at the end of a wait. So the pass
of a loop and the way of a datagram take less than a unit, and what a loop does
at the end of a wait may come before or after anything else at that time, but
not later. `waited` and `blocked` are the waits of `wait_for_data` (or of
`try_open`'s retry) and of `recv_from`.

The named section exists while the simulator, the source or some other program
has it open (`Section`): that is why the source gives its own handle up before
it tries again (`GiveUp`, `source.rs:233`). A message is one datagram here;
`fragment` is what is left of one that was lost in part, which reaches the
target and restarts no timer. `Faults` are `lose`, `lose_request`, `skip` (the
`continue` on a duplicate tick or a torn read), `other` (another program holds
the section), `source_restart` and `target_restart`. `gone`, `serving` and
`starved` are history timers: how long nobody but the source has had the
section, the source has been connected with nothing lost or skipped, and the
target has had a map without session info.

### Stats

A `Stats` is a record and its methods are operators on it. `Percentiles(s)` is
the set of results that `percentiles()` may return: the library's
`select_nth_unstable` promises only what is left and right of one place, so
each of the three passes is any such rearrangement of the one before, and the
value is read in between, as in the code. `MaybePrint` is `maybe_print()` and
the callback after it. The actions are the places in the two loops that record,
drop, reconnect or print; `TargetAbandons` is the receiver's own counter, which
`TargetWrote` hands over. `window`, `shown`, `printed`, `recorded` and `dropped`
are history. Rates and ratios (quotients with the time or with each other) and
the wording are left out; `print_summary` prints the record.

## The runs

| Run | Instance | Distinct states | Shows |
|---|---|---|---|
| `ReassemblyAnyOrder` | default datagram size, loss, duplicates and reordering, 3 messages of 2 or 3 fragments, wrap at 3 | 800 k | `TypeOK`, `AssembledIntact`, `CountsFragments` |
| `ReassemblyInOrder` | smaller datagram size, 5 messages of 1 to 3 fragments or too long for the receiver, up to 2 datagrams lost, wrap at 4, fair receiver | 759 k | `AssembledIntact`, `DroppedExplained`, `LossCostsOneMessage`, `EventuallyDelivered`, `RefinesMessageChannel` |
| `TeleportDelta` | one session, 3 ticks, keyframe every 3 frames, counter wraps at 4, 1 counted fault of 8 kinds, any number of garbled frames and target restarts | 3.4 M | `TypeOK`, `RowNeedsSessionInfo`, `ChainExact`, `KeyframeInTime` |
| `TeleportLive` | two sessions, one fault of 5 kinds, any number of target restarts, requests that arrive, fair loops and timers | 232 k | `WrittenUnderOwnSession`, `SessionInfoArrives`, `SessionShown`, `DivergenceEnds`, `DeltaNegotiated` |
| `KeepAlive` | all intervals scaled down, faults of 6 kinds in any number | 1.2 M | `TypeOK`, `ClosesInTime`, `StaysAlive`, `FallbackInTime`, `ResyncInTime` |
| `LiveMapIbt` | ring of 2 slots, 4 ticks, 2 sessions, lost frames, writes that fail whole or in part, one stop or crash, a section that may outlive the target | 574 k | `TypeOK`, `StatusAfterVarBuf`, `SentWhole`, `YamlFollows`, `RowsAscend`, `FileTellsTruth` |
| `Stats` | both roles, 5 frames of 3 kinds, 2 transit times, one drop, windows of any length, reconnects | 891 k | `TypeOK`, `LineTellsItsWindow`, `LinesAddUp`, `DropsCountedOnce`, `AverageInRange` |

Five runs expect a violation; each is a finding of `PROJECT.json`, where the
words of the repository that it contradicts are quoted:

| Run | Scenario |
|---|---|
| `ReassemblySmallFirst` | with `--datagram-size` below the default, the last fragment arrives first and is placed by the default size; the payload that comes out has a hole |
| `ReassemblySendFails` | `send` fails after its first datagram; the next message has the same sequence number and completes the old one |
| `LiveMapSessionInfo` | a session-info frame carries the simulator's newest tickCount without its varBuf; the writer takes it for a new row and writes the old varBuf under it |
| `LiveMapPartRow` | a row is written in part; the rows behind it are shifted, and the closed file counts rows that no reader finds |
| `StatsSinceStart` | the source reconnects; the totals of the callback start again |

Seven more configurations are not among the runs, but show, each with a
counterexample of TLC, what the properties of the passing runs leave out and why:

| Configuration (module) | Property | What TLC shows, and the words it contradicts |
|---|---|---|
| `ReassemblyDuplicate` (`MCReassembly`) | `NoDoubleDelivery` | a duplicate of a one-datagram message arrives after it completed (`protocol.rs:327`) and is delivered twice; a delta frame applied twice undoes itself. The repository's README (176-177): the receiver "discards duplicates" |
| `TeleportSourceRestart` (`MCTeleport`) | `DeltaNegotiated` | the source restarts while the target keeps its session info (`source.rs:177`, `target.rs:385`); delta is never negotiated again. `bin/source.rs:51-52`: "Delta is enabled by default when the target supports it" |
| `TeleportLostRequest` (`MCTeleport`) | `DeltaNegotiated` | the target asks between two datagrams of a session-info frame, the request is lost, the frame is complete, and no request follows. `target.rs:383-384`: "retries ensure delivery even if a request is lost" |
| `LiveMapActive` (`MCLiveMap`) | `ActiveVarBuf` | the simulator publishes a tick after the source chose its slot (`source.rs:327`) and before it copies the header (`source.rs:369`); the target shows status 1 above a newest slot that is all zeros. The repository's README (138-139): SimHub "must never see `status=1` with empty telemetry values" |
| `LiveMapShutdown` (`MCLiveMap`) | `CleanDisconnect` | the target is shut down (`target.rs:179-185`) while another program has its section open; the section says connected for good. README.md:457: "`IRSDK_ST_CONNECTED` zeroed before closing target map". `clear_status` is called nowhere |
| `LiveMapYaml` (`MCLiveMap`) | `YamlOfSession` | the session changes between `source.rs:293` and `source.rs:369`; the file of the new session begins with the old YAML and is kept when the new one comes. `ibt_writer.rs:307-308`: "rolls a new file when the session string changes" |
| `KeepAliveMenus` (`KeepAlive`) | `HeartbeatsThroughMenus` | the simulator signals without a new tick, so every pass leaves at `source.rs:390`: a heartbeat is due, none is sent, and the target closes its map. README.md:459: "Heartbeats during menus/loading prevent SimHub from disconnecting mid-session". With the defaults, 10 s each, the stale timeout races the session-info fallback; a shorter one is over before it |

Deadlock is checked in the Teleport runs and in `KeepAlive`. In the other runs it
is not: after `MaxMessages` messages, `MaxTick` ticks or `MaxFrames` frames the
model has nothing left to do.

### Bounds and why they are enough

- *Reassembly.* Three fragments have a first, a middle and a last one; the code
  treats no other position apart. Four datagrams in flight are more than one
  message, so two messages mix on the path. `SeqMod` is small so that numbers
  are reused, but no smaller than `MaxMessages` where reuse could confuse the
  receiver: with 2^32 numbers a datagram would have to be delayed by the whole
  cycle. `ReassemblyInOrder` lets it wrap, on a path without reordering; its
  `MaxLost` of 2 is not enough to lose everything between two messages of the
  same number, which are three messages, and after which the receiver would
  take the second for the first.
- *Teleport.* Three ticks distinguish the last one sent, the current one and
  another. `keyframe_interval` 3 with `CounterMod` 4 makes the wrap of the
  counter fall out of step with the keyframes, as 2^32 and 60 would. The program
  does not get there: each session-info frame sets the counter to 0, and one is
  forced every 10 s. In the model the fallback falls due at any time, or not. `MaxWire`
  messages on the path are a session-info frame and the partial frame after it;
  `MaxBack` 1 keeps one request on its way. One counted fault suffices for each
  scenario of the hazards that is about a single mishap; garbled frames and
  target restarts are not counted.
- *KeepAlive.* The instance keeps the order of the code's intervals: the poll
  interval (200 ms) is the shortest; heartbeat, receive timeout and request
  interval (1 s) are equal; then the retry delay (5 s); fallback, reconnect and
  stale timeout (10 s by default) are equal. It also keeps that a request is
  answered well before the fallback, `ResyncBound < FULL_FRAME_INTERVAL`.
  History timers stop just beyond the longest bound they are compared with.
- *Stats.* Five samples are the fewest for which median, p99 and maximum have
  different places, with `P99` 3/4 in the place of 99/100; with fewer samples
  they coincide, as in the code with less than 100. A window of `PRINT_INTERVAL`
  1 prints after any number of frames. The smallest `U64_MAX` that the latencies
  fit in lets the first minimum be reached.
- *LiveMap.* With two slots and four ticks every slot is written twice, so
  the simulator laps a source in the middle of its copy; an overwrite needs no
  more than two slots. Two sessions close one file and open the next.
  `MaxStops` 1 is a stop followed by a whole life of the new target, whose map
  starts empty or as the last target left it. `MCLap` falls back and goes on, so
  that counting laps is more than counting values.
- Bounds in guards: `MaxMessages`, `MaxInFlight`, `MaxDuplicates`, `MaxLost`, at
  most one heartbeat on the path (Reassembly); `MaxWire`, `MaxBack`, `MaxFaults`;
  `MaxFrames` and `MaxDropped` (Stats);
  `MaxTick`, `MaxStops` and one frame on its way (LiveMap);
  `SimTick` does not lap the source back to the tick it sent last, as the code's
  32-bit ticks do not; `SimSession` changes the session at most once between two
  frames; a session-info fallback does not fall due before a partial frame was
  tried (ticks come every 17 ms, the interval is 10 s); requests beyond `MaxBack`
  are lost.

### Fairness

`ReassemblyInOrder`: what is at the head of the path leaves it, because it is
lost or because the target calls `recv_from` and `ingest` in an endless loop.
`TeleportLive`, and the two configurations that refute `DeltaNegotiated`: the
loop of each side is endless and blocks at most for its poll
interval or read timeout (`source.rs:187-200`, `target.rs:178-189`); elapsed
intervals are elapsed time; a simulator that is up publishes ticks and one that
is down is started again. All of it is weak fairness. No fairness is assumed of
faults, of the stale timeout, of heartbeats, or of sessions changing; where
sessions that change for ever would refute a property, it speaks of a session
that lasts (`SessionShown`, `DivergenceEnds`). `KeepAlive` needs no fairness:
what should happen in time is a bound on a timer there.

## What is proved

Every safety property of the passing runs - each invariant, each action
property and the refinement - is a theorem for all values of the constants. The
hypotheses of a theorem, where it has any, are named below with the reason for
them.

### Reassembly

`ReassemblyProof`, on any path:

- `TypeCorrect`: `Spec => []TypeOK`. Two parts of it are not declarations of the
  code: the buffer is never written past `max_payload`, and `payload_size`, which
  slices it, never exceeds it.
- `FragmentsCounted`: `Spec => []CountsFragments`, for all sizes and faults,
  by induction with `TypeOK` (`CountInv`).
- `Integrity`: `Spec => []AssembledIntact`, for every set of messages, whatever
  the path loses, duplicates and reorders. It assumes what the findings show it
  needs: the default datagram size (or the size is not known when the last
  fragment comes first), sends that do not fail half-way, and no more messages
  than sequence numbers. `PathInv` says that every datagram on the path is a
  fragment of the sent message its sequence number stands for, and `IntactInv`
  adds that for each fragment marked received its bytes of the current message
  are in the buffer, at their place. `AssembledIntact` alone is not inductive: it
  says nothing of a message half-received.

`ChannelProof`, on a path that may lose but neither duplicates nor reorders
(`OrderedPath`):

- `ImplementsChannel`: `Spec => RefinesMessageChannel`, step by step: `Send` is a
  submission, `Receive` an arrival or a stutter, everything else a stutter. It
  holds for every datagram size and number width, and whatever `send_fn` does:
  messages come out at most once and in order even if some are not whole. The
  invariant `OrderInv` says that the path is sorted by message and fragment, and
  that when fragment 0 of the open sequence is there, its stamp is of a later
  message than any that came out; so a completed message, which has its fragment
  0, is a new one.
- `DropsExplained`: `Spec => []DroppedExplained`, and `LossIsLocal`:
  `Spec => []LossCostsOneMessage`. Both come from `LossInv`: there is a set `hit`
  of messages, no more than datagrams were lost, and `gone`, as many of them as
  the receiver counts as dropped, such that every other message is `Intact` -
  as far as the receiver has begun with it or will begin with it, each of its
  fragments is held or still on the path - and has come out or is on its way.
  When the head of the path is of another message than the open sequence, what
  the sequence lacks cannot be behind it, so the message is in `hit` and can be
  counted as dropped (`GivenUpWasHit`); when the last fragment of an intact
  message is taken, all of it is held, and `CountsFragments` says that the
  sequence is then closed (`ReceiveAccounts`). The hypotheses: no send fails
  half-way, as its fragments would be lost without a loss; no datagram is longer
  than the receiver takes, as every one would be; and no more messages than
  sequence numbers. The last one is needed when everything between two messages
  of the same number is lost; with 2^32 numbers that is more than two years of frames. What
  happens at a wrap with fewer losses is in `ReassemblyInOrder`.

### Teleport

`TeleportProof` proves five theorems for any sets of payloads, sessions and
ticks, any keyframe interval and counter width, any number and kind of the
faults above (`OwnYaml` excepts one):

- `DeltaExact`: `Spec => []ChainExact`. `ChainExact` speaks of the map only, and
  the step that writes the map depends on every frame before it, so the
  invariant `IInv` relates each message on the path to what is there when it
  arrives. `Follows(w, c, p0, j, p)` says that `p` will be the target's
  `prev_varbuf` when message `j` of the path is due: the nearest earlier message
  that changes `prev_varbuf` is a partial frame for `p`, or there is none and it
  is `p` already. `Linked`: each delta frame that does not follow a gap was made
  with such a `p`. `SourceLinked`: the same for the source's own `prev_varbuf`
  and the end of the path, *unless* `tick_counter` is 0 or the last frame never
  left. That exception is what makes every `tick_counter = 0` in the code
  matter: session info, reconnect and restart each change one side's
  `prev_varbuf` and not the other's. `LeadsFull` (a lead fragment is followed by
  the rest of its frame) is needed for the step that loses a session-info frame.
- `KeyframesInTime`: `Spec => []KeyframeInTime`, by `DeltasCounted`: the deltas
  since the last keyframe are fewer than the position of `tick_counter` in its
  interval, or than the interval when it stands at an end. The lemmas `DivMod`
  to `ModSucc` are the arithmetic of `%` it takes.
- `SessionInfoFirst`: `Spec => []RowNeedsSessionInfo`, inductive with the types.
- `TeleportTypes`: `Spec => []TypeOK`.
- `OwnYaml`: `Spec => WrittenUnderOwnSession`, by `OwnSession`: while nothing has
  gone wrong, each partial frame on the path `Shows` its own session - the last
  session-info frame before it is of that session, or there is none and the
  target's YAML is, if it has one - and the next frame of the source's
  `last_session_update` would. It assumes that no frame fails to decompress,
  which is a loss of a session-info frame that `faults` does not count.

### LiveMap

`LiveMapProof` proves the six properties of `LiveMap`, for a ring of one to four
slots (the header has four), any number of ticks and sessions and all faults. `LapAssumption` (laps are integers) and
`StopsAssumption` are all it assumes besides the constants of `Ring`. The
invariant has layers, each proved from those above it:

- `LiveMapTypes`: `Spec => []TypeOK`, with the shape of the frame being written
  and of the ring (`Typed`: a slot that is not being written holds one tick, at
  least the one it shows).
- `SentIsWhole`: `Spec => SentWhole`, by `CopyInv`: as long as the slot still
  shows the chosen tick and is not being overwritten, the halves copied so far
  are that tick's. That is what the re-check at the end relies on.
- `ConnectedHasVarBuf`: `Spec => []StatusAfterVarBuf`, by `ConnectInv`: no
  partial frame carries a slot that was never written, so the row written
  before the header is one.
- `FilesDescribed`: `Spec => []FileTellsTruth`, and `FilesAscend`:
  `Spec => []RowsAscend`, by `FileInv`: the counters of the open file are those
  of its rows (`Tallied`), what is on the disk behind the prefix is at least as
  long as its rows, and if it is no longer then it is them, one after the other
  (`Aligned`), and its last tick is not ahead of the map's. A
  file may have parts in it, and then nothing is said of where its rows are:
  `RowsInPlace` is false (`LiveMapPartRow`). What is proved is that length and
  count give it away: if the file ends where the last counted row ends, there is
  no part and the subheader describes what a reader finds. The files of killed
  targets, whose subheader says 0, are among those it speaks of. For
  the order of rows the ticks must not go back, which is `Chain`: the headers on
  their way - the map's, the one being written, the one sent, the one copied, the ring's -
  are in this order, slot by slot. `Describes` says what a count is by the
  property it has (`BeginLap`), not by a fold, and can be proved row by row.
- `YamlKeepsUp`: `Spec => YamlFollows`, by `UpdateInv` and `YamlInv`: no
  `sessionInfoUpdate` on its way is ahead of the simulator, nor, during a copy,
  of the check that chose a partial frame; and unless a session-info frame was
  lost, the last YAML on its way is at least `last_session_update`.

### KeepAlive

`KeepAliveProof` proves the five properties of `KeepAlive`, for all positive
intervals and all sets of faults:

- `TimersBounded`: `Spec => []TypeOK`.
- `ClosedInTime`: `Spec => []ClosesInTime`, with `ClosingInv`: while the source
  is connected, `gone` is at most what `last_data`, and at its end the poll's
  wait, have run; so at every message it is at most the sum of the two
  intervals, and after the last message `last_update`, and at its end the
  receive's wait, bound the rest. A source that has given up finds no section,
  and sends nothing more.
- `AliveWhileServing`: `Spec => StaysAlive`, if `SilenceBound < stale_timeout`.
  The assumption is needed: `--stale-timeout 1` closes the map between two
  heartbeats. `AliveInv` bounds the smaller of `last_update` and
  `serving` by `last_heartbeat`, and at its end by the poll's wait (`Quiet`);
  across a reconnect the heartbeat timer goes on.
- `FallbackBounded`: `Spec => FallbackInTime`, with `FallbackInv`: while a map
  lacks session info, `starved` is at most `last_full_frame` or that timer is at
  its end, and then the next frame is session info; or one is on its way.
- `ResyncBounded`: `Spec => ResyncInTime`, with `ResyncInv`: without a
  request on its way the wait is at most `last_resync_request`, or a request
  interval and the silence since (`Unasked`); with one, the poll's wait on top
  (`Asked`); after the poll the next frame is session info.

### Stats

`StatsProof` proves:

- `PercentilesRanked`: for every sequence of up to `MaxFrames` samples,
  whichever rearrangements the three passes choose, each number returned has
  the rank it stands for. The rank of a value does not depend on the order of
  the samples, which takes a bijection between the places.
- `LinesTell`: `Spec => []LineTellsItsWindow`. `Matches` relates the sample
  sequences of `stats` to the entries of the window: each set of values has as
  many samples on one side as on the other (`SameSamples`). A rank depends on no
  more than that (`SamePercentiles`), and it is kept when a frame is recorded, so
  the order of the samples and the selection from the window do not matter.
- `BooksTyped`, `BooksBalance`, `DropsInBooks`, `AverageBounded`: `TypeOK`,
  `LinesAddUp`, `DropsCountedOnce` and `AverageInRange`. `Sound` relates the
  counters to each other: full and delta frames are no more than the updates they are
  among, and the sum of the latencies lies between `lifetime_updates` times the
  minimum and times the maximum.

### Only model-checked

Liveness under fairness, which the prover cannot do: `EventuallyDelivered`,
`SessionInfoArrives`, `SessionShown`, `DivergenceEnds`, `DeltaNegotiated`. The
safety part of the first is `LossIsLocal`: with nothing lost and nothing on its
way, every message that is not too long has come out. The bounds in time that
`KeepAlive` states instead of liveness are proved. The findings and the further
counterexamples are behaviours that TLC finds; where a theorem has a hypothesis on faults or sizes, one of them
shows what happens without it.

## Observations without a run

- `protocol.rs:220-222` says each increment of `dropped_sequences` "means at
  least one UDP packet was lost". On a path that reorders, two interleaved
  sequences are both abandoned without a loss. `DroppedExplained` is therefore
  checked on an order-preserving path.
- `Sender` allows 65535 fragments, `Receiver` discards more than 256 silently:
  with a small `--datagram-size` a session-info frame never arrives.
  `LossCostsOneMessage` shows that nothing else is lost with it.
- The repository's README (101-103) says both sides reset their delta state to
  zeros on a session-info frame. The target does (`target.rs:254`); the source
  keeps `prev_varbuf` and relies on `tick_counter = 0` making the next partial
  frame a keyframe. `ChainExact` shows that this is enough.
- `LiveMapActive` shows that the newest slot of a connected map may be empty.
  `StatusAfterVarBuf` therefore speaks of *some* slot, and rows in an .ibt file
  may repeat an older varBuf.
- The tick re-check cannot see a slot that is being overwritten when it is read
  (the simulator changes the tickCount last, if it does as assumed here), so
  `windows.rs:164-166` ("torn frames are detected and dropped") claims more than
  it gives; `SentWhole` excepts that case, in which the simulator has lapped the
  source. It is no finding, as the order of the simulator's writes is not in the
  repository.
- When the session-info frame of a new session is lost, the next partial frame's
  header brings the new `sessionInfoUpdate`, and the writer rolls to a new file
  with the old YAML, as in `LiveMapYaml` without a loss. `YamlFollows` says that
  the map is right again with the next frame unless one was lost; the file is not.
- `StaysAlive` and `ResyncInTime` are about a source that skips no signal:
  `KeepAliveMenus` shows what skipping does.
- A section that another program holds open outlives iRacing. `try_open`
  succeeds on it, so heartbeats go on, and the target's map stays until that
  program ends: `gone` in `ClosesInTime` starts only then.
- A target that hears partial frames only keeps a map without session info whose
  `last_update` nothing restarts: on a receive timeout it is closed and
  `on_stale` is called, with no `on_first_data` before it.
- `dropped` counts sequences of which some fragment arrived: a message all of
  whose datagrams are lost is not counted anywhere.
- README.md:194 of the repository calls the delta figure a fraction of frames;
  it is one of partial frames (`stats.rs:162`).

## The plan

1. *Done:* `Reassembly` with its abstract channel and its proofs; `Wire`,
   `Source`, `Target`, `Teleport`.
2. *Done:* `Ring`, `IbtWriter` and `LiveMap`, which composes them with the
   target's map.
3. *Done:* `KeepAlive`, the timers.
4. *Done:* `Stats`.
5. Proofs. *Done:* every safety property of the passing runs. Left:
   `LossCostsOneMessage` across a wrap of the sequence number, for losses that
   do not span a whole cycle; the connection of `Teleport`'s `wire` to
   `MessageChannel` as a refinement of its own.

## Not modelled, and why

- LZ4: a pure function; that it fails is `TgtGarbled`.
- Setting up sockets, multicast membership, priorities, affinity and timer
  resolution (`platform.rs`), the busy-wait options: calls into the system, or
  shorter waits, without state that the program reads.
- The provider's handles and security descriptor, `query_region_size` and
  `zero_on_exit` (`windows.rs`): one call into Windows after the other, in a
  constructor, a destructor or on the way out, and no step of this program can
  come in between.
- The mock provider: a buffer on the heap; `open` never succeeds.
- Library interface, command line, configuration: values that are passed on
  once. The order of the callbacks is in `Target`, their arguments in `Stats`.
- The stub's executable (`target.rs:25-63`): file-system and process calls. When
  it runs is in `Target`.
- Of the .ibt writer, the layout of the file and its name; of the statistics,
  the wording of the line.
