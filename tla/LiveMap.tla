------------------------------ MODULE LiveMap ------------------------------
(***************************************************************************)
(* From the simulator's map to the target's map and the .ibt file: Ring,    *)
(* the target's writes to its map in their order (src/teleport/src/         *)
(* target.rs), which another process can see half-way, and the IbtWriter    *)
(* that reads the map after each of them.                                   *)
(***************************************************************************)
EXTENDS Ring, IbtWriter

CONSTANTS
    Faults,    \* what may go wrong: "lose", "open", "row", "part", "finish", "crash"
    MaxStops   \* bound: how often the target stops or goes stale

ASSUME LapAssumption == \A t \in Tick : Lap(t) \in Int

ASSUME StopsAssumption == MaxStops \in Nat

VARIABLES
    map,      \* the named section, and whether the target has made it its own
    frame,    \* the frame being written to the map, and how far that is
    has_full_frame,
    stops,    \* bound
    lost      \* history: a session-info frame was lost

mapVars == <<map, frame, has_full_frame>>
vars == <<simVars, copyVars, sent, mapVars, ibt, stops, lost>>

\* No section, or a zeroed one that another program keeps.
NoMap ==
    [made |-> FALSE, status |-> 0, ticks |-> [s \in Slots |-> 0], update |-> 0,
     yaml |-> NoSession, rows |-> [s \in Slots |-> Zeros]]

\* A new section is zeroed, one that another program keeps is opened as it is.
OpenMap == [map EXCEPT !.made = TRUE]

\* The target lets go of the section: it is gone, or another program keeps it.
Dropped == {NoMap, [map EXCEPT !.made = FALSE]}

Idle == [at |-> "recv", of |-> NoFrame]

\* What a step of the writer may fail with, if with anything.
Fails == {"none"} \cup (Faults \cap {"open", "row", "part", "finish"})

-----------------------------------------------------------------------------
(* A frame is taken and written, in two steps that a reader of the map can   *)
(* see, and handed to the .ibt writer.                                       *)

Takes(kind) ==
    /\ frame = Idle
    /\ sent.kind = kind
    /\ sent' = NoFrame

\* map[..4] and map[8..n]: the header but its status, and what follows it.
TgtFullHeader ==
    /\ Takes("full")
    /\ map' = [OpenMap EXCEPT !.ticks = sent.ticks, !.update = sent.update]
    /\ frame' = [at |-> "yaml", of |-> sent]
    /\ UNCHANGED <<simVars, copyVars, has_full_frame, ibt, stops, lost>>

TgtFullYaml ==
    /\ frame.at = "yaml"
    /\ map' = [map EXCEPT !.yaml = frame.of.yaml]
    /\ has_full_frame' = TRUE
    /\ frame' = [frame EXCEPT !.at = "written"]
    /\ UNCHANGED <<simVars, copyVars, sent, ibt, stops, lost>>

\* Mutant: the header is written first.
HeaderFirst(m, f) == [m EXCEPT !.ticks = f.ticks, !.update = f.update, !.status = 1]

\* The varBuf goes to its slot, before the header.
WriteVarBuf(m, f) == [m EXCEPT !.rows[f.slot] = f.row]

TgtVarBuf ==
    /\ Takes("partial")
    /\ has_full_frame
    /\ map' = WriteVarBuf(OpenMap, sent)
    /\ frame' = [at |-> "header", of |-> sent]
    /\ UNCHANGED <<simVars, copyVars, has_full_frame, ibt, stops, lost>>

\* The header, with the simulator's status: connected.
TgtHeader ==
    /\ frame.at = "header"
    /\ map' = [map EXCEPT !.ticks = frame.of.ticks, !.update = frame.of.update, !.status = 1]
    /\ frame' = [frame EXCEPT !.at = "written"]
    /\ UNCHANGED <<simVars, copyVars, sent, has_full_frame, ibt, stops, lost>>

TgtTooEarly ==
    /\ Takes("partial")
    /\ ~ has_full_frame
    /\ map' = OpenMap
    /\ UNCHANGED <<simVars, copyVars, frame, has_full_frame, ibt, stops, lost>>

\* The row a reader of the map finds: that of the slot with the highest tick.
ActiveSample(m) == Sample(m.ticks[Active(m.ticks)], m.rows[Active(m.ticks)])

\* The end of the pass: the map is handed to the writer.
TgtWritten ==
    /\ frame.at = "written"
    /\ \E fails \in Fails : ibt' = OnMapUpdate(ibt, map, ActiveSample(map), fails)
    /\ frame' = Idle
    /\ UNCHANGED <<simVars, copyVars, sent, map, has_full_frame, stops, lost>>

\* Bound: the target stops or goes stale at most MaxStops times.
Stops ==
    /\ stops < MaxStops
    /\ stops' = stops + 1
    /\ frame' = Idle
    /\ has_full_frame' = FALSE
    /\ UNCHANGED <<simVars, copyVars, sent, lost>>

\* The stale timeout: the file is finalised, the map zeroed.
TgtStale ==
    /\ Stops
    /\ frame = Idle
    /\ map.made
    /\ map' = NoMap
    /\ \E fails \in Fails : ibt' = Finish(ibt, fails = "finish")

\* The shutdown signal, and a new process: the file is finalised, the map is
\* dropped as it is.
TgtShutdown ==
    /\ Stops
    /\ frame = Idle
    /\ map' \in Dropped
    /\ \E fails \in Fails : ibt' = Finish(ibt, fails = "finish")

\* The process is killed, perhaps in the middle of a write to the map: the
\* file stays as it is.
TgtCrash ==
    /\ "crash" \in Faults
    /\ Stops
    /\ map' \in Dropped
    /\ ibt' = [ibt EXCEPT !.open = Closed]

\* The frame is lost on its way (external).
Lose ==
    /\ "lose" \in Faults
    /\ sent # NoFrame
    /\ sent' = NoFrame
    /\ lost' = (lost \/ sent.kind = "full")
    /\ UNCHANGED <<simVars, copyVars, mapVars, ibt, stops>>

-----------------------------------------------------------------------------

Init ==
    /\ RingInit
    /\ map = NoMap
    /\ frame = Idle
    /\ has_full_frame = FALSE
    /\ ibt = NewWriter
    /\ stops = 0
    /\ lost = FALSE

TargetNext ==
    \/ TgtFullHeader \/ TgtFullYaml \/ TgtVarBuf \/ TgtHeader \/ TgtTooEarly \/ TgtWritten
    \/ TgtStale \/ TgtShutdown \/ TgtCrash

Next == (RingNext /\ UNCHANGED <<mapVars, ibt, stops, lost>>) \/ TargetNext \/ Lose

Spec == Init /\ [][Next]_vars

-----------------------------------------------------------------------------
(* Properties *)

MapType ==
    [made : BOOLEAN, status : {0, 1}, ticks : [Slots -> Tick], update : Sessions,
     yaml : Sessions \cup {NoSession}, rows : [Slots -> Row]]

\* The types of the variables, and an open file that is the last one and not
\* finalised (ibt_writer.rs:224-239, 379-382).
TypeOK ==
    /\ RingTypeOK
    /\ IbtTypeOK
    /\ map \in MapType
    /\ frame \in [at : {"recv", "yaml", "header", "written"}, of : Frame]
    /\ has_full_frame \in BOOLEAN
    /\ stops \in 0 .. MaxStops
    /\ lost \in BOOLEAN

\* Torn reads: what passes the tick re-check is the varBuf of the tick it is
\* sent as, unless the simulator is overwriting that very slot - and then it
\* has lapped the source (source.rs:372-383).
SentWhole ==
    [][SrcSend => copy.row = Whole(copy.tick) \/ Overwriting(copy.slot)]_vars

\* The map shows the header of a new session above the YAML of the old one for
\* one frame at most: when the session changes while a partial frame is copied,
\* or its session-info frame is, the next frame makes up for it - unless a
\* session-info frame was lost (source.rs:293, 321, 369).
YamlFollows == [][TgtVarBuf /\ ~ lost => map.yaml >= map.update]_vars

\* A reader that polls the map between two writes sees it connected only once
\* a varBuf is in it, whatever comes first or is lost, after each restart, and
\* when the reader keeps the section from one target to the next
\* (source.rs:299-315).
StatusAfterVarBuf == map.status = 1 => \E s \in Slots : map.rows[s] # Zeros

\* It is the varBuf that the header says is the newest (source.rs:304-305,
\* README.md:138-139: never status=1 with empty telemetry values).
ActiveVarBuf == map.status = 1 => map.rows[Active(map.ticks)] # Zeros

\* A map that no target has says disconnected (target.rs:413-414, README.md:457).
CleanDisconnect == ~ map.made => map.status = 0

\* What a reader opens describes itself, although the subheader is kept up row
\* by row, rows may go back in time, fail to be written or be written in part,
\* and the target may be killed: if the file ends where the last row that its
\* subheader counts ends, those are the rows that were written, and the
\* subheader has their times and laps; and once closed it counts all that were
\* written whole (ibt_writer.rs:345-375, 382-411).
FileTellsTruth ==
    \A i \in DOMAIN ibt.files :
        LET file == ibt.files[i]
        IN  /\ file.final => file.sub.records = Len(file.rows)
            /\ Fits(file) => /\ RowsFound(file) = file.rows
                             /\ Describes(file.sub, RowsFound(file))

\* The layout of a closed file: as many rows as it counts, one after the other,
\* each of them whole (ibt_writer.rs:23).
RowsInPlace ==
    \A i \in DOMAIN ibt.files : ibt.files[i].final => RowsFound(ibt.files[i]) = ibt.files[i].rows

\* A new session string is a new file: when the map has the YAML that goes with
\* its sessionInfoUpdate, so has the file that is open (ibt_writer.rs:307-308,
\* 315).
YamlOfSession ==
    [][TgtWritten /\ ibt'.open.is /\ map.yaml = map.update
         => ibt'.files[Last(ibt')].yaml = map.yaml]_vars

\* No tick has two rows in a file, and rows are in the order of their ticks,
\* whatever is sent twice, lost or discarded (ibt_writer.rs:335-340).
RowsAscend ==
    \A i \in DOMAIN ibt.files :
        LET ticks == ibt.files[i].ticks
        IN  \A j, k \in DOMAIN ticks : j < k => ticks[j] < ticks[k]

\* A session-info frame does not advance the tick, so it is a no-op for the
\* writer (target.rs:372-374).
SessionInfoNoRow ==
    [][TgtWritten /\ frame.of.kind = "full" /\ ibt.open.is /\ ibt.open.session = map.update
         => ibt'.files = ibt.files]_vars
=============================================================================
