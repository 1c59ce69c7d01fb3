----------------------------- MODULE IbtWriter -----------------------------
(***************************************************************************)
(* The .ibt writer (src/teleport/src/ibt_writer.rs): the file it has open,  *)
(* and what is on the disk.  on_map_update() and finish() are operators on  *)
(* a writer, a record of the two; the target's loop calls them.             *)
(***************************************************************************)
EXTENDS Integers, Sequences, FiniteSets

CONSTANTS
    Lap(_)   \* the Lap variable in the second half of a row

VARIABLES
    ibt   \* [open |-> the open file or Closed, files |-> the files, oldest first]

Closed == [is |-> FALSE]

\* The subheader as build_prefix() writes it, and the tick in the disk header.
Placeholder == [records |-> 0, laps |-> 0, start_time |-> 0, end_time |-> 0]
NoTick == -1

\* What the map holds: the highest tick, and the varBuf of its slot.
Sample(tick, row) == [tick |-> tick, row |-> row]

\* SessionTime is in the first half of a row, Lap in the second.
SessionTime(row) == row[1]
LapOf(row) == Lap(row[2])

NewWriter == [open |-> Closed, files |-> <<>>]

Last(w) == Len(w.files)

-----------------------------------------------------------------------------

\* Mutant: finish() leaves the file open.
FinaliseKeepsOpen(w, fails) ==
    [w EXCEPT !.files[Last(w)].final = TRUE]

\* finish() of an open file.  When the rewrite of the subheader fails, the
\* placeholder stays.
Finalise(w, fails) ==
    LET o == w.open
        sub == [records |-> o.record_count, laps |-> o.lap_count,
                start_time |-> o.start_time, end_time |-> o.end_time]
    IN  [open  |-> Closed,
         files |-> IF fails THEN w.files
                   ELSE [w.files EXCEPT ![Last(w)].sub = sub, ![Last(w)].final = TRUE]]

\* Safe to call when no file is open.
Finish(w, fails) == IF w.open.is THEN Finalise(w, fails) ELSE w

\* start_session(): the prefix with the YAML and the sessionInfoUpdate of the
\* map.  data is what follows it on the disk, half a row an element.  rows, ticks
\* and final are history: the rows that were written whole, their ticks, and
\* whether finish() rewrote the subheader.
StartSession(w, map) ==
    [open  |-> [is |-> TRUE, session |-> map.update, record_count |-> 0, start_time |-> 0,
                end_time |-> 0, lap_count |-> 0, last_lap |-> NoTick, last_tick |-> NoTick],
     files |-> Append(w.files, [session |-> map.update, yaml |-> map.yaml, data |-> <<>>,
                                sub |-> Placeholder, final |-> FALSE,
                                rows |-> <<>>, ticks |-> <<>>])]

\* The statistics of the subheader after one more row.
Counted(o, row) ==
    LET first == o.record_count = 0
        last_lap == IF first THEN LapOf(row) - 1 ELSE o.last_lap
        t == SessionTime(row)
    IN  [o EXCEPT
            !.record_count = o.record_count + 1,
            !.start_time = IF first THEN t ELSE o.start_time,
            !.end_time = IF first \/ t > o.end_time THEN t ELSE o.end_time,
            !.lap_count = IF LapOf(row) > last_lap THEN o.lap_count + 1 ELSE o.lap_count,
            !.last_lap = IF LapOf(row) > last_lap THEN LapOf(row) ELSE last_lap]

\* Mutant: the row is counted although it was not written.
CountedAnyway(o, row, fails) == Counted(o, row)

\* A row that could not be written whole is not counted.
CountedIf(o, row, fails) == IF fails \in {"row", "part"} THEN o ELSE Counted(o, row)

\* write_all() of a row: all of it, nothing ("row"), or its beginning ("part").
\* What was written of it stays.
WriteAll(file, sample, fails) ==
    CASE fails = "row" -> file
      [] fails = "part" -> [file EXCEPT !.data = Append(@, sample.row[1])]
      [] OTHER -> [file EXCEPT !.data = @ \o <<sample.row[1], sample.row[2]>>,
                               !.rows = Append(@, sample.row), !.ticks = Append(@, sample.tick)]

\* Mutant: every update of the map is a row.
AlwaysAdvanced(w, tick) == w.open.is

\* The tick advanced since the last row.
Advanced(w, tick) == w.open.is /\ tick # w.open.last_tick

\* append_row(): the tick of a row that could not be written is not tried again.
AppendRow(w, sample, fails) ==
    IF ~ Advanced(w, sample.tick) THEN w
    ELSE [open  |-> [CountedIf(w.open, sample.row, fails) EXCEPT !.last_tick = sample.tick],
          files |-> [w.files EXCEPT ![Last(w)] = WriteAll(@, sample, fails)]]

\* MapLayout::parse(): a connected map with variables and a YAML.
Populated(map) == map.status = 1

\* on_map_update(): a new session closes the file, no file opens one.  fails
\* says which of the three writes to the disk does.
OnMapUpdate(w, map, sample, fails) ==
    IF ~ Populated(map) THEN w
    ELSE LET rolled == IF w.open.is /\ w.open.session # map.update
                       THEN Finish(w, fails = "finish") ELSE w
             opened == IF rolled.open.is \/ fails = "open" THEN rolled
                       ELSE StartSession(rolled, map)
         IN  AppendRow(opened, sample, fails)

-----------------------------------------------------------------------------

(* What a reader of a file finds after its prefix. *)

RowAt(data, j) == <<data[2 * j - 1], data[2 * j]>>

\* Its rows: as many as the subheader says, each of bufLen bytes.
RowsFound(file) == [j \in 1 .. file.sub.records |-> RowAt(file.data, j)]

\* It ends where the last of them ends.
Fits(file) == Len(file.data) = 2 * file.sub.records

\* The rows that begin a lap: none before is of as late a one.
BeginLap(rows) ==
    {j \in DOMAIN rows : \A k \in DOMAIN rows : k < j => LapOf(rows[k]) < LapOf(rows[j])}

\* The subheader has the number of the rows, their first and last SessionTime
\* and the laps begun.
Describes(sub, rows) ==
    /\ sub.records = Len(rows)
    /\ sub.laps = Cardinality(BeginLap(rows))
    /\ \A j \in DOMAIN rows : SessionTime(rows[j]) <= sub.end_time
    /\ rows # <<>> => /\ SessionTime(rows[1]) = sub.start_time
                      /\ \E j \in DOMAIN rows : SessionTime(rows[j]) = sub.end_time

-----------------------------------------------------------------------------

\* An open file is the last one, not finalised, and its counts are within its
\* rows.
IbtTypeOK ==
    /\ ibt.open.is \in BOOLEAN
    /\ ibt.open.is =>
        LET o == ibt.open
            file == ibt.files[Last(ibt)]
        IN  /\ ibt.files # <<>> /\ ~ file.final
            /\ o.session = file.session
            /\ o.record_count \in 0 .. Len(file.rows)
            /\ o.lap_count \in 0 .. o.record_count
=============================================================================
