------------------------------- MODULE Target -------------------------------
(***************************************************************************)
(* The target process (src/teleport/src/target.rs) and the telemetry map   *)
(* it keeps for SimHub.  One action is one pass of the loop of run(): a    *)
(* datagram, or the receive timeout.                                       *)
(*                                                                         *)
(* Time is abstracted as in Source: resync_due is a flag, and whether the  *)
(* stale timeout has elapsed is an arbitrary choice.                       *)
(***************************************************************************)
EXTENDS Wire

CONSTANTS
    fanalab,       \* --fanalab
    TargetFaults   \* what may go wrong: "garble", "target_restart"

VARIABLES
    map,                \* the telemetry map, or NoMap
    has_full_frame,
    target_prev,        \* prev_varbuf
    first_data_called,  \* on_first_data was called and on_stale was not since
    fanalab_stub,       \* the dummy simulator process runs
    resync_due,         \* last_resync_request.elapsed() >= RESYNC_REQUEST_INTERVAL
    chain               \* history: nothing was lost since the last keyframe

targetVars == <<map, has_full_frame, target_prev, first_data_called, fanalab_stub,
                resync_due, chain>>

NoMap == [made |-> FALSE]

\* A map: the session whose YAML it holds, and the payload in the active
\* varBuf.  The rest is history: the payload and session of the frame the
\* payload came from.
Map(yaml, row, cur, s) == [made |-> TRUE, yaml |-> yaml, row |-> row, cur |-> cur, session |-> s]

\* A new region is zeroed.  That another program keeps one is in LiveMap.
FreshMap == Map(NoSession, Zeros, Zeros, NoSession)

\* The map the frame is written to: created lazily.
OpenMap == IF map.made THEN map ELSE FreshMap

\* Mutant: the request lacks its capability byte.
AskWithoutCapability(full) ==
    IF ~ full /\ resync_due
    THEN /\ back' = IF Len(back) < MaxBack THEN Append(back, "old") ELSE back
         /\ resync_due' = FALSE
    ELSE UNCHANGED <<back, resync_due>>

\* The end of a pass that received something: ask for a session-info frame
\* while there is none, at most once per interval.  Bound: requests beyond
\* MaxBack are lost.
AskForFull(full) ==
    IF ~ full /\ resync_due
    THEN /\ back' = IF Len(back) < MaxBack THEN Append(back, "delta") ELSE back
         /\ resync_due' = FALSE
    ELSE UNCHANGED <<back, resync_due>>

Arrives(kind) ==
    /\ wire # <<>>
    /\ Head(wire).kind = kind
    /\ wire' = Tail(wire)

-----------------------------------------------------------------------------

TgtHeartbeat ==
    /\ Arrives("heartbeat")
    /\ AskForFull(has_full_frame)
    /\ UNCHANGED <<map, has_full_frame, target_prev, first_data_called, fanalab_stub, chain>>

\* A datagram that completes no message: ingest() kept it, nothing was written.
TgtFragment ==
    /\ Arrives("fragment")
    /\ AskForFull(has_full_frame)
    /\ UNCHANGED <<map, has_full_frame, target_prev, first_data_called, fanalab_stub,
                   chain>>

\* A session-info frame: all of the map but the varBufs and the status.
TgtFull ==
    /\ Arrives("full")
    /\ map' = [OpenMap EXCEPT !.yaml = Head(wire).session]
    /\ has_full_frame' = TRUE
    /\ first_data_called' = TRUE
    /\ target_prev' = Zeros
    /\ fanalab_stub' = (fanalab \/ fanalab_stub)
    /\ AskForFull(TRUE)
    /\ UNCHANGED chain

\* What a partial frame stands for, as far as the target can tell.
Decoded(frame) == IF frame.delta THEN Xor(frame.data, target_prev) ELSE frame.data

TgtPartial ==
    LET frame == Head(wire)
    IN  /\ Arrives("partial")
        /\ has_full_frame
        /\ map' = [OpenMap EXCEPT !.row = Decoded(frame), !.cur = frame.cur,
                                  !.session = frame.session]
        /\ target_prev' = Decoded(frame)
        /\ AskForFull(TRUE)
        /\ chain' = (~ frame.delta \/ (chain /\ ~ frame.gap))
        /\ UNCHANGED <<has_full_frame, first_data_called, fanalab_stub>>

\* A partial frame before the first session-info frame: the map is made, the
\* frame is not written, last_update is not restarted.
TgtPartialTooEarly ==
    /\ Arrives("partial")
    /\ ~ has_full_frame
    /\ map' = OpenMap
    /\ chain' = FALSE
    /\ AskForFull(FALSE)
    /\ UNCHANGED <<has_full_frame, target_prev, first_data_called, fanalab_stub>>

\* A frame that does not decompress, or not to a plausible size or place:
\* `continue`, past the write and past the request.
TgtGarbled ==
    /\ "garble" \in TargetFaults
    /\ \/ Arrives("full")
       \/ Arrives("partial") /\ has_full_frame
    /\ map' = OpenMap
    /\ chain' = IF Head(wire).kind = "partial" THEN FALSE ELSE chain
    /\ UNCHANGED <<has_full_frame, target_prev, first_data_called, fanalab_stub,
                   resync_due, back>>

\* Mutant: the map goes, and with it its session info, but not the flag.
StaleKeepsFlag ==
    /\ map.made
    /\ map' = NoMap
    /\ UNCHANGED <<has_full_frame, target_prev, first_data_called, fanalab_stub, chain,
                   resync_due, wire, back>>

\* recv_from timed out, and nothing was written for stale_timeout; frames may
\* be on their way.
TgtStale ==
    /\ map.made
    /\ map' = NoMap
    /\ has_full_frame' = FALSE
    /\ first_data_called' = FALSE
    /\ target_prev' = Zeros
    /\ fanalab_stub' = FALSE
    /\ chain' = FALSE
    /\ UNCHANGED <<resync_due, wire, back>>

Reset ==
    /\ map' = NoMap
    /\ has_full_frame' = FALSE
    /\ target_prev' = Zeros
    /\ first_data_called' = FALSE
    /\ fanalab_stub' = FALSE
    /\ resync_due' = TRUE
    /\ chain' = FALSE

\* The shutdown signal, and a new process.
TgtRestart ==
    /\ "target_restart" \in TargetFaults
    /\ Reset
    /\ UNCHANGED <<wire, back>>

ResyncDue ==
    /\ ~ resync_due
    /\ resync_due' = TRUE
    /\ UNCHANGED <<map, has_full_frame, target_prev, first_data_called, fanalab_stub,
                   chain, wire, back>>

-----------------------------------------------------------------------------

TargetInit ==
    /\ map = NoMap
    /\ has_full_frame = FALSE
    /\ target_prev = Zeros
    /\ first_data_called = FALSE
    /\ fanalab_stub = FALSE
    /\ resync_due = TRUE
    /\ chain = FALSE

\* A pass that received a datagram.
TargetReceives ==
    TgtHeartbeat \/ TgtFragment \/ TgtFull \/ TgtPartial \/ TgtPartialTooEarly

TargetNext ==
    TargetReceives \/ TgtGarbled \/ TgtStale \/ TgtRestart \/ ResyncDue

MapType ==
    [made : {TRUE}, yaml : Sessions \cup {NoSession}, row : SUBSET Bits,
     cur : SUBSET Bits, session : Sessions \cup {NoSession}]

TargetTypeOK ==
    /\ map \in {NoMap} \cup MapType
    /\ has_full_frame \in BOOLEAN
    /\ target_prev \in SUBSET Bits
    /\ first_data_called \in BOOLEAN
    /\ fanalab_stub \in BOOLEAN
    /\ resync_due \in BOOLEAN
    /\ chain \in BOOLEAN
=============================================================================
