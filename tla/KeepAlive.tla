------------------------------ MODULE KeepAlive ------------------------------
(***************************************************************************)
(* The timers of the source and the target (src/teleport/src/source.rs,    *)
(* target.rs), which Source and Target leave to chance: the poll interval, *)
(* heartbeats, the fallback session-info frame, the reconnect timeout, the *)
(* receive timeout, the stale timeout and the rate of requests.            *)
(*                                                                         *)
(* A timer is the time elapsed since it was restarted, which only Tick     *)
(* advances, and no further than to the interval it is compared with.      *)
(* Time does not pass while somebody has something to do: the passes of    *)
(* the loops, and the way of a datagram, take less than a unit of time.    *)
(***************************************************************************)
EXTENDS Integers

CONSTANTS
    POLL_INTERVAL,            \* wait_for_data(POLL_INTERVAL_MS)
    HEARTBEAT_INTERVAL,
    FULL_FRAME_INTERVAL,
    reconnect_timeout,        \* --reconnect-timeout
    RETRY_DELAY,              \* try_open() waits before it is called again
    stale_timeout,            \* --stale-timeout
    RECV_TIMEOUT,             \* the socket's read timeout
    RESYNC_REQUEST_INTERVAL,
    Faults                    \* what may go wrong

Intervals ==
    {POLL_INTERVAL, HEARTBEAT_INTERVAL, FULL_FRAME_INTERVAL, reconnect_timeout, RETRY_DELAY,
     stale_timeout, RECV_TIMEOUT, RESYNC_REQUEST_INTERVAL}

ASSUME IntervalsAssumption == Intervals \subseteq Nat \ {0}

VARIABLES
    simulator,           \* external: iRacing runs
    other,               \* external: another program has the section open
    phase,               \* of the source: before, in and after try_open()
    reconnecting,        \* it was connected before
    got_data,
    pending_resync,
    waited,              \* in wait_for_data(), or before the next try_open()
    last_data,
    last_heartbeat,
    last_full_frame,
    wire,                \* a datagram on its way to the target
    request,             \* a request in the source's socket
    map,                 \* the target's map: none, made, or with session info
    blocked,             \* in recv_from()
    last_update,
    last_resync_request,
    gone,                \* history: the time nobody but the source has the section
    serving,             \* history: the time the source is connected, nothing is
                         \* lost, and no signal is skipped
    starved              \* history: the time the map is without session info,
                         \* and none was lost

simVars == <<simulator, other, gone>>
sourceVars == <<phase, reconnecting, got_data, pending_resync, waited,
                last_data, last_heartbeat, last_full_frame>>
targetVars == <<map, blocked, last_update, last_resync_request>>
vars == <<simVars, sourceVars, targetVars, wire, request, serving, starved>>

Nothing == "nothing"

\* No map outlives the simulator for longer.
CloseBound == reconnect_timeout + POLL_INTERVAL + stale_timeout + RECV_TIMEOUT

\* A connected source is not silent for longer.
SilenceBound == HEARTBEAT_INTERVAL + POLL_INTERVAL

\* A target that can be heard is not without session info for longer: requests
\* are sent when something arrives, and taken at the end of a pass.
ResyncBound == RESYNC_REQUEST_INTERVAL + SilenceBound + POLL_INTERVAL

\* Timers are not read beyond these.
ServingCap == SilenceBound + ResyncBound
StarvedCap == FULL_FRAME_INTERVAL + ResyncBound

\* The named section of shared memory exists while anybody has it open.
Section == simulator \/ other \/ phase = "open"

-----------------------------------------------------------------------------
(* Time *)

Later(t, cap) == IF t < cap THEN t + 1 ELSE t

Tick ==
    /\ wire = Nothing
    /\ phase = "open" => waited < POLL_INTERVAL
    /\ phase = "retrying" => waited < RETRY_DELAY
    /\ phase # "opening"
    /\ blocked < RECV_TIMEOUT
    /\ waited' = waited + 1
    /\ blocked' = blocked + 1
    /\ last_data' = Later(last_data, reconnect_timeout)
    /\ last_heartbeat' = Later(last_heartbeat, HEARTBEAT_INTERVAL)
    /\ last_full_frame' = Later(last_full_frame, FULL_FRAME_INTERVAL)
    /\ last_update' = Later(last_update, stale_timeout)
    /\ last_resync_request' = Later(last_resync_request, RESYNC_REQUEST_INTERVAL)
    /\ gone' = IF simulator \/ other THEN 0 ELSE Later(gone, CloseBound + 1)
    /\ serving' = IF phase = "open" THEN Later(serving, ServingCap) ELSE 0
    /\ starved' = IF map = "made" THEN Later(starved, StarvedCap) ELSE 0
    /\ UNCHANGED <<simulator, other, phase, reconnecting, got_data, pending_resync, wire,
                   request, map>>

-----------------------------------------------------------------------------
(* The simulator and other programs (external) *)

SimStart ==
    /\ ~ simulator
    /\ simulator' = TRUE
    /\ gone' = 0
    /\ UNCHANGED <<other, sourceVars, targetVars, wire, request, serving, starved>>

SimStop ==
    /\ simulator
    /\ simulator' = FALSE
    /\ UNCHANGED <<other, gone, sourceVars, targetVars, wire, request, serving, starved>>

\* Any program that reads telemetry keeps the section open while it runs.
OtherOpens ==
    /\ "other" \in Faults
    /\ ~ other /\ Section
    /\ other' = TRUE
    /\ gone' = 0
    /\ UNCHANGED <<simulator, sourceVars, targetVars, wire, request, serving, starved>>

OtherCloses ==
    /\ other
    /\ other' = FALSE
    /\ UNCHANGED <<simulator, gone, sourceVars, targetVars, wire, request, serving, starved>>

-----------------------------------------------------------------------------
(* The source *)

\* The datagrams of a message arrive, or not all of them.
Send(message) ==
    /\ wire = Nothing
    /\ \/ wire' = message /\ UNCHANGED <<serving, starved>>
       \/ /\ "lose" \in Faults
          /\ wire' \in IF message = "heartbeat" THEN {Nothing} ELSE {Nothing, "fragment"}
          /\ serving' = 0
          /\ starved' = IF message = "full" THEN 0 ELSE starved

Poll(pending) ==
    /\ pending_resync' = (pending \/ request)
    /\ request' = FALSE

\* try_open()
SrcOpen ==
    /\ phase = "opening"
    /\ Section
    /\ phase' = "open"
    /\ waited' = 0
    /\ last_data' = 0
    /\ last_heartbeat' = IF reconnecting THEN last_heartbeat ELSE 0
    /\ last_full_frame' = IF reconnecting THEN last_full_frame ELSE 0
    /\ UNCHANGED <<simVars, reconnecting, got_data, pending_resync, targetVars, wire, request,
                   serving, starved>>

SrcUnavailable ==
    /\ phase = "opening"
    /\ ~ Section
    /\ phase' = "retrying"
    /\ waited' = 0
    /\ UNCHANGED <<simVars, reconnecting, got_data, pending_resync, last_data, last_heartbeat,
                   last_full_frame, targetVars, wire, request, serving, starved>>

SrcRetry ==
    /\ phase = "retrying"
    /\ waited = RETRY_DELAY
    /\ phase' = "opening"
    /\ UNCHANGED <<simVars, reconnecting, got_data, pending_resync, waited, last_data,
                   last_heartbeat, last_full_frame, targetVars, wire, request, serving, starved>>

\* Mutant: no heartbeats before the first frame of a connection.
BeatOnlyWithData ==
    IF last_heartbeat >= HEARTBEAT_INTERVAL /\ got_data
    THEN Send("heartbeat") /\ last_heartbeat' = 0
    ELSE UNCHANGED <<wire, serving, starved, last_heartbeat>>

\* A heartbeat when one is due.
Beat ==
    IF last_heartbeat >= HEARTBEAT_INTERVAL
    THEN Send("heartbeat") /\ last_heartbeat' = 0
    ELSE UNCHANGED <<wire, serving, starved, last_heartbeat>>

\* Mutant: the section is tried while the source itself has it open.
GiveUpKeepsHandle ==
    IF last_data >= reconnect_timeout
    THEN /\ reconnecting' = TRUE
         /\ got_data' = FALSE
         /\ last_full_frame' = FULL_FRAME_INTERVAL
         /\ UNCHANGED phase
    ELSE UNCHANGED <<phase, reconnecting, got_data, last_full_frame>>

\* Mutant: the interval is taken off once more at each reconnect.
GiveUpAddsUp ==
    IF last_data >= reconnect_timeout
    THEN /\ phase' = "opening"
         /\ reconnecting' = TRUE
         /\ got_data' = FALSE
         /\ last_full_frame' = last_full_frame + FULL_FRAME_INTERVAL
    ELSE UNCHANGED <<phase, reconnecting, got_data, last_full_frame>>

\* The simulator is given up: the section is closed before it is tried again.
GiveUp ==
    IF last_data >= reconnect_timeout
    THEN /\ phase' = "opening"
         /\ reconnecting' = TRUE
         /\ got_data' = FALSE
         /\ last_full_frame' = FULL_FRAME_INTERVAL
    ELSE UNCHANGED <<phase, reconnecting, got_data, last_full_frame>>

\* wait_for_data() timed out.
SrcIdle ==
    /\ phase = "open"
    /\ waited = POLL_INTERVAL
    /\ waited' = 0
    /\ Poll(pending_resync)
    /\ Beat
    /\ GiveUp
    /\ UNCHANGED <<simVars, last_data, targetVars>>

\* wait_for_data() returned TRUE: the simulator signalled.
Woken ==
    /\ phase = "open"
    /\ simulator
    /\ waited' = 0
    /\ last_data' = 0
    /\ got_data' = TRUE
    /\ UNCHANGED <<simVars, phase, reconnecting, targetVars>>

\* Mutant: the fallback timer is not looked at.
FullWithoutTimer == pending_resync \/ ~ got_data

\* Mutant: a request is not looked at.
FullWithoutRequest == last_full_frame >= FULL_FRAME_INTERVAL \/ ~ got_data

FullDue == last_full_frame >= FULL_FRAME_INTERVAL \/ pending_resync \/ ~ got_data

\* A session-info frame; without FullDue, because the session changed.
SrcFull ==
    /\ Woken
    /\ last_full_frame' = 0
    /\ Send("full")
    /\ last_heartbeat' = 0
    /\ Poll(FALSE)

SrcPartial ==
    /\ Woken
    /\ ~ FullDue
    /\ Send("partial")
    /\ last_heartbeat' = 0
    /\ Poll(pending_resync)
    /\ UNCHANGED last_full_frame

\* A duplicate tick or a torn read: no frame, heartbeat or poll.
SrcSkip ==
    /\ Woken
    /\ "skip" \in Faults
    /\ ~ FullDue
    /\ serving' = 0
    /\ UNCHANGED <<pending_resync, last_heartbeat, last_full_frame, wire, request, starved>>

\* The source stops, and a new process with a new socket starts.
SrcRestart ==
    /\ "source_restart" \in Faults
    /\ wire = Nothing
    /\ phase' = "opening"
    /\ reconnecting' = FALSE
    /\ got_data' = FALSE
    /\ pending_resync' = FALSE
    /\ request' = FALSE
    /\ serving' = 0
    /\ UNCHANGED <<simVars, waited, last_data, last_heartbeat, last_full_frame, targetVars, wire,
                   starved>>

-----------------------------------------------------------------------------
(* The target *)

Arrives(message) ==
    /\ wire = message
    /\ wire' = Nothing
    /\ blocked' = 0
    /\ UNCHANGED <<simVars, sourceVars>>

\* The end of a pass that received something, without session info.
AskForFull ==
    IF last_resync_request >= RESYNC_REQUEST_INTERVAL
    THEN /\ last_resync_request' = 0
         /\ \/ request' = TRUE /\ UNCHANGED serving
            \/ "lose_request" \in Faults /\ UNCHANGED request /\ serving' = 0
    ELSE UNCHANGED <<last_resync_request, request, serving>>

AskUnlessLive ==
    IF map = "live" THEN UNCHANGED <<last_resync_request, request, serving>> ELSE AskForFull

TgtHeartbeat ==
    /\ Arrives("heartbeat")
    /\ last_update' = 0
    /\ AskUnlessLive
    /\ UNCHANGED <<map, starved>>

\* Datagrams of a message that is not completed restart no timer.
TgtFragment ==
    /\ Arrives("fragment")
    /\ AskUnlessLive
    /\ UNCHANGED <<map, last_update, starved>>

TgtFull ==
    /\ Arrives("full")
    /\ map' = "live"
    /\ last_update' = 0
    /\ starved' = 0
    /\ UNCHANGED <<last_resync_request, request, serving>>

TgtPartial ==
    /\ Arrives("partial")
    /\ map = "live"
    /\ last_update' = 0
    /\ UNCHANGED <<map, last_resync_request, request, serving, starved>>

\* A partial frame before session info makes the map, and restarts no timer.
TgtEarlyPartial ==
    /\ Arrives("partial")
    /\ map # "live"
    /\ map' = "made"
    /\ AskForFull
    /\ UNCHANGED <<last_update, starved>>

TimedOut ==
    /\ blocked = RECV_TIMEOUT
    /\ blocked' = 0
    /\ UNCHANGED <<simVars, sourceVars, last_resync_request, last_update, wire, request, serving>>

TgtTimeout ==
    /\ TimedOut
    /\ map = "none" \/ last_update < stale_timeout
    /\ UNCHANGED <<map, starved>>

TgtStale ==
    /\ TimedOut
    /\ map # "none" /\ last_update >= stale_timeout
    /\ map' = "none"
    /\ starved' = 0

TgtRestart ==
    /\ "target_restart" \in Faults
    /\ map' = "none"
    /\ blocked' = 0
    /\ last_update' = 0
    /\ last_resync_request' = RESYNC_REQUEST_INTERVAL
    /\ starved' = 0
    /\ UNCHANGED <<simVars, sourceVars, wire, request, serving>>

-----------------------------------------------------------------------------

Init ==
    /\ simulator \in BOOLEAN
    /\ other = FALSE
    /\ phase = "opening"
    /\ reconnecting = FALSE
    /\ got_data = FALSE
    /\ pending_resync = FALSE
    /\ waited = 0
    /\ last_data = 0
    /\ last_heartbeat = 0
    /\ last_full_frame = 0
    /\ wire = Nothing
    /\ request = FALSE
    /\ map = "none"
    /\ blocked = 0
    /\ last_update = 0
    /\ last_resync_request = RESYNC_REQUEST_INTERVAL
    /\ gone = 0
    /\ serving = 0
    /\ starved = 0

EnvNext == SimStart \/ SimStop \/ OtherOpens \/ OtherCloses

SourceNext ==
    \/ SrcOpen \/ SrcUnavailable \/ SrcRetry \/ SrcIdle \/ SrcFull \/ SrcPartial \/ SrcSkip
    \/ SrcRestart

TargetNext ==
    \/ TgtHeartbeat \/ TgtFragment \/ TgtFull \/ TgtPartial \/ TgtEarlyPartial
    \/ TgtTimeout \/ TgtStale \/ TgtRestart

Next == Tick \/ EnvNext \/ SourceNext \/ TargetNext

Spec == Init /\ [][Next]_vars

-----------------------------------------------------------------------------
(* Properties *)

FlagsOK ==
    /\ simulator \in BOOLEAN /\ other \in BOOLEAN
    /\ reconnecting \in BOOLEAN /\ got_data \in BOOLEAN /\ pending_resync \in BOOLEAN
    /\ request \in BOOLEAN

SourceTimersOK ==
    /\ phase \in {"opening", "retrying", "open"}
    /\ waited \in Nat
    /\ phase = "open" => waited <= POLL_INTERVAL
    /\ phase = "retrying" => waited <= RETRY_DELAY
    /\ last_data \in 0 .. reconnect_timeout
    /\ last_heartbeat \in 0 .. HEARTBEAT_INTERVAL
    /\ last_full_frame \in 0 .. FULL_FRAME_INTERVAL
    /\ wire \in {Nothing, "heartbeat", "fragment", "full", "partial"}

TargetTimersOK ==
    /\ map \in {"none", "made", "live"}
    /\ blocked \in 0 .. RECV_TIMEOUT
    /\ last_update \in 0 .. stale_timeout
    /\ last_resync_request \in 0 .. RESYNC_REQUEST_INTERVAL

HistoryOK ==
    /\ gone \in 0 .. CloseBound + 1
    /\ serving \in 0 .. ServingCap
    /\ starved \in 0 .. StarvedCap

\* The types of the variables; no wait is longer than its interval.
TypeOK == FlagsOK /\ SourceTimersOK /\ TargetTimersOK /\ HistoryOK

\* A map with telemetry is not closed under a source that is connected,
\* through menus, loading screens and reconnects of any length: with nothing
\* lost and no signal skipped, something restarts the stale timer in time
\* (source.rs:212-219, target.rs:404; README.md:459).
StaysAlive == [][TgtStale /\ map = "live" => serving <= SilenceBound]_vars

\* A target is not closed while the simulator signals to a source that has a
\* heartbeat to send, not even in a loading screen, where the tick stands still
\* (README.md:459; source.rs:385-391).
HeartbeatsThroughMenus ==
    [][TgtStale /\ map = "live" =>
         ~ (simulator /\ phase = "open" /\ got_data /\ last_heartbeat >= HEARTBEAT_INTERVAL)]_vars

\* When the simulator is gone and nobody else has its section, the target's
\* map is closed, whenever either side restarts: the source gives its own
\* handle up, finds no section, and falls silent (source.rs:221-257).
ClosesInTime == map # "none" => gone <= CloseBound

\* The fallback reaches a target whose requests are all lost: partial frames
\* arrive without session info for less than an interval, unless session info
\* was lost (source.rs:163-165, 285).
FallbackInTime == [][TgtEarlyPartial => starved < FULL_FRAME_INTERVAL]_vars

\* When neither requests nor frames are lost and no signal is skipped, partial
\* frames arrive without session info for no longer than a request takes to be
\* due, to be sent at the end of a pass that received something, and to be
\* answered (target.rs:382-395, source.rs:455-461).
ResyncInTime == [][TgtEarlyPartial => starved <= ResyncBound \/ serving <= ResyncBound]_vars
=============================================================================
