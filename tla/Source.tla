------------------------------- MODULE Source -------------------------------
(***************************************************************************)
(* The source process (src/teleport/src/source.rs) next to the simulator   *)
(* it reads.  One action is one iteration of the loop of run().            *)
(*                                                                         *)
(* Time is abstracted: full_due says that FULL_FRAME_INTERVAL has elapsed  *)
(* since the timer was restarted, which the environment makes true at any  *)
(* moment; whether HEARTBEAT_INTERVAL or the reconnect timeout has elapsed *)
(* is an arbitrary choice.  So the model covers every choice of intervals. *)
(***************************************************************************)
EXTENDS Wire

CONSTANTS
    Ticks,              \* values of a varBuf's tickCount, cyclic from 0
    Payload(_, _),      \* irsdk header || varBuf at a tick of a session
    no_delta,           \* --no-delta
    keyframe_interval,  \* --keyframe-interval
    CounterMod,         \* width of tick_counter: 2^32 in the code
    LeadFragments,      \* 1 when a session-info frame needs several datagrams
    Faults,             \* what may go wrong
    MaxFaults           \* bound: how often

ASSUME SourceAssumption ==
    /\ Ticks \subseteq Nat /\ 0 \in Ticks
    /\ \A t \in Ticks, s \in Sessions : Payload(t, s) \in SUBSET Bits
    /\ 0 \in Sessions
    /\ no_delta \in BOOLEAN
    /\ keyframe_interval \in Nat
    /\ CounterMod \in Nat \ {0}
    /\ LeadFragments \in 0 .. 1
    /\ MaxFaults \in Nat

VARIABLES
    sim_up,                 \* external: iRacing's shared memory exists
    tick,                   \* external: tickCount of the newest varBuf
    session,                \* external: sessionInfoUpdate
    signal,                 \* external: the data-ready event is set
    phase,                  \* where run() is: which loop, or returned
    got_data,
    last_session_update,
    full_due,               \* last_full_frame.elapsed() >= FULL_FRAME_INTERVAL
    pending_resync,
    source_prev,            \* prev_varbuf
    target_supports_delta,
    tick_counter,
    last_tick,
    unsent,                 \* history: the last encoded partial never left
    deltas,                 \* history: delta frames since the last keyframe, up to
                            \* keyframe_interval
    faults                  \* history: faults so far

simVars == <<sim_up, tick, session, signal>>
sendVars == <<last_session_update, full_due, pending_resync, source_prev,
              target_supports_delta, tick_counter, last_tick, unsent, deltas>>
loopVars == <<phase, got_data>>
sourceVars == <<sendVars, loopVars>>

NoTick == -1

Fault(f) == f \in Faults /\ faults < MaxFaults /\ faults' = faults + 1

-----------------------------------------------------------------------------
(* The simulator (external) *)

NextTick(t) == IF t + 1 \in Ticks THEN t + 1 ELSE 0
NextSession(s) == IF s + 1 \in Sessions THEN s + 1 ELSE 0

\* A new varBuf is published and the event is set.  Bound: the simulator does
\* not lap the source all the way back to the tick it sent last.
SimTick ==
    /\ sim_up
    /\ NextTick(tick) # last_tick
    /\ tick' = NextTick(tick)
    /\ signal' = TRUE
    /\ UNCHANGED <<sim_up, session, sourceVars, faults, wire, back>>

\* The event is set without a new tick (loading screens).
SimSignal ==
    /\ sim_up
    /\ "repeat" \in Faults
    /\ ~ signal
    /\ signal' = TRUE
    /\ UNCHANGED <<sim_up, tick, session, sourceVars, faults, wire, back>>

\* Session, track or car changes.  Bound: once between two frames.
SimSession ==
    /\ sim_up
    /\ last_session_update \in {session, NoSession}
    /\ session' = NextSession(session)
    /\ UNCHANGED <<sim_up, tick, signal, sourceVars, faults, wire, back>>

\* The event outlives the simulator: an unconsumed signal wakes the source yet.
SimStop ==
    /\ sim_up
    /\ Fault("simstop")
    /\ sim_up' = FALSE
    /\ UNCHANGED <<tick, session, signal, sourceVars, wire, back>>

SimStart ==
    /\ ~ sim_up
    /\ sim_up' = TRUE
    /\ UNCHANGED <<tick, session, signal, sourceVars, faults, wire, back>>

-----------------------------------------------------------------------------
(* Steps shared by the iterations *)

\* recv_from on the non-blocking socket: at most one request is taken.
Poll(pending, supports) ==
    IF back = <<>>
    THEN /\ pending_resync' = pending
         /\ target_supports_delta' = supports
         /\ back' = back
    ELSE /\ pending_resync' = TRUE
         /\ target_supports_delta' = IF no_delta THEN supports ELSE Head(back) = "delta"
         /\ back' = Tail(back)

\* send_one() of messages ms; a send that would block drops them all.
Transmit(ms, gone) ==
    /\ Len(wire) + Len(ms) <= MaxWire
    /\ \/ /\ gone = FALSE
          /\ wire' = wire \o ms
          /\ faults' = faults
       \/ /\ gone = TRUE
          /\ Fault("sendfail")
          /\ wire' = wire

\* wait_for_data() returned TRUE: the event is consumed.
Woken ==
    /\ phase = "running"
    /\ signal
    /\ got_data' = TRUE
    /\ UNCHANGED <<phase, sim_up, session>>

\* Mutant: neither the fallback timer nor a request counts.
FullOnConnect == ~ got_data

\* A new connection starts with a session-info frame, so does an interval, and
\* a request is answered with one.
FullNow == full_due \/ ~ got_data \/ pending_resync

\* Mutant: a change of session is not noticed.
FullOnlyWhenDue == FullNow

NeedsFull == session # last_session_update \/ FullNow

-----------------------------------------------------------------------------
(* Iterations of run() *)

\* try_open() found the shared memory, before the first or a later connection.
SrcOpen ==
    /\ phase \in {"opening", "reopening"}
    /\ sim_up
    /\ phase' = "running"
    /\ full_due' = IF phase = "opening" THEN FALSE ELSE full_due
    /\ UNCHANGED <<simVars, got_data, last_session_update, pending_resync, source_prev,
                   target_supports_delta, tick_counter, last_tick, unsent, deltas,
                   faults, wire, back>>

\* No data within the poll interval: poll the socket, send a heartbeat when
\* one is due, give the connection up when the simulator has been silent.
\* Bound: one that is up is silent for that long only in its menus.
SrcIdle ==
    /\ phase = "running"
    /\ ~ signal
    /\ Poll(pending_resync, target_supports_delta)
    /\ \E heartbeat \in BOOLEAN :
          IF heartbeat
          THEN Len(wire) < MaxWire /\ wire' = Append(wire, Heartbeat)
          ELSE wire' = wire
    /\ \/ /\ ~ sim_up \/ "menus" \in Faults
          /\ phase' = "reopening"
          /\ got_data' = FALSE
          /\ last_session_update' = NoSession
          /\ full_due' = TRUE
          /\ tick_counter' = 0
          /\ last_tick' = NoTick
       \/ UNCHANGED <<phase, got_data, last_session_update, full_due, tick_counter, last_tick>>
    /\ UNCHANGED <<simVars, source_prev, unsent, deltas, faults>>

\* A session-info frame: on a new session, on request, as a fallback, or
\* because active_var_buf() cannot read the header.
\* prev_varbuf stays as it is; tick_counter makes the next partial a keyframe.
SrcSendFull ==
    /\ Woken
    /\ NeedsFull \/ "no_var_buf" \in Faults
    /\ last_session_update' = session
    /\ full_due' = FALSE
    /\ tick_counter' = 0
    /\ last_tick' = NoTick
    /\ \E gone \in BOOLEAN :
          Transmit(IF LeadFragments = 1 THEN <<LeadFragment, SessionInfo(session)>>
                                        ELSE <<SessionInfo(session)>>, gone)
    /\ Poll(FALSE, target_supports_delta)
    /\ signal' = FALSE
    /\ UNCHANGED <<tick, source_prev, unsent, deltas>>

\* Mutant: the frame after a session-info frame may be a delta, too.
DeltaAlways == ~ no_delta /\ target_supports_delta /\ keyframe_interval > 0

\* Mutant: one delta frame too many between two keyframes.
DeltaOnceMore ==
    /\ ~ no_delta
    /\ target_supports_delta
    /\ keyframe_interval > 0
    /\ tick_counter % (keyframe_interval + 1) # 0

UseDelta ==
    /\ ~ no_delta
    /\ target_supports_delta
    /\ keyframe_interval > 0
    /\ tick_counter % keyframe_interval # 0

\* Mutant: + 1.
CountTickWithoutWrap == tick_counter + 1

CountTick == (tick_counter + 1) % CounterMod

\* A partial frame, whole (a keyframe) or as the XOR with the previous one.
\* The encoder's state moves on before the frame is sent, and stays moved when
\* the send fails.
SrcSendPartial ==
    LET cur == Payload(tick, session)
    IN  /\ Woken
        /\ ~ NeedsFull
        /\ tick # last_tick
        /\ last_tick' = tick
        /\ source_prev' = cur
        /\ tick_counter' = CountTick
        /\ \E gone \in BOOLEAN :
              /\ Transmit(<<Partial(UseDelta, cur, source_prev, session, unsent)>>, gone)
              /\ unsent' = gone
        /\ deltas' = IF ~ UseDelta THEN 0
                     ELSE IF deltas < keyframe_interval THEN deltas + 1 ELSE deltas
        /\ Poll(pending_resync, target_supports_delta)
        /\ signal' = FALSE
        /\ UNCHANGED <<tick, last_session_update, full_due>>

\* `continue` before the poll and the restart of the heartbeat timer.
Skip ==
    /\ UNCHANGED <<last_session_update, full_due, pending_resync, source_prev, target_supports_delta,
                   tick_counter, last_tick, unsent, deltas, wire, back>>

\* The simulator overwrote the slot while it was copied.
SrcTorn ==
    /\ Woken
    /\ ~ NeedsFull
    /\ NextTick(tick) # last_tick
    /\ Fault("torn")
    /\ tick' = NextTick(tick)
    /\ signal' = TRUE
    /\ Skip

\* The slot's tickCount did not advance since the last frame.
SrcDuplicateTick ==
    /\ Woken
    /\ ~ NeedsFull
    /\ tick = last_tick
    /\ signal' = FALSE
    /\ UNCHANGED <<tick, faults>>
    /\ Skip

\* The shutdown signal, in the main loop or in try_open(), and a new process.
SrcRestart ==
    /\ Fault("source_restart")
    /\ phase' = "opening"
    /\ got_data' = FALSE
    /\ last_session_update' = NoSession
    /\ full_due' = FALSE
    /\ pending_resync' = FALSE
    /\ source_prev' = Zeros
    /\ target_supports_delta' = FALSE
    /\ tick_counter' = 0
    /\ last_tick' = NoTick
    /\ unsent' = FALSE
    /\ deltas' = 0
    /\ back' = <<>>
    /\ signal' = (signal /\ sim_up)
    /\ UNCHANGED <<sim_up, tick, session, wire>>

\* FULL_FRAME_INTERVAL elapses.  Bound: not before a partial frame was tried
\* since the last session-info frame (ticks come every 17 ms, the interval is
\* 10 s).
FullDue ==
    /\ phase = "running" /\ ~ full_due
    /\ last_tick # NoTick
    /\ full_due' = TRUE
    /\ UNCHANGED <<simVars, loopVars, last_session_update, pending_resync, source_prev,
                   target_supports_delta, tick_counter, last_tick, unsent, deltas,
                   faults, wire, back>>

-----------------------------------------------------------------------------

SourceInit ==
    /\ sim_up \in BOOLEAN
    /\ tick = 0 /\ session = 0 /\ signal = FALSE
    /\ phase = "opening"
    /\ got_data = FALSE
    /\ last_session_update = NoSession
    /\ full_due = FALSE
    /\ pending_resync = FALSE
    /\ source_prev = Zeros
    /\ target_supports_delta = FALSE
    /\ tick_counter = 0
    /\ last_tick = NoTick
    /\ unsent = FALSE
    /\ deltas = 0
    /\ faults = 0

SimNext == SimTick \/ SimSignal \/ SimSession \/ SimStop \/ SimStart

SourceLoop ==
    \/ SrcOpen \/ SrcIdle \/ SrcSendFull \/ SrcSendPartial \/ SrcTorn \/ SrcDuplicateTick

SourceNext ==
    \/ SimNext
    \/ SourceLoop
    \/ SrcRestart
    \/ FullDue

SourceTypeOK ==
    /\ sim_up \in BOOLEAN /\ signal \in BOOLEAN
    /\ tick \in Ticks /\ session \in Sessions
    /\ phase \in {"opening", "running", "reopening"}
    /\ got_data \in BOOLEAN
    /\ last_session_update \in Sessions \cup {NoSession}
    /\ full_due \in BOOLEAN /\ pending_resync \in BOOLEAN
    /\ source_prev \in SUBSET Bits
    /\ target_supports_delta \in BOOLEAN
    /\ tick_counter \in 0 .. CounterMod - 1
    /\ last_tick \in Ticks \cup {NoTick}
    /\ unsent \in BOOLEAN
    /\ deltas \in 0 .. keyframe_interval
    /\ faults \in 0 .. MaxFaults
=============================================================================
