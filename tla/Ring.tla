-------------------------------- MODULE Ring --------------------------------
(***************************************************************************)
(* The simulator's memory map and the copy the source takes of it.  The    *)
(* map is live: the simulator writes to it while the source reads, so an   *)
(* iteration of the source's loop is several steps here.                   *)
(*                                                                         *)
(* A varBuf is two halves, each named by the tick it belongs to.           *)
(***************************************************************************)
EXTENDS Integers

CONSTANTS
    NumBuf,    \* slots of the ring, at most 4
    MaxTick,   \* bound: ticks in a behaviour
    Sessions   \* values of sessionInfoUpdate

ASSUME RingAssumption ==
    NumBuf \in 1 .. 4 /\ MaxTick \in Nat /\ Sessions \subseteq Nat /\ 0 \in Sessions

VARIABLES
    ring,                 \* external: each slot's tickCount and varBuf
    update,               \* external: sessionInfoUpdate
    session_info,         \* external: the session of the YAML
    signal,               \* external: the data-ready event is set
    copy,                 \* the source's locals, and where it is with them
    last_session_update,
    last_tick,
    sent                  \* the frame on its way to the target

simVars == <<ring, update, session_info, signal>>
copyVars == <<copy, last_session_update, last_tick>>

Slots == 0 .. NumBuf - 1
Tick == 0 .. MaxTick
Row == Tick \X Tick
NoSession == -1
NoFrame == [kind |-> "none"]

Whole(t) == <<t, t>>

\* A slot never written.
Zeros == Whole(0)

\* The slot with the highest tickCount, the first of them.
Active(ticks) ==
    CHOOSE s \in Slots :
        \A r \in Slots : ticks[r] < ticks[s] \/ (ticks[r] = ticks[s] /\ s <= r)

Ticks == [s \in Slots |-> ring[s].tick]

\* The simulator has begun to overwrite the slot.
Overwriting(s) == ring[s].row # Whole(ring[s].tick)

-----------------------------------------------------------------------------
(* The simulator (external): a slot's varBuf first, then its tickCount, then *)
(* the event; a YAML first, then its sessionInfoUpdate.  Ticks only grow:    *)
(* left out is a session whose ticks start again (source.rs:350).            *)

SimWrite ==
    LET t == Ticks[Active(Ticks)] + 1
    IN  /\ t <= MaxTick
        /\ \A s \in Slots : ~ Overwriting(s)
        /\ ring' = [ring EXCEPT ![t % NumBuf].row = Whole(t)]
        /\ UNCHANGED <<update, session_info, signal, copyVars, sent>>

SimPublish ==
    \E s \in Slots :
        /\ Overwriting(s)
        /\ ring' = [ring EXCEPT ![s].tick = ring[s].row[1]]
        /\ signal' = TRUE
        /\ UNCHANGED <<update, session_info, copyVars, sent>>

\* Bound: each session once.
SimYaml ==
    /\ session_info = update
    /\ update + 1 \in Sessions
    /\ session_info' = update + 1
    /\ UNCHANGED <<ring, update, signal, copyVars, sent>>

SimSession ==
    /\ session_info # update
    /\ update' = session_info
    /\ UNCHANGED <<ring, session_info, signal, copyVars, sent>>

-----------------------------------------------------------------------------
(* The source *)

Waiting == [at |-> "wait"]
Prefix == [at |-> "prefix"]

\* A session-info frame: the map's header without its status, and the YAML.
FullFrame(c) == [kind |-> "full", ticks |-> c.ticks, update |-> c.update, yaml |-> session_info]

\* A partial frame: the map's header and a slot's varBuf.
PartialFrame(c) ==
    [kind |-> "partial", slot |-> c.slot, row |-> c.row, ticks |-> c.ticks, update |-> c.update]

\* Mutant: sessionInfoUpdate is not looked at.
NeedsFullWhenForced(force_full) == force_full

NeedsFull(force_full) == update # last_session_update \/ force_full

\* wait_for_data(), then the choice between the two frames.  Whether a full
\* frame is forced (interval, request, new connection) is an arbitrary choice.
SrcWake ==
    /\ copy = Waiting
    /\ signal
    /\ signal' = FALSE
    /\ \E force_full \in BOOLEAN :
          IF NeedsFull(force_full)
          THEN copy' = Prefix /\ last_session_update' = update
          ELSE /\ copy' = [at |-> "header", slot |-> Active(Ticks), tick |-> Ticks[Active(Ticks)],
                           ticks |-> Ticks, update |-> update, row |-> Zeros]
               /\ UNCHANGED last_session_update
    /\ UNCHANGED <<ring, update, session_info, last_tick, sent>>

\* The prefix is copied from the live map and not checked afterwards: the
\* header, then the YAML.
SrcPrefixHeader ==
    /\ copy = Prefix
    /\ copy' = [at |-> "yaml", ticks |-> Ticks, update |-> update]
    /\ UNCHANGED <<simVars, last_session_update, last_tick, sent>>

\* Bound: one frame on its way.
SrcPrefixYaml ==
    /\ copy.at = "yaml"
    /\ sent = NoFrame
    /\ sent' = FullFrame(copy)
    /\ last_tick' = -1
    /\ copy' = Waiting
    /\ UNCHANGED <<simVars, last_session_update>>

SrcHeader ==
    /\ copy.at = "header"
    /\ copy' = [copy EXCEPT !.at = "first", !.ticks = Ticks, !.update = update]
    /\ UNCHANGED <<simVars, last_session_update, last_tick, sent>>

SrcFirstHalf ==
    /\ copy.at = "first"
    /\ copy' = [copy EXCEPT !.at = "second", !.row[1] = ring[copy.slot].row[1]]
    /\ UNCHANGED <<simVars, last_session_update, last_tick, sent>>

SrcSecondHalf ==
    /\ copy.at = "second"
    /\ copy' = [copy EXCEPT !.at = "check", !.row[2] = ring[copy.slot].row[2]]
    /\ UNCHANGED <<simVars, last_session_update, last_tick, sent>>

\* Mutant: the tick is compared with the header's copy of it.
TornByHeader == copy.ticks[copy.slot] # copy.tick

\* The slot's tickCount changed since it was chosen.
Torn == ring[copy.slot].tick # copy.tick

SrcDiscard ==
    /\ copy.at = "check"
    /\ Torn \/ copy.tick = last_tick
    /\ copy' = Waiting
    /\ UNCHANGED <<simVars, last_session_update, last_tick, sent>>

SrcSend ==
    /\ copy.at = "check"
    /\ ~ Torn
    /\ copy.tick # last_tick
    /\ sent = NoFrame
    /\ sent' = PartialFrame(copy)
    /\ last_tick' = copy.tick
    /\ copy' = Waiting
    /\ UNCHANGED <<simVars, last_session_update>>

-----------------------------------------------------------------------------

RingInit ==
    /\ ring = [s \in Slots |-> [tick |-> 0, row |-> Zeros]]
    /\ update = 0
    /\ session_info = 0
    /\ signal = FALSE
    /\ copy = Waiting
    /\ last_session_update = NoSession
    /\ last_tick = -1
    /\ sent = NoFrame

SrcNext ==
    \/ SrcWake \/ SrcPrefixHeader \/ SrcPrefixYaml
    \/ SrcHeader \/ SrcFirstHalf \/ SrcSecondHalf \/ SrcDiscard \/ SrcSend

SimNext == SimWrite \/ SimPublish \/ SimYaml \/ SimSession

RingNext == SimNext \/ SrcNext

Frame ==
    {NoFrame}
    \cup [kind : {"full"}, ticks : [Slots -> Tick], update : Sessions, yaml : Sessions]
    \cup [kind : {"partial"}, slot : Slots, row : Row, ticks : [Slots -> Tick], update : Sessions]

Copy ==
    {Waiting, Prefix}
    \cup [at : {"yaml"}, ticks : [Slots -> Tick], update : Sessions]
    \cup [at : {"header", "first", "second", "check"}, slot : Slots, tick : Tick,
          ticks : [Slots -> Tick], update : Sessions, row : Row]

RingTypeOK ==
    /\ ring \in [Slots -> [tick : Tick, row : Row]]
    /\ update \in Sessions
    /\ session_info \in Sessions
    /\ signal \in BOOLEAN
    /\ copy \in Copy
    /\ last_session_update \in Sessions \cup {NoSession}
    /\ last_tick \in Tick \cup {-1}
    /\ sent \in Frame
=============================================================================
