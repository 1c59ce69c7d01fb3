------------------------------ MODULE Teleport ------------------------------
(***************************************************************************)
(* The source, the target and the path between them.                       *)
(***************************************************************************)
EXTENDS Source, Target

vars == <<simVars, sourceVars, targetVars, faults, wire, back>>

-----------------------------------------------------------------------------
(* The path.  It keeps the order: MessageChannel is what Reassembly makes   *)
(* of it.                                                                   *)

\* A message none of whose later datagrams completes it: a session-info frame
\* is lost before or after its first datagrams arrived.
LoseMessage ==
    /\ wire # <<>>
    /\ Fault("lose")
    /\ wire' = IF Head(wire).kind = "fragment" THEN Tail(Tail(wire)) ELSE Tail(wire)
    /\ chain' = IF Head(wire).kind = "partial" THEN FALSE ELSE chain
    /\ UNCHANGED <<simVars, sourceVars, map, has_full_frame, target_prev, first_data_called,
                   fanalab_stub, resync_due, back>>

LoseRequest ==
    /\ back # <<>>
    /\ Fault("lose_request")
    /\ back' = Tail(back)
    /\ UNCHANGED <<simVars, sourceVars, targetVars, wire>>

\* Another target of the multicast group, which sends 1-byte requests.
OldTargetRequest ==
    /\ Len(back) < MaxBack
    /\ Fault("old_target")
    /\ back' = Append(back, "old")
    /\ UNCHANGED <<simVars, sourceVars, targetVars, wire>>

-----------------------------------------------------------------------------

Init == SourceInit /\ TargetInit /\ wire = <<>> /\ back = <<>>

Next ==
    \/ SourceNext /\ UNCHANGED targetVars
    \/ TargetNext /\ UNCHANGED <<simVars, sourceVars, faults>>
    \/ LoseMessage \/ LoseRequest \/ OldTargetRequest

Spec == Init /\ [][Next]_vars

\* Both loops are endless and block for at most an interval (source.rs:187,
\* target.rs:178); the intervals elapse; a simulator that is up publishes
\* ticks, and one that is down is started again.
Fairness ==
    /\ WF_vars(SourceLoop /\ UNCHANGED targetVars)
    /\ WF_vars(TargetReceives /\ UNCHANGED <<simVars, sourceVars, faults>>)
    /\ WF_vars(SimTick /\ UNCHANGED targetVars)
    /\ WF_vars(SimStart /\ UNCHANGED targetVars)
    /\ WF_vars(FullDue /\ UNCHANGED targetVars)
    /\ WF_vars(ResyncDue /\ UNCHANGED <<simVars, sourceVars, faults>>)

FairSpec == Spec /\ Fairness

-----------------------------------------------------------------------------
(* Properties *)

\* The types of the variables.
TypeOK == WireTypeOK /\ SourceTypeOK /\ TargetTypeOK

HasRow == map.made /\ map.session # NoSession

\* XOR-delta is exact: as long as no partial frame was lost, dropped or
\* discarded since the last keyframe, the target's varBuf is bit for bit the
\* one the source read - across session-info frames, reconnects, restarts of
\* either side, requests from other targets and wraps of the tick counter
\* (source.rs:345-411, target.rs:252-254, 290-318).
ChainExact == chain /\ HasRow => map.row = map.cur

\* No telemetry without its descriptors: varBuf data is in the map only below
\* a session-info frame, which is there exactly when the target believes so
\* (target.rs:151-152, 274).
RowNeedsSessionInfo ==
    /\ HasRow => map.yaml # NoSession
    /\ has_full_frame <=> map.made /\ map.yaml # NoSession

\* Keyframes bound divergence: no keyframe_interval frames in a row are deltas,
\* whatever resets and wraps the tick counter (source.rs:394-397).
KeyframeInTime == deltas = 0 \/ deltas < keyframe_interval

\* While nothing went wrong on the way, a frame is written under the YAML of
\* its own session: when the session changes, the session-info frame overtakes
\* nothing and is overtaken by nothing, across reconnects and signals without
\* a tick (source.rs:318-323).
WrittenUnderOwnSession ==
    [][TgtPartial /\ faults = 0 => map'.yaml = Head(wire).session]_vars

\* A target that keeps running gets a session-info frame, again and again
\* after its map went stale or it restarted, when requests arrive; when none
\* does, FallbackInTime of KeepAlive is the bound (target.rs:382-395,
\* source.rs:285).
SessionInfoArrives == []<>has_full_frame

\* Nothing asks for a session-info frame that was lost while an old one is
\* there, but the fallback timer sends another: the YAML of a session that
\* lasts is in the map in the end (source.rs:163-165, 285).
SessionShown ==
    \A s \in Sessions :
        (sim_up /\ session = s) ~> (session # s \/ (map.made /\ map.yaml = s))

\* Once nothing is lost any more and the session lasts, divergence ends for
\* good (README.md:101-102: a keyframe is sent to prevent divergence).
DivergenceEnds ==
    \A s \in Sessions : <>[](session = s) => <>[](HasRow => map.row = map.cur)

\* With the default options, delta encoding is in the end negotiated and
\* never given up, if requests arrive and the source runs on; not otherwise
\* (bin/source.rs:51-52).
DeltaNegotiated == <>[]target_supports_delta
=============================================================================
