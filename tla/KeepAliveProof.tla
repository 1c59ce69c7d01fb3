--------------------------- MODULE KeepAliveProof ---------------------------
(***************************************************************************)
(* Proofs about KeepAlive, for all intervals and all faults.               *)
(***************************************************************************)
EXTENDS KeepAlive, TLAPS

\* The intervals are positive.
LEMMA Positive ==
    /\ POLL_INTERVAL \in Nat \ {0} /\ HEARTBEAT_INTERVAL \in Nat \ {0}
    /\ FULL_FRAME_INTERVAL \in Nat \ {0} /\ reconnect_timeout \in Nat \ {0}
    /\ RETRY_DELAY \in Nat \ {0} /\ stale_timeout \in Nat \ {0}
    /\ RECV_TIMEOUT \in Nat \ {0} /\ RESYNC_REQUEST_INTERVAL \in Nat \ {0}
BY IntervalsAssumption DEF Intervals

\* The bounds are times.
LEMMA Bounds ==
    /\ CloseBound \in Nat /\ SilenceBound \in Nat /\ ResyncBound \in Nat
    /\ ServingCap \in Nat /\ StarvedCap \in Nat
BY Positive DEF CloseBound, SilenceBound, ResyncBound, ServingCap, StarvedCap

-----------------------------------------------------------------------------
(* Types *)

\* Every step keeps the flags Boolean.
LEMMA FlagsKept ==
    ASSUME FlagsOK, Next
    PROVE  FlagsOK'
<1> USE Positive, Bounds DEF FlagsOK, simVars, sourceVars, targetVars
<1>1. CASE Tick
    BY <1>1 DEF Tick, Later
<1>2. CASE SimStart
    BY <1>2 DEF SimStart
<1>3. CASE SimStop
    BY <1>3 DEF SimStop
<1>4. CASE OtherOpens
    BY <1>4 DEF OtherOpens
<1>5. CASE OtherCloses
    BY <1>5 DEF OtherCloses
<1>6. CASE SrcOpen
    BY <1>6 DEF SrcOpen
<1>7. CASE SrcUnavailable
    BY <1>7 DEF SrcUnavailable
<1>8. CASE SrcRetry
    BY <1>8 DEF SrcRetry
<1>9. CASE SrcIdle
    BY <1>9 DEF SrcIdle, Poll, Beat, Send, GiveUp
<1>10. CASE SrcFull
    BY <1>10 DEF SrcFull, Woken, Poll, Send
<1>11. CASE SrcPartial
    BY <1>11 DEF SrcPartial, Woken, Poll, Send
<1>12. CASE SrcSkip
    BY <1>12 DEF SrcSkip, Woken
<1>13. CASE SrcRestart
    BY <1>13 DEF SrcRestart
<1>14. CASE TgtHeartbeat
    BY <1>14 DEF TgtHeartbeat, Arrives, AskUnlessLive, AskForFull
<1>15. CASE TgtFragment
    BY <1>15 DEF TgtFragment, Arrives, AskUnlessLive, AskForFull
<1>16. CASE TgtFull
    BY <1>16 DEF TgtFull, Arrives
<1>17. CASE TgtPartial
    BY <1>17 DEF TgtPartial, Arrives
<1>18. CASE TgtEarlyPartial
    BY <1>18 DEF TgtEarlyPartial, Arrives, AskForFull
<1>19. CASE TgtTimeout
    BY <1>19 DEF TgtTimeout, TimedOut
<1>20. CASE TgtStale
    BY <1>20 DEF TgtStale, TimedOut
<1>21. CASE TgtRestart
    BY <1>21 DEF TgtRestart
<1> QED
    BY <1>1, <1>2, <1>3, <1>4, <1>5, <1>6, <1>7, <1>8, <1>9, <1>10, <1>11, <1>12,
       <1>13, <1>14, <1>15, <1>16, <1>17, <1>18, <1>19, <1>20, <1>21
    DEF Next, EnvNext, SourceNext, TargetNext

\* Every step keeps the source's timers and waits within their intervals.
LEMMA SourceTimersKept ==
    ASSUME SourceTimersOK, Next
    PROVE  SourceTimersOK'
<1> USE Positive, Bounds DEF SourceTimersOK, simVars, sourceVars, targetVars
<1>1. CASE Tick
    BY <1>1 DEF Tick, Later
<1>2. CASE SimStart
    BY <1>2 DEF SimStart
<1>3. CASE SimStop
    BY <1>3 DEF SimStop
<1>4. CASE OtherOpens
    BY <1>4 DEF OtherOpens
<1>5. CASE OtherCloses
    BY <1>5 DEF OtherCloses
<1>6. CASE SrcOpen
    BY <1>6 DEF SrcOpen
<1>7. CASE SrcUnavailable
    BY <1>7 DEF SrcUnavailable
<1>8. CASE SrcRetry
    BY <1>8 DEF SrcRetry
<1>9. CASE SrcIdle
    BY <1>9 DEF SrcIdle, Poll, Beat, Send, GiveUp
<1>10. CASE SrcFull
    BY <1>10 DEF SrcFull, Woken, Poll, Send
<1>11. CASE SrcPartial
    BY <1>11 DEF SrcPartial, Woken, Poll, Send
<1>12. CASE SrcSkip
    BY <1>12 DEF SrcSkip, Woken
<1>13. CASE SrcRestart
    BY <1>13 DEF SrcRestart
<1>14. CASE TgtHeartbeat
    BY <1>14 DEF TgtHeartbeat, Arrives, AskUnlessLive, AskForFull
<1>15. CASE TgtFragment
    BY <1>15 DEF TgtFragment, Arrives, AskUnlessLive, AskForFull
<1>16. CASE TgtFull
    BY <1>16 DEF TgtFull, Arrives
<1>17. CASE TgtPartial
    BY <1>17 DEF TgtPartial, Arrives
<1>18. CASE TgtEarlyPartial
    BY <1>18 DEF TgtEarlyPartial, Arrives, AskForFull
<1>19. CASE TgtTimeout
    BY <1>19 DEF TgtTimeout, TimedOut
<1>20. CASE TgtStale
    BY <1>20 DEF TgtStale, TimedOut
<1>21. CASE TgtRestart
    BY <1>21 DEF TgtRestart
<1> QED
    BY <1>1, <1>2, <1>3, <1>4, <1>5, <1>6, <1>7, <1>8, <1>9, <1>10, <1>11, <1>12,
       <1>13, <1>14, <1>15, <1>16, <1>17, <1>18, <1>19, <1>20, <1>21
    DEF Next, EnvNext, SourceNext, TargetNext

\* Every step keeps the target's timers within their intervals.
LEMMA TargetTimersKept ==
    ASSUME TargetTimersOK, Next
    PROVE  TargetTimersOK'
<1> USE Positive, Bounds DEF TargetTimersOK, simVars, sourceVars, targetVars
<1>1. CASE Tick
    BY <1>1 DEF Tick, Later
<1>2. CASE SimStart
    BY <1>2 DEF SimStart
<1>3. CASE SimStop
    BY <1>3 DEF SimStop
<1>4. CASE OtherOpens
    BY <1>4 DEF OtherOpens
<1>5. CASE OtherCloses
    BY <1>5 DEF OtherCloses
<1>6. CASE SrcOpen
    BY <1>6 DEF SrcOpen
<1>7. CASE SrcUnavailable
    BY <1>7 DEF SrcUnavailable
<1>8. CASE SrcRetry
    BY <1>8 DEF SrcRetry
<1>9. CASE SrcIdle
    BY <1>9 DEF SrcIdle, Poll, Beat, Send, GiveUp
<1>10. CASE SrcFull
    BY <1>10 DEF SrcFull, Woken, Poll, Send
<1>11. CASE SrcPartial
    BY <1>11 DEF SrcPartial, Woken, Poll, Send
<1>12. CASE SrcSkip
    BY <1>12 DEF SrcSkip, Woken
<1>13. CASE SrcRestart
    BY <1>13 DEF SrcRestart
<1>14. CASE TgtHeartbeat
    BY <1>14 DEF TgtHeartbeat, Arrives, AskUnlessLive, AskForFull
<1>15. CASE TgtFragment
    BY <1>15 DEF TgtFragment, Arrives, AskUnlessLive, AskForFull
<1>16. CASE TgtFull
    BY <1>16 DEF TgtFull, Arrives
<1>17. CASE TgtPartial
    BY <1>17 DEF TgtPartial, Arrives
<1>18. CASE TgtEarlyPartial
    BY <1>18 DEF TgtEarlyPartial, Arrives, AskForFull
<1>19. CASE TgtTimeout
    BY <1>19 DEF TgtTimeout, TimedOut
<1>20. CASE TgtStale
    BY <1>20 DEF TgtStale, TimedOut
<1>21. CASE TgtRestart
    BY <1>21 DEF TgtRestart
<1> QED
    BY <1>1, <1>2, <1>3, <1>4, <1>5, <1>6, <1>7, <1>8, <1>9, <1>10, <1>11, <1>12,
       <1>13, <1>14, <1>15, <1>16, <1>17, <1>18, <1>19, <1>20, <1>21
    DEF Next, EnvNext, SourceNext, TargetNext

\* Every step keeps the history variables within their caps.
LEMMA HistoryKept ==
    ASSUME HistoryOK, Next
    PROVE  HistoryOK'
<1> USE Positive, Bounds DEF HistoryOK, simVars, sourceVars, targetVars
<1>1. CASE Tick
    BY <1>1 DEF Tick, Later
<1>2. CASE SimStart
    BY <1>2 DEF SimStart
<1>3. CASE SimStop
    BY <1>3 DEF SimStop
<1>4. CASE OtherOpens
    BY <1>4 DEF OtherOpens
<1>5. CASE OtherCloses
    BY <1>5 DEF OtherCloses
<1>6. CASE SrcOpen
    BY <1>6 DEF SrcOpen
<1>7. CASE SrcUnavailable
    BY <1>7 DEF SrcUnavailable
<1>8. CASE SrcRetry
    BY <1>8 DEF SrcRetry
<1>9. CASE SrcIdle
    BY <1>9 DEF SrcIdle, Poll, Beat, Send, GiveUp
<1>10. CASE SrcFull
    BY <1>10 DEF SrcFull, Woken, Poll, Send
<1>11. CASE SrcPartial
    BY <1>11 DEF SrcPartial, Woken, Poll, Send
<1>12. CASE SrcSkip
    BY <1>12 DEF SrcSkip, Woken
<1>13. CASE SrcRestart
    BY <1>13 DEF SrcRestart
<1>14. CASE TgtHeartbeat
    BY <1>14 DEF TgtHeartbeat, Arrives, AskUnlessLive, AskForFull
<1>15. CASE TgtFragment
    BY <1>15 DEF TgtFragment, Arrives, AskUnlessLive, AskForFull
<1>16. CASE TgtFull
    BY <1>16 DEF TgtFull, Arrives
<1>17. CASE TgtPartial
    BY <1>17 DEF TgtPartial, Arrives
<1>18. CASE TgtEarlyPartial
    BY <1>18 DEF TgtEarlyPartial, Arrives, AskForFull
<1>19. CASE TgtTimeout
    BY <1>19 DEF TgtTimeout, TimedOut
<1>20. CASE TgtStale
    BY <1>20 DEF TgtStale, TimedOut
<1>21. CASE TgtRestart
    BY <1>21 DEF TgtRestart
<1> QED
    BY <1>1, <1>2, <1>3, <1>4, <1>5, <1>6, <1>7, <1>8, <1>9, <1>10, <1>11, <1>12,
       <1>13, <1>14, <1>15, <1>16, <1>17, <1>18, <1>19, <1>20, <1>21
    DEF Next, EnvNext, SourceNext, TargetNext

\* The initial states are typed.
LEMMA InitTyped == Init => TypeOK
<1> SUFFICES ASSUME Init PROVE TypeOK
    OBVIOUS
<1> USE Positive, Bounds DEF Init
<1>1. FlagsOK
    BY DEF FlagsOK
<1>2. SourceTimersOK
    BY DEF SourceTimersOK
<1>3. TargetTimersOK
    BY DEF TargetTimersOK
<1>4. HistoryOK
    BY DEF HistoryOK
<1> QED BY <1>1, <1>2, <1>3, <1>4 DEF TypeOK

\* Every step keeps the types.
LEMMA StepTyped == TypeOK /\ [Next]_vars => TypeOK'
<1> SUFFICES ASSUME TypeOK, [Next]_vars PROVE TypeOK'
    OBVIOUS
<1>1. CASE UNCHANGED vars
    BY <1>1 DEF vars, simVars, sourceVars, targetVars, TypeOK, FlagsOK, SourceTimersOK,
                TargetTimersOK, HistoryOK
<1>2. CASE Next
    BY <1>2, FlagsKept, SourceTimersKept, TargetTimersKept, HistoryKept DEF TypeOK
<1> QED BY <1>1, <1>2

\* The timers of both loops stay within their intervals, and no wait is longer
\* than it was asked to be.
THEOREM TimersBounded == Spec => []TypeOK
<1> QED BY InitTyped, StepTyped, PTL DEF Spec
-----------------------------------------------------------------------------
(* ClosesInTime.  The simulator's silence is bounded by the reconnect timer  *)
(* while the source is connected, hence at every message, hence by the stale *)
(* timer after it.                                                           *)

SourceHolds == reconnect_timeout + POLL_INTERVAL

ClosingInv ==
    /\ simulator \/ other => gone = 0
    /\ phase = "open" => \/ gone <= last_data
                         \/ last_data = reconnect_timeout /\ gone <= reconnect_timeout + waited
    /\ wire # Nothing => gone <= SourceHolds
    /\ map # "none" => \/ gone <= SourceHolds + last_update
                       \/ last_update = stale_timeout /\ gone <= SourceHolds + stale_timeout + blocked

\* Every step keeps the bounds on the time since the simulator went.
LEMMA ClosingKept ==
    ASSUME TypeOK, ClosingInv, Next
    PROVE  ClosingInv'
<1> USE Positive, Bounds DEF TypeOK, SourceTimersOK, TargetTimersOK, HistoryOK, ClosingInv, SourceHolds, Nothing,
       simVars, sourceVars, targetVars
<1>1. CASE Tick
    BY <1>1 DEF Tick, Later
<1>2. CASE SimStart
    BY <1>2 DEF SimStart
<1>3. CASE SimStop
    BY <1>3 DEF SimStop
<1>4. CASE OtherOpens
    BY <1>4 DEF OtherOpens
<1>5. CASE OtherCloses
    BY <1>5 DEF OtherCloses
<1>6. CASE SrcOpen
    BY <1>6 DEF SrcOpen, Section
<1>7. CASE SrcUnavailable
    BY <1>7 DEF SrcUnavailable
<1>8. CASE SrcRetry
    BY <1>8 DEF SrcRetry
<1>9. CASE SrcIdle
    BY <1>9 DEF SrcIdle, Poll, Beat, Send, GiveUp
<1>10. CASE SrcFull
    BY <1>10 DEF SrcFull, Woken, Poll, Send
<1>11. CASE SrcPartial
    BY <1>11 DEF SrcPartial, Woken, Poll, Send, FullDue
<1>12. CASE SrcSkip
    BY <1>12 DEF SrcSkip, Woken, FullDue
<1>13. CASE SrcRestart
    BY <1>13 DEF SrcRestart
<1>14. CASE TgtHeartbeat
    BY <1>14 DEF TgtHeartbeat, Arrives, AskUnlessLive, AskForFull
<1>15. CASE TgtFragment
    BY <1>15 DEF TgtFragment, Arrives, AskUnlessLive, AskForFull
<1>16. CASE TgtFull
    BY <1>16 DEF TgtFull, Arrives
<1>17. CASE TgtPartial
    BY <1>17 DEF TgtPartial, Arrives
<1>18. CASE TgtEarlyPartial
    BY <1>18 DEF TgtEarlyPartial, Arrives, AskForFull
<1>19. CASE TgtTimeout
    BY <1>19 DEF TgtTimeout, TimedOut
<1>20. CASE TgtStale
    BY <1>20 DEF TgtStale, TimedOut
<1>21. CASE TgtRestart
    BY <1>21 DEF TgtRestart
<1> QED
    BY <1>1, <1>2, <1>3, <1>4, <1>5, <1>6, <1>7, <1>8, <1>9, <1>10, <1>11, <1>12,
       <1>13, <1>14, <1>15, <1>16, <1>17, <1>18, <1>19, <1>20, <1>21
    DEF Next, EnvNext, SourceNext, TargetNext

\* The map is closed in time after the simulator and its section are gone.
THEOREM ClosedInTime == Spec => []ClosesInTime
<1>1. Init => ClosingInv
    BY Positive DEF Init, ClosingInv, SourceHolds
<1>2. TypeOK /\ ClosingInv /\ [Next]_vars => ClosingInv'
    <2>1. ASSUME TypeOK, ClosingInv, UNCHANGED vars PROVE ClosingInv'
        BY <2>1 DEF vars, simVars, sourceVars, targetVars, ClosingInv
    <2> QED BY <2>1, ClosingKept
<1>3. TypeOK /\ ClosingInv => ClosesInTime
    BY Positive DEF TypeOK, TargetTimersOK, HistoryOK, ClosingInv, SourceHolds, ClosesInTime, CloseBound
<1> QED BY <1>1, <1>2, <1>3, TimersBounded, PTL DEF Spec

-----------------------------------------------------------------------------
(* StaysAlive.  What the target or the history has not heard of for a time   *)
(* is not older than the heartbeat timer, until the pass that sends one.     *)

Quiet(t) ==
    \/ t <= last_heartbeat
    \/ last_heartbeat = HEARTBEAT_INTERVAL /\ t <= HEARTBEAT_INTERVAL + waited

AliveInv ==
    /\ wire = "fragment" => serving = 0
    /\ phase = "open" /\ wire = Nothing /\ map = "live" => Quiet(last_update) \/ Quiet(serving)
    /\ phase = "opening" /\ wire = Nothing /\ map = "live" =>
          last_update <= last_heartbeat \/ serving <= last_heartbeat
    /\ phase = "retrying" => waited = 0 \/ serving = 0
    /\ phase # "open" /\ ~ reconnecting => serving = 0
    /\ map = "live" => last_update <= SilenceBound \/ serving <= SilenceBound

\* Every step keeps the bounds on the silence of the source.
LEMMA AliveKept ==
    ASSUME TypeOK, AliveInv, Next
    PROVE  AliveInv'
<1> USE Positive, Bounds DEF TypeOK, SourceTimersOK, TargetTimersOK, HistoryOK, AliveInv, Quiet, SilenceBound, Nothing,
       simVars, sourceVars, targetVars
<1>1. CASE Tick
    BY <1>1 DEF Tick, Later
<1>2. CASE SimStart
    BY <1>2 DEF SimStart
<1>3. CASE SimStop
    BY <1>3 DEF SimStop
<1>4. CASE OtherOpens
    BY <1>4 DEF OtherOpens
<1>5. CASE OtherCloses
    BY <1>5 DEF OtherCloses
<1>6. CASE SrcOpen
    BY <1>6 DEF SrcOpen, Section
<1>7. CASE SrcUnavailable
    BY <1>7 DEF SrcUnavailable
<1>8. CASE SrcRetry
    BY <1>8 DEF SrcRetry
<1>9. CASE SrcIdle
    BY <1>9 DEF SrcIdle, Poll, Beat, Send, GiveUp
<1>10. CASE SrcFull
    BY <1>10 DEF SrcFull, Woken, Poll, Send
<1>11. CASE SrcPartial
    BY <1>11 DEF SrcPartial, Woken, Poll, Send, FullDue
<1>12. CASE SrcSkip
    BY <1>12 DEF SrcSkip, Woken, FullDue
<1>13. CASE SrcRestart
    BY <1>13 DEF SrcRestart
<1>14. CASE TgtHeartbeat
    BY <1>14 DEF TgtHeartbeat, Arrives, AskUnlessLive, AskForFull
<1>15. CASE TgtFragment
    BY <1>15 DEF TgtFragment, Arrives, AskUnlessLive, AskForFull
<1>16. CASE TgtFull
    BY <1>16 DEF TgtFull, Arrives
<1>17. CASE TgtPartial
    BY <1>17 DEF TgtPartial, Arrives
<1>18. CASE TgtEarlyPartial
    BY <1>18 DEF TgtEarlyPartial, Arrives, AskForFull
<1>19. CASE TgtTimeout
    BY <1>19 DEF TgtTimeout, TimedOut
<1>20. CASE TgtStale
    BY <1>20 DEF TgtStale, TimedOut
<1>21. CASE TgtRestart
    BY <1>21 DEF TgtRestart
<1> QED
    BY <1>1, <1>2, <1>3, <1>4, <1>5, <1>6, <1>7, <1>8, <1>9, <1>10, <1>11, <1>12,
       <1>13, <1>14, <1>15, <1>16, <1>17, <1>18, <1>19, <1>20, <1>21
    DEF Next, EnvNext, SourceNext, TargetNext

\* With a stale timeout longer than a heartbeat takes, the map of a connected
\* source is not closed.
THEOREM AliveWhileServing ==
    ASSUME SilenceBound < stale_timeout
    PROVE  Spec => StaysAlive
<1>1. Init => AliveInv
    BY Positive DEF Init, AliveInv, Quiet, Nothing
<1>2. TypeOK /\ AliveInv /\ [Next]_vars => AliveInv'
    <2>1. ASSUME TypeOK, AliveInv, UNCHANGED vars PROVE AliveInv'
        BY <2>1 DEF vars, simVars, sourceVars, targetVars, AliveInv, Quiet
    <2> QED BY <2>1, AliveKept
<1>3. TypeOK /\ AliveInv /\ [Next]_vars =>
          [TgtStale /\ map = "live" => serving <= SilenceBound]_vars
    BY Bounds, Positive DEF TypeOK, TargetTimersOK, HistoryOK, AliveInv, TgtStale, TimedOut
<1> QED BY <1>1, <1>2, <1>3, TimersBounded, PTL DEF Spec, StaysAlive

-----------------------------------------------------------------------------
(* FallbackInTime.  A map without session info has waited no longer than the *)
(* fallback timer has run, unless the answer is on its way.                  *)

FallbackInv ==
    /\ map # "made" => starved = 0
    /\ phase # "open" => ~ got_data
    /\ phase = "open" /\ got_data /\ map = "made" /\ wire # "full" =>
          starved <= last_full_frame \/ last_full_frame = FULL_FRAME_INTERVAL
    /\ wire = "partial" /\ map = "made" => starved < FULL_FRAME_INTERVAL

\* Every step keeps the bounds on the time without session info.
LEMMA FallbackKept ==
    ASSUME TypeOK, FallbackInv, Next
    PROVE  FallbackInv'
<1> USE Positive, Bounds DEF TypeOK, SourceTimersOK, TargetTimersOK, HistoryOK, FallbackInv, Nothing,
       simVars, sourceVars, targetVars
<1>1. CASE Tick
    BY <1>1 DEF Tick, Later
<1>2. CASE SimStart
    BY <1>2 DEF SimStart
<1>3. CASE SimStop
    BY <1>3 DEF SimStop
<1>4. CASE OtherOpens
    BY <1>4 DEF OtherOpens
<1>5. CASE OtherCloses
    BY <1>5 DEF OtherCloses
<1>6. CASE SrcOpen
    BY <1>6 DEF SrcOpen, Section
<1>7. CASE SrcUnavailable
    BY <1>7 DEF SrcUnavailable
<1>8. CASE SrcRetry
    BY <1>8 DEF SrcRetry
<1>9. CASE SrcIdle
    BY <1>9 DEF SrcIdle, Poll, Beat, Send, GiveUp
<1>10. CASE SrcFull
    BY <1>10 DEF SrcFull, Woken, Poll, Send
<1>11. CASE SrcPartial
    BY <1>11 DEF SrcPartial, Woken, Poll, Send, FullDue
<1>12. CASE SrcSkip
    BY <1>12 DEF SrcSkip, Woken, FullDue
<1>13. CASE SrcRestart
    BY <1>13 DEF SrcRestart
<1>14. CASE TgtHeartbeat
    BY <1>14 DEF TgtHeartbeat, Arrives, AskUnlessLive, AskForFull
<1>15. CASE TgtFragment
    BY <1>15 DEF TgtFragment, Arrives, AskUnlessLive, AskForFull
<1>16. CASE TgtFull
    BY <1>16 DEF TgtFull, Arrives
<1>17. CASE TgtPartial
    BY <1>17 DEF TgtPartial, Arrives
<1>18. CASE TgtEarlyPartial
    BY <1>18 DEF TgtEarlyPartial, Arrives, AskForFull
<1>19. CASE TgtTimeout
    BY <1>19 DEF TgtTimeout, TimedOut
<1>20. CASE TgtStale
    BY <1>20 DEF TgtStale, TimedOut
<1>21. CASE TgtRestart
    BY <1>21 DEF TgtRestart
<1> QED
    BY <1>1, <1>2, <1>3, <1>4, <1>5, <1>6, <1>7, <1>8, <1>9, <1>10, <1>11, <1>12,
       <1>13, <1>14, <1>15, <1>16, <1>17, <1>18, <1>19, <1>20, <1>21
    DEF Next, EnvNext, SourceNext, TargetNext

\* Requests are not needed for session info to arrive within the interval.
THEOREM FallbackBounded == Spec => FallbackInTime
<1>1. Init => FallbackInv
    BY Positive DEF Init, FallbackInv, Nothing
<1>2. TypeOK /\ FallbackInv /\ [Next]_vars => FallbackInv'
    <2>1. ASSUME TypeOK, FallbackInv, UNCHANGED vars PROVE FallbackInv'
        BY <2>1 DEF vars, simVars, sourceVars, targetVars, FallbackInv
    <2> QED BY <2>1, FallbackKept
<1>3. TypeOK /\ FallbackInv /\ [Next]_vars =>
          [TgtEarlyPartial => starved < FULL_FRAME_INTERVAL]_vars
    BY Positive DEF TypeOK, HistoryOK, TargetTimersOK, FallbackInv, TgtEarlyPartial, Arrives
<1> QED BY <1>1, <1>2, <1>3, TimersBounded, PTL DEF Spec, FallbackInTime

-----------------------------------------------------------------------------
(* ResyncInTime.  Without a request on its way to being answered, the target *)
(* has waited no longer than since its last one, or than the source was      *)
(* silent after that was due.                                                *)

Unserved == IF starved < serving THEN starved ELSE serving

Unasked ==
    \/ Unserved <= last_resync_request
    \/ /\ last_resync_request = RESYNC_REQUEST_INTERVAL
       /\ \/ phase = "open" /\ Quiet(Unserved - RESYNC_REQUEST_INTERVAL)
          \/ phase = "opening" /\ Unserved - RESYNC_REQUEST_INTERVAL <= last_heartbeat
          \/ /\ wire \in {"heartbeat", "partial"}
             /\ Unserved <= RESYNC_REQUEST_INTERVAL + SilenceBound

Asked ==
    IF phase = "open" THEN Unserved <= RESYNC_REQUEST_INTERVAL + SilenceBound + waited
    ELSE Unserved <= RESYNC_REQUEST_INTERVAL + SilenceBound

Unanswered == map = "made" /\ wire # "full" /\ ~ pending_resync

ResyncInv ==
    /\ wire = "fragment" => serving = 0
    /\ map # "made" => starved = 0
    /\ phase = "retrying" => waited = 0 \/ serving = 0
    /\ phase # "open" /\ ~ reconnecting => serving = 0
    /\ phase # "retrying" /\ Unanswered /\ ~ request => Unasked
    /\ phase # "retrying" /\ Unanswered /\ request => Asked
    /\ wire = "partial" /\ map = "made" => Unserved <= ResyncBound

\* A request is sent at the first message after it was due.
LEMMA AskedOnArrival ==
    ASSUME TypeOK, ResyncInv, TgtHeartbeat \/ TgtEarlyPartial,
           phase # "retrying", Unanswered', request'
    PROVE  Asked'
<1> USE Positive, Bounds
<1>1. /\ phase' = phase /\ waited' = waited /\ starved' = starved
      /\ pending_resync' = pending_resync /\ wire # "full"
    BY DEF TgtHeartbeat, TgtEarlyPartial, Arrives, Nothing, sourceVars
<1>2. map # "made" => starved = 0
    BY DEF ResyncInv
<1>3. serving' = serving \/ serving' = 0
    BY DEF TgtHeartbeat, TgtEarlyPartial, AskUnlessLive, AskForFull
<1>4. Unserved' \in Nat /\ Unserved \in Nat /\ Unserved' <= Unserved
    <2>1. starved \in Nat /\ serving \in Nat
        BY DEF TypeOK, HistoryOK
    <2>2. starved' = starved
        BY <1>1
    <2>3. CASE serving' = serving
        BY <2>1, <2>2, <2>3 DEF Unserved
    <2>4. CASE serving' = 0
        <3>1. CASE starved < 0
            BY <2>1, <3>1
        <3>2. CASE ~ starved < 0
            BY <2>1, <2>2, <2>4, <3>2 DEF Unserved
        <3> QED BY <3>1, <3>2
    <2> QED BY <2>3, <2>4, <1>3
<1>5. waited \in Nat /\ last_heartbeat \in 0 .. HEARTBEAT_INTERVAL
      /\ last_resync_request \in 0 .. RESYNC_REQUEST_INTERVAL
    BY DEF TypeOK, SourceTimersOK, TargetTimersOK
<1>6. CASE map # "made"
    <2>1. Unserved' = 0
        BY <1>1, <1>2, <1>3, <1>6 DEF TypeOK, HistoryOK, Unserved
    <2> QED BY <2>1, <1>1, <1>5 DEF Asked
<1>7. CASE map = "made"
    <2>1. Unanswered
        BY <1>1, <1>7, Zenon DEF Unanswered
    <2>2. request => Asked
        BY <2>1 DEF ResyncInv
    <2>3. ~ request => Unasked
        BY <2>1 DEF ResyncInv
    <2>4. Asked => Asked'
        BY <1>1, <1>4, <1>5 DEF Asked, SilenceBound
    <2>5. Unasked => Asked
        BY <1>4, <1>5 DEF Unasked, Asked, Quiet, SilenceBound
    <2> QED BY <2>2, <2>3, <2>4, <2>5
<1> QED BY <1>6, <1>7

\* Every step keeps the bounds on the time a request takes.
LEMMA ResyncKept ==
    ASSUME TypeOK, ResyncInv, Next
    PROVE  ResyncInv'
<1> USE Positive, Bounds DEF TypeOK, SourceTimersOK, TargetTimersOK, HistoryOK, ResyncInv, Unserved, Unasked, Asked, Unanswered, Quiet,
       SilenceBound, ResyncBound, Nothing,
       simVars, sourceVars, targetVars
<1>1. CASE Tick
    BY <1>1 DEF Tick, Later
<1>2. CASE SimStart
    BY <1>2 DEF SimStart
<1>3. CASE SimStop
    BY <1>3 DEF SimStop
<1>4. CASE OtherOpens
    BY <1>4 DEF OtherOpens
<1>5. CASE OtherCloses
    BY <1>5 DEF OtherCloses
<1>6. CASE SrcOpen
    BY <1>6 DEF SrcOpen, Section
<1>7. CASE SrcUnavailable
    BY <1>7 DEF SrcUnavailable
<1>8. CASE SrcRetry
    BY <1>8 DEF SrcRetry
<1>9. CASE SrcIdle
    <2> USE <1>9 DEF SrcIdle, Poll, Beat, Send, GiveUp
    <2>1. (wire = "fragment" => serving = 0)'
        OBVIOUS
    <2>2. (map # "made" => starved = 0)'
        OBVIOUS
    <2>3. (phase = "retrying" => waited = 0 \/ serving = 0)'
        OBVIOUS
    <2>4. (phase # "open" /\ ~ reconnecting => serving = 0)'
        OBVIOUS
    <2>5. (phase # "retrying" /\ Unanswered /\ ~ request => Unasked)'
        <3> SUFFICES ASSUME Unanswered' PROVE Unasked'
            OBVIOUS
        <3>1. ~ pending_resync /\ ~ request
            BY Zenon
        <3>2. Unasked
            BY <3>1
        <3>3. Unserved' \in Nat /\ Unserved \in Nat /\ Unserved' <= Unserved
            OBVIOUS
        <3>4. CASE last_heartbeat >= HEARTBEAT_INTERVAL
            BY <3>2, <3>3, <3>4
        <3>5. CASE ~ last_heartbeat >= HEARTBEAT_INTERVAL
            BY <3>2, <3>3, <3>5
        <3> QED BY <3>4, <3>5
    <2>6. (phase # "retrying" /\ Unanswered /\ request => Asked)'
        OBVIOUS
    <2>7. (wire = "partial" /\ map = "made" => Unserved <= ResyncBound)'
        OBVIOUS
    <2> QED BY ONLY <2>1, <2>2, <2>3, <2>4, <2>5, <2>6, <2>7 DEF ResyncInv
<1>10. CASE SrcFull
    BY <1>10 DEF SrcFull, Woken, Poll, Send
<1>11. CASE SrcPartial
    <2> USE <1>11 DEF SrcPartial, Woken, Poll, Send, FullDue
    <2>1. (wire = "fragment" => serving = 0)'
        OBVIOUS
    <2>2. (map # "made" => starved = 0)'
        OBVIOUS
    <2>3. (phase = "retrying" => waited = 0 \/ serving = 0)'
        OBVIOUS
    <2>4. (phase # "open" /\ ~ reconnecting => serving = 0)'
        OBVIOUS
    <2>5. (phase # "retrying" /\ Unanswered /\ ~ request => Unasked)'
        <3> SUFFICES ASSUME Unanswered' PROVE Unasked'
            OBVIOUS
        <3>1. ~ pending_resync /\ ~ request
            BY Zenon
        <3>2. Unasked
            BY <3>1
        <3>3. Unserved' \in Nat /\ Unserved \in Nat /\ Unserved' <= Unserved
            OBVIOUS
        <3> QED BY <3>2, <3>3
    <2>6. (phase # "retrying" /\ Unanswered /\ request => Asked)'
        OBVIOUS
    <2>7. (wire = "partial" /\ map = "made" => Unserved <= ResyncBound)'
        OBVIOUS
    <2> QED BY ONLY <2>1, <2>2, <2>3, <2>4, <2>5, <2>6, <2>7 DEF ResyncInv
<1>12. CASE SrcSkip
    BY <1>12 DEF SrcSkip, Woken, FullDue
<1>13. CASE SrcRestart
    BY <1>13 DEF SrcRestart
<1>14. CASE TgtHeartbeat
    <2> USE <1>14 DEF TgtHeartbeat, Arrives, AskUnlessLive, AskForFull
    <2>1. (wire = "fragment" => serving = 0)'
        OBVIOUS
    <2>2. (map # "made" => starved = 0)'
        OBVIOUS
    <2>3. (phase = "retrying" => waited = 0 \/ serving = 0)'
        OBVIOUS
    <2>4. (phase # "open" /\ ~ reconnecting => serving = 0)'
        OBVIOUS
    <2>5. (phase # "retrying" /\ Unanswered /\ ~ request => Unasked)'
        OBVIOUS
    <2>6. (phase # "retrying" /\ Unanswered /\ request => Asked)'
        BY AskedOnArrival
    <2>7. (wire = "partial" /\ map = "made" => Unserved <= ResyncBound)'
        OBVIOUS
    <2> QED BY ONLY <2>1, <2>2, <2>3, <2>4, <2>5, <2>6, <2>7 DEF ResyncInv
<1>15. CASE TgtFragment
    <2> USE <1>15 DEF TgtFragment, Arrives, AskUnlessLive, AskForFull
    <2>1. (wire = "fragment" => serving = 0)'
        OBVIOUS
    <2>2. (map # "made" => starved = 0)'
        OBVIOUS
    <2>3. (phase = "retrying" => waited = 0 \/ serving = 0)'
        OBVIOUS
    <2>4. (phase # "open" /\ ~ reconnecting => serving = 0)'
        OBVIOUS
    <2>5. (phase # "retrying" /\ Unanswered /\ ~ request => Unasked)'
        <3>1. Unserved' = 0
            OBVIOUS
        <3> QED BY <3>1
    <2>6. (phase # "retrying" /\ Unanswered /\ request => Asked)'
        <3>1. Unserved' = 0
            OBVIOUS
        <3>2. waited' = waited /\ waited \in Nat
            OBVIOUS
        <3> HIDE DEF Unserved, Unanswered
        <3> QED BY ONLY <3>1, <3>2, Positive DEF Asked, SilenceBound
    <2>7. (wire = "partial" /\ map = "made" => Unserved <= ResyncBound)'
        OBVIOUS
    <2> QED BY ONLY <2>1, <2>2, <2>3, <2>4, <2>5, <2>6, <2>7 DEF ResyncInv
<1>16. CASE TgtFull
    BY <1>16 DEF TgtFull, Arrives
<1>17. CASE TgtPartial
    BY <1>17 DEF TgtPartial, Arrives
<1>18. CASE TgtEarlyPartial
    <2> USE <1>18 DEF TgtEarlyPartial, Arrives, AskForFull
    <2>1. (wire = "fragment" => serving = 0)'
        OBVIOUS
    <2>2. (map # "made" => starved = 0)'
        OBVIOUS
    <2>3. (phase = "retrying" => waited = 0 \/ serving = 0)'
        OBVIOUS
    <2>4. (phase # "open" /\ ~ reconnecting => serving = 0)'
        OBVIOUS
    <2>5. (phase # "retrying" /\ Unanswered /\ ~ request => Unasked)'
        OBVIOUS
    <2>6. (phase # "retrying" /\ Unanswered /\ request => Asked)'
        BY AskedOnArrival
    <2>7. (wire = "partial" /\ map = "made" => Unserved <= ResyncBound)'
        OBVIOUS
    <2> QED BY ONLY <2>1, <2>2, <2>3, <2>4, <2>5, <2>6, <2>7 DEF ResyncInv
<1>19. CASE TgtTimeout
    BY <1>19 DEF TgtTimeout, TimedOut
<1>20. CASE TgtStale
    BY <1>20 DEF TgtStale, TimedOut
<1>21. CASE TgtRestart
    BY <1>21 DEF TgtRestart
<1> QED
    BY <1>1, <1>2, <1>3, <1>4, <1>5, <1>6, <1>7, <1>8, <1>9, <1>10, <1>11, <1>12,
       <1>13, <1>14, <1>15, <1>16, <1>17, <1>18, <1>19, <1>20, <1>21
    DEF Next, EnvNext, SourceNext, TargetNext

\* A request that is not lost is answered in time.
THEOREM ResyncBounded == Spec => ResyncInTime
<1>1. Init => ResyncInv
    BY Positive, Bounds DEF Init, ResyncInv, Unserved, Unasked, Asked, Unanswered, Nothing
<1>2. TypeOK /\ ResyncInv /\ [Next]_vars => ResyncInv'
    <2>1. ASSUME TypeOK, ResyncInv, UNCHANGED vars PROVE ResyncInv'
        BY <2>1 DEF vars, simVars, sourceVars, targetVars, ResyncInv, Unserved, Unasked, Asked,
                    Unanswered, Quiet
    <2> QED BY <2>1, ResyncKept
<1>3. TypeOK /\ ResyncInv /\ [Next]_vars =>
          [TgtEarlyPartial => starved <= ResyncBound \/ serving <= ResyncBound]_vars
    BY Bounds DEF TypeOK, HistoryOK, TargetTimersOK, ResyncInv, Unserved, TgtEarlyPartial, Arrives
<1> QED BY <1>1, <1>2, <1>3, TimersBounded, PTL DEF Spec, ResyncInTime
=============================================================================
