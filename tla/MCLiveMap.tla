----------------------------- MODULE MCLiveMap -----------------------------
(* Instances of LiveMap for TLC. *)
EXTENDS LiveMap

\* Laps of a driver who goes back to the pits in between; 0 in a zeroed row.
MCLap(t) == CASE t = 0 -> 0 [] t = 3 -> 1 [] OTHER -> (t \div 2) + 1
=============================================================================
