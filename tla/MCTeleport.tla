----------------------------- MODULE MCTeleport -----------------------------
(* Instances of Teleport for TLC. *)
EXTENDS Teleport

\* Payloads of consecutive ticks differ, and so does the XOR of two of them
\* from both; the all-zero payload of a cleared buffer is none of them.
MCPayload(t, s) == CASE (t + s) % 3 = 0 -> {1}
                     [] (t + s) % 3 = 1 -> {2}
                     [] OTHER           -> {1, 2}
=============================================================================
