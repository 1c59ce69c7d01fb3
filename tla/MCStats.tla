------------------------------- MODULE MCStats -------------------------------
(* An instance of Stats for TLC. *)
EXTENDS Stats

Full == [compressed |-> 2, uncompressed |-> 4, source_us |-> 3, is_full |-> TRUE, is_delta |-> FALSE]
Partial == [compressed |-> 1, uncompressed |-> 2, source_us |-> 1, is_full |-> FALSE, is_delta |-> FALSE]
Delta == [compressed |-> 1, uncompressed |-> 2, source_us |-> 2, is_full |-> FALSE, is_delta |-> TRUE]

MCFrames == {Full, Partial, Delta}

\* Three of four samples stand for 99 of 100: the place is the maximum's for up
\* to four samples and below it for five.
MCP99 == <<3, 4>>
=============================================================================
