---------------------------- MODULE MCReassembly ----------------------------
(* Instances of Reassembly for TLC. *)
EXTENDS Reassembly

\* One, two or three fragments, and longer than the receiver takes.
MCMessages == {[length |-> 7, buf_offset |-> U32_MAX],
               [length |-> 5, buf_offset |-> U32_MAX],
               [length |-> 3, buf_offset |-> 1],
               [length |-> 2, buf_offset |-> 1]}

MCTwoSizes == {[length |-> 5, buf_offset |-> U32_MAX], [length |-> 3, buf_offset |-> 1]}

MCShort == {[length |-> 3, buf_offset |-> U32_MAX], [length |-> 1, buf_offset |-> 1]}
=============================================================================
