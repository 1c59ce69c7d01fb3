-------------------------------- MODULE Wire --------------------------------
(***************************************************************************)
(* What teleport's source and target exchange, above fragmentation: whole  *)
(* messages in one direction (MessageChannel says what Reassembly promises *)
(* of them), resync/capability packets in the other.                       *)
(*                                                                         *)
(* The payload of a partial frame, irsdk header || varBuf, is a set of     *)
(* bits, so that XOR is symmetric difference and the zeroed buffer is {}.  *)
(***************************************************************************)
EXTENDS Integers, Sequences

CONSTANTS
    Bits,      \* the bits of a payload
    Sessions,  \* values of sessionInfoUpdate
    MaxWire,   \* bound: messages on their way to the target
    MaxBack    \* bound: requests on their way to the source

ASSUME WireAssumption == Sessions \subseteq Nat /\ MaxWire \in Nat /\ MaxBack \in Nat

VARIABLES
    wire,  \* messages from source to target, oldest first
    back   \* requests from targets to the source, oldest first

Zeros == {}
NoSession == -1

\* xor_delta() of two payloads of the same length.
Xor(a, b) == (a \ b) \cup (b \ a)

-----------------------------------------------------------------------------
(* Messages.  cur and gap of a partial frame are history: the payload it    *)
(* stands for, and whether the partial frame before it never left.          *)

Heartbeat == [kind |-> "heartbeat"]

\* A fragment of a session-info frame that does not complete it.
LeadFragment == [kind |-> "fragment"]

\* header, variable descriptors and YAML, under buf_offset u32::MAX
SessionInfo(s) == [kind |-> "full", session |-> s]

Partial(delta, cur, previous, s, gap) ==
    [kind    |-> "partial",
     delta   |-> delta,
     data    |-> IF delta THEN Xor(cur, previous) ELSE cur,
     session |-> s,
     cur     |-> cur,
     gap     |-> gap]

PartialFrame ==
    [kind : {"partial"}, delta : BOOLEAN, data : SUBSET Bits, session : Sessions,
     cur : SUBSET Bits, gap : BOOLEAN]

Message ==
    {Heartbeat, LeadFragment} \cup {SessionInfo(s) : s \in Sessions} \cup PartialFrame

\* A request's capability byte: delta-capable, or absent (a 1-byte request).
Request == {"delta", "old"}

WireTypeOK == wire \in Seq(Message) /\ back \in Seq(Request)
=============================================================================
