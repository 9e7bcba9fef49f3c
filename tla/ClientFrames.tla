---------------------------- MODULE ClientFrames ----------------------------
(***************************************************************************)
(* The data path of ESP32WebSocketClientPlatform: HandleData,              *)
(* DispatchPayload and RememberPeerClose, on the task of the native client *)
(* (ESPressio_WebSocketClientPlatform.hpp, lines 674-780).                 *)
(*                                                                         *)
(* The native client reads one frame at a time and raises a DATA event for *)
(* every part of its payload that fits its buffer.  An event carries the   *)
(* opcode, the payload's length, the part's offset and the part; it does   *)
(* not carry the FIN bit.  Payloads are counted in units, and a unit's     *)
(* content is the number of the frame it was sent in (0: a byte that was   *)
(* never written).  Losing the link abandons the frame in progress.        *)
(***************************************************************************)
EXTENDS Naturals, Sequences

CONSTANTS
    Limit,      \* ESPRESSIO_ESP32_WEBSOCKET_CLIENT_MAX_MESSAGE_BYTES, in units
    MaxSize,    \* bound: units of the longest payload that a peer sends
    MaxFrames   \* bound: frames sent in a behaviour

ASSUME LimitAssumption == Limit \in Nat /\ MaxSize \in Nat /\ MaxFrames \in Nat

VARIABLES
    connected,      \* _connected, with a _connection and a sink
    incoming,       \* _incomingFrame
    incomingOp,     \* _incomingOpcode
    peerClose,      \* the frame that _peerCloseCode comes from, or 0
    frame,          \* native client: the frame being read, or NoFrame
    offset,         \*   how much of it has been read
    unfinished,     \* peer: it has sent a fragment that was not the last
    count,          \* history: frames sent
    received,       \* history: data frames read to their end, of those handled
    delivered       \* history: payloads passed to the sink

vars == <<connected, incoming, incomingOp, peerClose, frame, offset, unfinished, count,
          received, delivered>>

DataOps  == {"text", "binary"}
Ops      == DataOps \union {"continuation", "close", "ping"}
NoFrame  == [op |-> "none", fin |-> TRUE, size |-> 0, id |-> 0]
Filled(n, v) == [i \in 1 .. n |-> v]

-----------------------------------------------------------------------------
\* Mutation: the last unit is not waited for.
IsCompleteEarly(at, length, size) == at + length + 1 >= size

\* The last part of the payload has been copied.
IsComplete(at, length, size) == at + length = size

\* Mutation: a payload may be one unit over the limit.
TooLongByOne(size) == size > Limit + 1

TooLong(size) == size > Limit

-----------------------------------------------------------------------------
Init ==
    /\ connected = FALSE
    /\ incoming = <<>> /\ incomingOp = "none" /\ peerClose = 0
    /\ frame = NoFrame /\ offset = 0 /\ unfinished = FALSE /\ count = 0
    /\ received = <<>> /\ delivered = <<>>

\* HandleConnected.
LinkUp ==
    /\ ~connected
    /\ connected' = TRUE /\ peerClose' = 0
    /\ UNCHANGED <<incoming, incomingOp, frame, offset, unfinished, count, received,
                   delivered>>

\* HandleDisconnected: the buffer keeps what an abandoned frame left in it.
LinkLost ==
    /\ connected
    /\ connected' = FALSE
    /\ frame' = NoFrame /\ offset' = 0 /\ unfinished' = FALSE
    /\ UNCHANGED <<incoming, incomingOp, peerClose, count, received, delivered>>

\* Disconnect, which clears the buffer, and the Connect after it.
Disconnect ==
    /\ connected
    /\ connected' = FALSE
    /\ incoming' = <<>> /\ incomingOp' = "none"
    /\ frame' = NoFrame /\ offset' = 0 /\ unfinished' = FALSE
    /\ UNCHANGED <<peerClose, count, received, delivered>>

\* The peer sends a frame: control frames may come between the fragments of a
\* message, a new message may not.
PeerSends ==
    /\ connected /\ frame = NoFrame /\ count < MaxFrames
    /\ \E op \in Ops, fin \in BOOLEAN, size \in 0 .. MaxSize :
          /\ op \in {"close", "ping"} => fin /\ size <= 1
          /\ op = "continuation" => unfinished
          /\ op \in DataOps => ~unfinished
          /\ frame' = [op |-> op, fin |-> fin, size |-> size, id |-> count + 1]
          /\ unfinished' = IF op \in {"close", "ping"} THEN unfinished ELSE ~fin
    /\ offset' = 0 /\ count' = count + 1
    /\ UNCHANGED <<connected, incoming, incomingOp, peerClose, received, delivered>>

-----------------------------------------------------------------------------
\* DispatchPayload or RememberPeerClose, for a payload that is complete.
Complete(op, payload) ==
    IF op = "close"
    THEN peerClose' = (IF Len(payload) > 0 THEN payload[1] ELSE 0) /\ UNCHANGED delivered
    ELSE delivered' = Append(delivered, [op |-> op, payload |-> payload])
         /\ UNCHANGED peerClose

\* HandleData for a payload that comes in parts.
Reassemble(length) ==
    LET buffer == IF offset = 0 THEN Filled(frame.size, 0) ELSE incoming
        op     == IF offset = 0 THEN frame.op ELSE incomingOp
        filled == [i \in DOMAIN buffer |->
                     IF i \in offset + 1 .. offset + length THEN frame.id ELSE buffer[i]]
    IN  IF Len(buffer) # frame.size \/ op # frame.op
        THEN incoming' = <<>> /\ incomingOp' = "none" /\ UNCHANGED <<peerClose, delivered>>
        ELSE IF IsComplete(offset, length, frame.size)
        THEN incoming' = <<>> /\ incomingOp' = "none" /\ Complete(op, filled)
        ELSE incoming' = filled /\ incomingOp' = op /\ UNCHANGED <<peerClose, delivered>>

\* HandleData, for the next part of the frame.
HandleData ==
    /\ frame # NoFrame
    /\ \E length \in 0 .. frame.size - offset :
          /\ length = 0 => frame.size = 0
          /\ IF TooLong(frame.size) \/ frame.op \in {"ping", "continuation"}
             THEN UNCHANGED <<incoming, incomingOp, peerClose, delivered>>
             ELSE IF offset = 0 /\ length = frame.size
             THEN Complete(frame.op, Filled(frame.size, frame.id))
                  /\ UNCHANGED <<incoming, incomingOp>>
             ELSE Reassemble(length)
          /\ IF offset + length = frame.size
             THEN /\ frame' = NoFrame /\ offset' = 0
                  /\ received' = IF frame.op \in DataOps /\ frame.size <= Limit
                                 THEN Append(received, frame) ELSE received
             ELSE frame' = frame /\ offset' = offset + length /\ UNCHANGED received
    /\ UNCHANGED <<connected, unfinished, count>>

Next == LinkUp \/ LinkLost \/ Disconnect \/ PeerSends \/ HandleData

Spec == Init /\ [][Next]_vars

-----------------------------------------------------------------------------
(* Properties *)

\* Type invariant; in particular the buffer is never longer than the limit.
TypeOK ==
    /\ connected \in BOOLEAN /\ unfinished \in BOOLEAN
    /\ Len(incoming) <= Limit
    /\ \A i \in DOMAIN incoming : incoming[i] \in 0 .. MaxFrames
    /\ incomingOp \in Ops \union {"none"} /\ peerClose \in 0 .. MaxFrames
    /\ frame \in [op : Ops \union {"none"}, fin : BOOLEAN, size : 0 .. MaxSize,
                  id : 0 .. MaxFrames]
    /\ offset \in 0 .. MaxSize /\ count \in 0 .. MaxFrames

\* The sink gets every text or binary frame that was read to its end and is not
\* over the limit, exactly once, in order and byte for byte, however it was cut
\* into parts and whatever an abandoned frame left behind (lines 695-742).
DeliversFrames ==
    /\ Len(delivered) = Len(received)
    /\ \A i \in DOMAIN received :
          delivered[i] = [op |-> received[i].op,
                          payload |-> Filled(received[i].size, received[i].id)]

\* What the sink gets is a whole message, never a part of one: "Drop
\* continuation frames rather than deliver corrupted messages" (line 691).
DeliversWholeMessages ==
    \A i \in DOMAIN delivered : received[i].fin

Stream == INSTANCE FrameStream
          WITH Frames <- [op : Ops, fin : BOOLEAN, size : 0 .. MaxSize, id : 1 .. MaxFrames]

\* Refinement: with its parts, its buffer and what an abandoned frame leaves in
\* it (lines 674-743), the data path hands each frame on in one step, whole, and
\* in no other step does the sink hear anything.
ImplementsStream == Stream!Spec
=============================================================================
