---------------------------- MODULE FrameStream ----------------------------
(***************************************************************************)
(* What the data path of the WebSocket client promises to its sink,        *)
(* without parts, offsets or a buffer: the frames of a link come one after *)
(* the other, and each text or binary frame that fits is handed on whole,  *)
(* in the step in which it ends.  A link that ends takes the frame in      *)
(* progress with it.  ClientFrames implements it (ImplementsStream).       *)
(***************************************************************************)
EXTENDS Naturals, Sequences

CONSTANTS
    Limit,      \* the longest payload that is handed on
    Frames,     \* frames that a peer may send: [op, fin, size, id]
    NoFrame     \* no frame in progress

VARIABLES
    connected,  \* there is a link
    frame,      \* the frame in progress
    delivered   \* payloads handed to the sink

streamVars == <<connected, frame, delivered>>

Passes(f)  == f.op \in {"text", "binary"} /\ f.size <= Limit
Message(f) == [op |-> f.op, payload |-> [i \in 1 .. f.size |-> f.id]]

Init == connected = FALSE /\ frame = NoFrame /\ delivered = <<>>

Open ==
    /\ ~connected
    /\ connected' = TRUE
    /\ UNCHANGED <<frame, delivered>>

Begin ==
    /\ connected /\ frame = NoFrame
    /\ frame' \in Frames
    /\ UNCHANGED <<connected, delivered>>

End ==
    /\ connected /\ frame # NoFrame
    /\ frame' = NoFrame
    /\ delivered' = IF Passes(frame) THEN Append(delivered, Message(frame)) ELSE delivered
    /\ UNCHANGED connected

Close ==
    /\ connected
    /\ connected' = FALSE /\ frame' = NoFrame
    /\ UNCHANGED delivered

Next == Open \/ Begin \/ End \/ Close

Spec == Init /\ [][Next]_streamVars
=============================================================================
