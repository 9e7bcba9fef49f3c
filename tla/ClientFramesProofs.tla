------------------------- MODULE ClientFramesProofs -------------------------
(***************************************************************************)
(* Proofs about ClientFrames for any limit, any size of payload and any    *)
(* number of frames.                                                       *)
(*                                                                         *)
(* The buffer may hold what an abandoned frame left in it; what counts is  *)
(* that from the second part of a frame on it is that frame's own, filled  *)
(* up to the present offset (BufferInv).  The abstract stream then sees    *)
(* the last part of a frame, and no other part of it.                      *)
(***************************************************************************)
EXTENDS ClientFrames, TLAPS

Frames   == [op : Ops \union {"none"}, fin : BOOLEAN, size : 0 .. MaxSize, id : 0 .. MaxFrames]
Messages == [op : DataOps, payload : Seq(0 .. MaxFrames)]

\* What HandleData hands on; there is nothing else in it.
Fits(f) == ~TooLong(f.size) /\ f.op \in DataOps \union {"close"}

TypeInv ==
    /\ connected \in BOOLEAN /\ unfinished \in BOOLEAN
    /\ incoming \in Seq(0 .. MaxFrames) /\ Len(incoming) <= Limit
    /\ incomingOp \in Ops \union {"none"} /\ peerClose \in 0 .. MaxFrames
    /\ frame \in Frames /\ offset \in 0 .. frame.size /\ count \in 0 .. MaxFrames
    /\ frame.op = "none" <=> frame = NoFrame

\* The buffer is the frame's own from its second part on.
BufferInv ==
    frame # NoFrame /\ Fits(frame) /\ offset > 0 =>
        /\ Len(incoming) = frame.size /\ incomingOp = frame.op
        /\ \A i \in 1 .. offset : incoming[i] = frame.id

\* The sink has had the frames that were read to their end.
DeliveredInv ==
    /\ received \in Seq(Frames) /\ delivered \in Seq(Messages)
    /\ DeliversFrames

Inv == TypeInv /\ BufferInv /\ DeliveredInv

-----------------------------------------------------------------------------
\* A run of equal units is a sequence of them.
LEMMA FilledSeq ==
    ASSUME NEW S, NEW v \in S, NEW n \in Nat
    PROVE  /\ Filled(n, v) \in Seq(S) /\ Len(Filled(n, v)) = n
           /\ \A i \in 1 .. n : Filled(n, v)[i] = v
  BY DEF Filled

\* A sequence has its elements where its length says.
LEMMA ElementOf ==
    ASSUME NEW S, NEW s \in Seq(S)
    PROVE  DOMAIN s = 1 .. Len(s) /\ \A i \in 1 .. Len(s) : s[i] \in S
  OBVIOUS

\* A function from 1 to n is a sequence of length n.
LEMMA FunctionSeq ==
    ASSUME NEW S, NEW n \in Nat, NEW f \in [1 .. n -> S]
    PROVE  f \in Seq(S) /\ Len(f) = n
  OBVIOUS

\* A sequence of n equal units is that run.
LEMMA FilledUnique ==
    ASSUME NEW v, NEW n \in Nat, NEW s, s = [i \in 1 .. n |-> s[i]],
           \A i \in 1 .. n : s[i] = v
    PROVE  s = Filled(n, v)
  BY DEF Filled

\* The initial state satisfies the invariant.
LEMMA InitInv == Init => Inv
  <1> SUFFICES ASSUME Init PROVE Inv
    OBVIOUS
  <1>1. NoFrame \in Frames /\ NoFrame.op = "none" /\ NoFrame.size = 0
    BY LimitAssumption DEF NoFrame, Frames
  <1>2. TypeInv
    <2>1. incoming \in Seq(0 .. MaxFrames) /\ Len(incoming) <= Limit
      BY LimitAssumption DEF Init
    <2>2. /\ connected \in BOOLEAN /\ unfinished \in BOOLEAN
      BY DEF Init
    <2>3. QED
      BY <1>1, <2>1, <2>2, LimitAssumption DEF Init, TypeInv
  <1>3. BufferInv /\ DeliveredInv
    BY DEF Init, BufferInv, DeliveredInv, DeliversFrames
  <1>4. QED
    BY <1>2, <1>3 DEF Inv

\* The link comes and goes; the buffer may keep what it has.
LEMMA LinkStep ==
    ASSUME Inv, LinkUp \/ LinkLost \/ Disconnect
    PROVE  Inv'
  <1> USE DEF Inv
  <1>1. /\ UNCHANGED <<count, received, delivered>>
        /\ connected' \in BOOLEAN /\ unfinished' \in BOOLEAN
    BY DEF LinkUp, LinkLost, Disconnect, TypeInv
  <1>2. \/ UNCHANGED <<incoming, incomingOp>>
        \/ incoming' = <<>> /\ incomingOp' = "none"
    BY DEF LinkUp, LinkLost, Disconnect
  <1>3. \/ UNCHANGED <<frame, offset, incoming, incomingOp>>
        \/ frame' = NoFrame /\ offset' = 0
    BY DEF LinkUp, LinkLost, Disconnect
  <1>4. NoFrame \in Frames /\ NoFrame.op = "none" /\ NoFrame.size = 0
    BY LimitAssumption DEF NoFrame, Frames
  <1>5. incoming' \in Seq(0 .. MaxFrames) /\ Len(incoming') <= Limit
    <2>1. <<>> \in Seq(0 .. MaxFrames) /\ Len(<<>>) = 0
      OBVIOUS
    <2>2. CASE UNCHANGED incoming
      BY <2>2 DEF TypeInv
    <2>3. CASE incoming' = <<>>
      BY <2>1, <2>3, LimitAssumption
    <2>4. QED
      BY <1>2, <2>2, <2>3
  <1>6. TypeInv'
    <2>1. peerClose' \in 0 .. MaxFrames
      BY LimitAssumption DEF LinkUp, LinkLost, Disconnect, TypeInv
    <2>2. QED
      BY <1>1, <1>2, <1>3, <1>4, <1>5, <2>1 DEF TypeInv
  <1>7. BufferInv'
    BY <1>3 DEF BufferInv
  <1>8. DeliveredInv'
    BY <1>1 DEF DeliveredInv, DeliversFrames
  <1>9. QED
    BY <1>6, <1>7, <1>8

\* A frame begins, at offset 0.
LEMMA PeerStep ==
    ASSUME Inv, PeerSends
    PROVE  Inv'
  <1> USE DEF Inv
  <1>1. PICK op \in Ops, fin \in BOOLEAN, size \in 0 .. MaxSize :
           /\ frame' = [op |-> op, fin |-> fin, size |-> size, id |-> count + 1]
           /\ unfinished' = IF op \in {"close", "ping"} THEN unfinished ELSE ~fin
    BY DEF PeerSends
  <1>2. /\ offset' = 0 /\ count' = count + 1 /\ count < MaxFrames
        /\ UNCHANGED <<connected, incoming, incomingOp, peerClose, received, delivered>>
    BY DEF PeerSends
  <1>3. count' \in 0 .. MaxFrames
    BY <1>2, LimitAssumption DEF TypeInv
  <1>4. frame' \in Frames /\ frame'.op = op /\ frame'.size = size /\ op # "none"
    BY <1>1, <1>2, <1>3 DEF Frames, Ops, DataOps
  <1>5. frame' # NoFrame
    BY <1>4 DEF NoFrame
  <1>6. unfinished' \in BOOLEAN
    BY <1>1 DEF TypeInv
  <1>7. TypeInv'
    BY <1>2, <1>3, <1>4, <1>5, <1>6, LimitAssumption DEF TypeInv
  <1>8. BufferInv' /\ DeliveredInv'
    BY <1>2 DEF BufferInv, DeliveredInv, DeliversFrames
  <1>9. QED
    BY <1>7, <1>8

-----------------------------------------------------------------------------
(* HandleData *)

\* What one part does: the last part of a frame that fits hands on the whole
\* frame, another part is added to the buffer, and anything else is dropped.
LEMMA PartStep ==
    ASSUME TypeInv, BufferInv, frame # NoFrame, NEW length \in 0 .. frame.size - offset,
           length = 0 => frame.size = 0,
           IF TooLong(frame.size) \/ frame.op \in {"ping", "continuation"}
           THEN UNCHANGED <<incoming, incomingOp, peerClose, delivered>>
           ELSE IF offset = 0 /\ length = frame.size
           THEN Complete(frame.op, Filled(frame.size, frame.id))
                /\ UNCHANGED <<incoming, incomingOp>>
           ELSE Reassemble(length)
    PROVE  /\ IF Fits(frame) /\ offset + length = frame.size
              THEN Complete(frame.op, Filled(frame.size, frame.id))
              ELSE UNCHANGED <<peerClose, delivered>>
           /\ incoming' \in Seq(0 .. MaxFrames) /\ Len(incoming') <= Limit
           /\ incomingOp' \in Ops \union {"none"}
           /\ Fits(frame) /\ offset + length # frame.size =>
                 /\ Len(incoming') = frame.size /\ incomingOp' = frame.op
                 /\ \A i \in 1 .. offset + length : incoming'[i] = frame.id
  <1>1. /\ frame.op \in Ops /\ frame.size \in Nat /\ frame.id \in 0 .. MaxFrames
        /\ offset \in 0 .. frame.size /\ length \in Nat
        /\ incoming \in Seq(0 .. MaxFrames) /\ Len(incoming) <= Limit
        /\ incomingOp \in Ops \union {"none"}
    BY LimitAssumption DEF TypeInv, Frames
  <1>2. Fits(frame) <=> ~(TooLong(frame.size) \/ frame.op \in {"ping", "continuation"})
    BY <1>1 DEF Fits, Ops, DataOps
  <1>3. CASE ~Fits(frame)
    BY <1>1, <1>2, <1>3
  <1>4. CASE Fits(frame) /\ offset = 0 /\ length = frame.size
    BY <1>1, <1>2, <1>4
  <1>5. CASE Fits(frame) /\ ~(offset = 0 /\ length = frame.size)
    <2> DEFINE buffer == IF offset = 0 THEN Filled(frame.size, 0) ELSE incoming
               op     == IF offset = 0 THEN frame.op ELSE incomingOp
               filled == [i \in DOMAIN buffer |->
                            IF i \in offset + 1 .. offset + length THEN frame.id
                                                                   ELSE buffer[i]]
    <2>1. Reassemble(length) /\ frame.size <= Limit
      BY <1>1, <1>2, <1>5, LimitAssumption DEF Fits, TooLong
    <2>2. /\ buffer \in Seq(0 .. MaxFrames) /\ Len(buffer) = frame.size /\ op = frame.op
          /\ \A i \in 1 .. offset : buffer[i] = frame.id
      <3>1. CASE offset = 0
        <4>1. 0 \in 0 .. MaxFrames
          BY LimitAssumption
        <4>2. Filled(frame.size, 0) \in Seq(0 .. MaxFrames)
              /\ Len(Filled(frame.size, 0)) = frame.size
          BY <1>1, <4>1, FilledSeq
        <4>3. QED
          BY <3>1, <4>2
      <3>2. CASE offset # 0
        BY <1>1, <1>5, <3>2 DEF BufferInv
      <3>3. QED
        BY <3>1, <3>2
    <2> HIDE DEF buffer, op
    <2>3. /\ DOMAIN buffer = 1 .. frame.size
          /\ \A i \in 1 .. frame.size : buffer[i] \in 0 .. MaxFrames
      BY <2>2, ElementOf
    <2>4. /\ filled = [i \in 1 .. frame.size |->
                         IF i \in offset + 1 .. offset + length THEN frame.id ELSE buffer[i]]
      BY <2>3
    <2>5. /\ filled \in Seq(0 .. MaxFrames) /\ Len(filled) = frame.size
          /\ \A i \in 1 .. offset + length : filled[i] = frame.id
      <3>1. \A i \in 1 .. frame.size :
               filled[i] = IF i \in offset + 1 .. offset + length THEN frame.id ELSE buffer[i]
        BY <2>4
      <3>2. filled \in [1 .. frame.size -> 0 .. MaxFrames]
        BY <1>1, <2>3, <2>4
      <3>3. filled \in Seq(0 .. MaxFrames) /\ Len(filled) = frame.size
        BY <1>1, <3>2, FunctionSeq
      <3>4. ASSUME NEW i \in 1 .. offset + length PROVE filled[i] = frame.id
        <4>1. i \in 1 .. frame.size /\ (i \in 1 .. offset \/ i \in offset + 1 .. offset + length)
          BY <1>1
        <4>2. QED
          BY <2>2, <3>1, <4>1
      <3>5. QED
        BY <3>3, <3>4
    <2>6. filled = [i \in 1 .. frame.size |-> filled[i]]
      BY <2>4
    <2>7. IF offset + length = frame.size
          THEN incoming' = <<>> /\ incomingOp' = "none" /\ Complete(frame.op, filled)
          ELSE incoming' = filled /\ incomingOp' = frame.op /\ UNCHANGED <<peerClose, delivered>>
      BY <2>1, <2>2 DEF Reassemble, IsComplete, buffer, op
    <2> HIDE DEF filled
    <2>8. CASE offset + length = frame.size
      <3>1. filled = Filled(frame.size, frame.id)
        BY <1>1, <2>5, <2>6, <2>8, FilledUnique
      <3>2. <<>> \in Seq(0 .. MaxFrames) /\ Len(<<>>) = 0
        OBVIOUS
      <3>3. QED
        BY <1>5, <2>7, <2>8, <3>1, <3>2, LimitAssumption
    <2>9. CASE offset + length # frame.size
      BY <1>1, <1>5, <2>1, <2>5, <2>7, <2>9
    <2>10. QED
      BY <2>8, <2>9
  <1>6. QED
    BY <1>3, <1>4, <1>5

\* The sink gets a frame exactly when it has been read to its end and fits.
LEMMA DataStep ==
    ASSUME Inv, HandleData
    PROVE  Inv'
  <1> USE DEF Inv
  <1>1. PICK length \in 0 .. frame.size - offset :
          /\ length = 0 => frame.size = 0
          /\ IF TooLong(frame.size) \/ frame.op \in {"ping", "continuation"}
             THEN UNCHANGED <<incoming, incomingOp, peerClose, delivered>>
             ELSE IF offset = 0 /\ length = frame.size
             THEN Complete(frame.op, Filled(frame.size, frame.id))
                  /\ UNCHANGED <<incoming, incomingOp>>
             ELSE Reassemble(length)
          /\ IF offset + length = frame.size
             THEN /\ frame' = NoFrame /\ offset' = 0
                  /\ received' = IF frame.op \in DataOps /\ frame.size <= Limit
                                 THEN Append(received, frame) ELSE received
             ELSE frame' = frame /\ offset' = offset + length /\ UNCHANGED received
    BY DEF HandleData
  <1>2. /\ UNCHANGED <<connected, unfinished, count>> /\ frame # NoFrame
    BY DEF HandleData
  <1>3. /\ IF Fits(frame) /\ offset + length = frame.size
           THEN Complete(frame.op, Filled(frame.size, frame.id))
           ELSE UNCHANGED <<peerClose, delivered>>
        /\ incoming' \in Seq(0 .. MaxFrames) /\ Len(incoming') <= Limit
        /\ incomingOp' \in Ops \union {"none"}
        /\ Fits(frame) /\ offset + length # frame.size =>
              /\ Len(incoming') = frame.size /\ incomingOp' = frame.op
              /\ \A i \in 1 .. offset + length : incoming'[i] = frame.id
    BY <1>1, <1>2, PartStep
  <1>4. /\ frame \in Frames /\ frame.op \in Ops /\ frame.size \in Nat
        /\ frame.id \in 0 .. MaxFrames
        /\ offset \in 0 .. frame.size /\ length \in Nat
        /\ Limit \in Nat
    BY <1>2, LimitAssumption DEF TypeInv, Frames
  <1> DEFINE payload == Filled(frame.size, frame.id)
  <1>5. payload \in Seq(0 .. MaxFrames) /\ Len(payload) = frame.size
        /\ \A i \in 1 .. frame.size : payload[i] = frame.id
    BY <1>4, FilledSeq
  <1> HIDE DEF payload
  <1>6. peerClose' \in 0 .. MaxFrames
    <2>1. peerClose \in 0 .. MaxFrames
      BY DEF TypeInv
    <2>2. CASE UNCHANGED peerClose
      BY <2>1, <2>2
    <2>3. CASE peerClose' = IF Len(payload) > 0 THEN payload[1] ELSE 0
      BY <1>4, <1>5, <2>3, LimitAssumption
    <2>4. QED
      BY <1>3, <2>2, <2>3 DEF Complete, payload
  <1>7. TypeInv'
    <2>1. NoFrame \in Frames /\ NoFrame.op = "none" /\ NoFrame.size = 0
      BY LimitAssumption DEF NoFrame, Frames
    <2>2. frame' \in Frames /\ offset' \in 0 .. frame'.size
          /\ (frame'.op = "none" <=> frame' = NoFrame)
      BY <1>1, <1>4, <2>1 DEF TypeInv
    <2>3. QED
      BY <1>2, <1>3, <1>6, <2>2 DEF TypeInv
  <1>8. BufferInv'
    <2>1. SUFFICES ASSUME frame' # NoFrame PROVE BufferInv'
      BY DEF BufferInv
    <2>2. offset + length # frame.size /\ frame' = frame /\ offset' = offset + length
      BY <1>1, <2>1
    <2>3. QED
      BY <1>3, <2>2 DEF BufferInv, Fits, TooLong
  <1>9. DeliveredInv'
    <2>1. /\ received \in Seq(Frames) /\ delivered \in Seq(Messages)
          /\ Len(delivered) = Len(received)
          /\ \A i \in DOMAIN received :
                delivered[i] = [op |-> received[i].op,
                                payload |-> Filled(received[i].size, received[i].id)]
      BY DEF DeliveredInv, DeliversFrames
    <2>2. CASE frame.op \in DataOps /\ frame.size <= Limit /\ offset + length = frame.size
      <3>1. received' = Append(received, frame)
        BY <1>1, <2>2
      <3>2. Fits(frame) /\ frame.op # "close"
        BY <1>4, <2>2 DEF Fits, TooLong, DataOps
      <3>3. delivered' = Append(delivered, [op |-> frame.op, payload |-> payload])
        BY <1>3, <2>2, <3>2 DEF Complete, payload
      <3>4. [op |-> frame.op, payload |-> payload] \in Messages
        BY <1>5, <2>2 DEF Messages
      <3>5. received' \in Seq(Frames) /\ delivered' \in Seq(Messages)
            /\ Len(received') = Len(received) + 1 /\ Len(delivered') = Len(delivered) + 1
        BY <1>4, <2>1, <3>1, <3>3, <3>4
      <3>6. ASSUME NEW i \in DOMAIN received'
            PROVE  delivered'[i] = [op |-> received'[i].op,
                                    payload |-> Filled(received'[i].size, received'[i].id)]
        <4>1. i \in 1 .. Len(received) + 1 /\ Len(received) \in Nat
          BY <2>1, <3>5, <3>6
        <4>2. CASE i \in 1 .. Len(received)
          BY <2>1, <3>1, <3>3, <4>2
        <4>3. CASE i = Len(received) + 1
          <5>1. received'[i] = frame
            BY <2>1, <3>1, <4>1, <4>3
          <5>2. delivered'[i] = [op |-> frame.op, payload |-> payload]
            BY <2>1, <3>3, <4>1, <4>3
          <5>3. QED
            BY <5>1, <5>2 DEF payload
        <4>4. QED
          BY <4>1, <4>2, <4>3
      <3>7. QED
        BY <2>1, <3>5, <3>6 DEF DeliveredInv, DeliversFrames
    <2>3. CASE ~(frame.op \in DataOps /\ frame.size <= Limit /\ offset + length = frame.size)
      <3>1. UNCHANGED received
        BY <1>1, <2>3
      <3>2. Fits(frame) /\ offset + length = frame.size => frame.op = "close"
        BY <1>4, <2>3 DEF Fits, TooLong
      <3>3. UNCHANGED delivered
        BY <1>3, <3>2 DEF Complete
      <3>4. QED
        BY <3>1, <3>3 DEF DeliveredInv, DeliversFrames
    <2>4. QED
      BY <2>2, <2>3
  <1>10. QED
    BY <1>7, <1>8, <1>9

-----------------------------------------------------------------------------
(* The properties *)

\* Every reachable state satisfies the invariant.
THEOREM Invariant == Spec => []Inv
  <1>1. Inv /\ Next => Inv'
    BY LinkStep, PeerStep, DataStep DEF Next
  <1>2. Inv /\ UNCHANGED vars => Inv'
    BY DEF Inv, TypeInv, BufferInv, DeliveredInv, DeliversFrames, vars
  <1>3. QED
    BY InitInv, <1>1, <1>2, PTL DEF Spec

\* The state is well typed, and the buffer never longer than the limit.
THEOREM TypeCorrect == Spec => []TypeOK
  <1>1. ASSUME Inv PROVE TypeOK
    <2>1. \A i \in DOMAIN incoming : incoming[i] \in 0 .. MaxFrames
      BY <1>1, ElementOf DEF Inv, TypeInv
    <2>2. offset \in 0 .. MaxSize
      BY <1>1, LimitAssumption DEF Inv, TypeInv, Frames
    <2>3. QED
      BY <1>1, <2>1, <2>2 DEF Inv, TypeInv, Frames, TypeOK
  <1>2. QED
    BY Invariant, <1>1, PTL

\* Every text or binary frame within the limit that is read to its end reaches
\* the sink once, in order and unaltered.
THEOREM FramesDelivered == Spec => []DeliversFrames
  <1>1. Inv => DeliversFrames
    BY DEF Inv, DeliveredInv
  <1>2. QED
    BY Invariant, <1>1, PTL

-----------------------------------------------------------------------------
(* The abstract stream *)

\* A frame is in progress on a link only.
LinkInv == frame # NoFrame => connected

\* No step leaves a frame behind its link.
LEMMA LinkNext == LinkInv /\ [Next]_vars => LinkInv'
  BY DEF LinkInv, Next, LinkUp, LinkLost, Disconnect, PeerSends, HandleData, vars

\* The message of a frame, in the stream's words.
LEMMA SameMessage ==
    Stream!Message(frame) = [op |-> frame.op, payload |-> Filled(frame.size, frame.id)]
  BY DEF Stream!Message, Filled

\* A part is the end of its frame for the stream, or invisible.
LEMMA DataIsEnd ==
    ASSUME Inv, LinkInv, HandleData
    PROVE  Stream!End \/ UNCHANGED <<connected, frame, delivered>>
  <1> USE DEF Inv
  <1>1. PICK length \in 0 .. frame.size - offset :
          /\ length = 0 => frame.size = 0
          /\ IF TooLong(frame.size) \/ frame.op \in {"ping", "continuation"}
             THEN UNCHANGED <<incoming, incomingOp, peerClose, delivered>>
             ELSE IF offset = 0 /\ length = frame.size
             THEN Complete(frame.op, Filled(frame.size, frame.id))
                  /\ UNCHANGED <<incoming, incomingOp>>
             ELSE Reassemble(length)
          /\ IF offset + length = frame.size THEN frame' = NoFrame ELSE frame' = frame
    BY DEF HandleData
  <1>2. connected' = connected /\ connected /\ frame # NoFrame
    BY DEF HandleData, LinkInv
  <1>3. IF Fits(frame) /\ offset + length = frame.size
        THEN Complete(frame.op, Filled(frame.size, frame.id))
        ELSE UNCHANGED <<peerClose, delivered>>
    BY <1>1, <1>2, PartStep
  <1>4. CASE offset + length # frame.size
    BY <1>1, <1>2, <1>3, <1>4
  <1>5. CASE offset + length = frame.size
    <2>1. frame.size \in Nat /\ Limit \in Nat
      BY LimitAssumption DEF TypeInv, Frames
    <2>2. Stream!Passes(frame) <=> Fits(frame) /\ frame.op # "close"
      BY <2>1 DEF Stream!Passes, Fits, TooLong, DataOps
    <2>3. delivered' = IF Stream!Passes(frame) THEN Append(delivered, Stream!Message(frame))
                                                ELSE delivered
      BY <1>3, <1>5, <2>2, SameMessage DEF Complete
    <2>4. QED
      BY <1>1, <1>2, <1>5, <2>3 DEF Stream!End
  <1>6. QED
    BY <1>4, <1>5

\* A new frame is one of the stream's.
LEMMA PeerIsBegin == ASSUME Inv, PeerSends PROVE Stream!Begin
  <1>1. PICK op \in Ops, fin \in BOOLEAN, size \in 0 .. MaxSize :
           frame' = [op |-> op, fin |-> fin, size |-> size, id |-> count + 1]
    BY DEF PeerSends
  <1>2. connected /\ frame = NoFrame /\ UNCHANGED <<connected, delivered>>
    BY DEF PeerSends
  <1>3. count + 1 \in 1 .. MaxFrames
    BY LimitAssumption DEF PeerSends, Inv, TypeInv
  <1>4. frame' \in [op : Ops, fin : BOOLEAN, size : 0 .. MaxSize, id : 1 .. MaxFrames]
    BY <1>1, <1>3
  <1>5. QED
    BY <1>2, <1>4 DEF Stream!Begin

\* A link that comes up or ends does the same for the stream.
LEMMA LinkIsOpenOrClose ==
    /\ LinkUp => Stream!Open
    /\ LinkLost \/ Disconnect => Stream!Close
  BY DEF LinkUp, LinkLost, Disconnect, Stream!Open, Stream!Close

\* The data path implements the stream of whole frames, for any limit, any sizes
\* and any cut into parts.
THEOREM FramesImplementStream == Spec => ImplementsStream
  <1>1. Init => LinkInv
    BY DEF Init, LinkInv
  <1>2. Init => Stream!Init
    BY DEF Init, Stream!Init
  <1>3. ASSUME Inv, LinkInv, Next
        PROVE  Stream!Next \/ UNCHANGED Stream!streamVars
    BY <1>3, LinkIsOpenOrClose, PeerIsBegin, DataIsEnd DEF Next, Stream!Next, Stream!streamVars
  <1>4. UNCHANGED vars => UNCHANGED Stream!streamVars
    BY DEF vars, Stream!streamVars
  <1>5. Inv /\ LinkInv /\ [Next]_vars => [Stream!Next]_(Stream!streamVars)
    BY <1>3, <1>4
  <1>6. QED
    BY <1>1, <1>2, <1>5, LinkNext, Invariant, PTL DEF Spec, ImplementsStream, Stream!Spec

=============================================================================
