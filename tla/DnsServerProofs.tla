-------------------------- MODULE DnsServerProofs --------------------------
(***************************************************************************)
(* Proofs about DnsServer for any set of threads, any packets and any      *)
(* limits.                                                                 *)
(*                                                                         *)
(* QuietAfterStop is not inductive: it needs to be known who may still     *)
(* open the socket, and that an open socket without a listening server has *)
(* a call on its way (SocketInv).  The decoder ends because a pointer      *)
(* spends one of JumpLimit jumps and a label moves the cursor towards the  *)
(* end of the packet (DecoderInv).  The question is echoed up to the first *)
(* byte on the decoder's way that is no label (QuestionInv), and its reply *)
(* leaves once (ReplyInv).  Its name grows with the labels on the way      *)
(* (LengthInv), its response with the answers (AnswerInv); that their      *)
(* totals grow with them is shown by induction, from the least number that *)
(* would be an exception.                                                  *)
(***************************************************************************)
EXTENDS DnsServer, WellFoundedInduction, TLAPS

\* The TCP/IP thread only ever works on packets of an open socket; an open
\* socket belongs to a listening server, or to a call that is about to store
\* that or to close it again; after a Stop nobody is about to open one.
SocketInv ==
    /\ rpc # "idle" => pcb
    /\ pcb /\ ~unstopped => listening \/ \E t \in AppThreads : tpc[t] \in {"listen", "stop"}
    /\ quiet => \A t \in AppThreads : tpc[t] \notin {"started", "start", "listen"}
    /\ quiet /\ ~unstopped => ~pcb

\* Every round of the decoder's loop spends a jump or bytes of the packet.
DecoderInv ==
    /\ rpc \in {"idle", "received"} => outputLength = 0 /\ jumps = 0 /\ path = <<>>
    /\ rpc = "decode" =>
          /\ outputLength <= NameLimit /\ jumps <= JumpLimit
          /\ cursor <= Len(packet) /\ encodedEnd <= Len(packet)
          /\ Len(path) <= jumps * Len(packet) + cursor
    /\ rpc = "dispatch" =>
          /\ outputLength <= NameLimit
          /\ cursor <= Len(packet) /\ encodedEnd <= Len(packet)
          /\ Len(path) <= (JumpLimit + 1) * Len(packet)

-----------------------------------------------------------------------------
(* Bytes and types *)

\* A position inside the packet holds a byte.
LEMMA AtType ==
    ASSUME TypeOK, NEW i \in Nat, i < Len(packet)
    PROVE  At(i) \in Nat /\ At(i) <= 255
  <1>1. packet \in Seq(Byte)
    BY DEF TypeOK
  <1>2. i + 1 \in 1 .. Len(packet)
    BY <1>1
  <1>3. packet[i + 1] \in Byte
    BY <1>1, <1>2
  <1>4. \A b \in Byte : b \in Nat /\ b <= 255
    BY DEF Byte
  <1>5. QED
    BY <1>3, <1>4 DEF At

\* A pointer that the decoder follows is a position inside the packet, and its
\* two bytes lie there.
LEMMA PointerType ==
    ASSUME TypeOK, cursor < Len(packet), MayJump
    PROVE  /\ Pointer \in Nat /\ Pointer < Len(packet)
           /\ cursor + 2 <= Len(packet) /\ jumps < JumpLimit
  <1>1. cursor \in Nat /\ Len(packet) \in Nat
    BY DEF TypeOK
  <1>2. At(cursor) \in Nat /\ At(cursor + 1) \in Nat
    BY <1>1, AtType DEF MayJump
  <1>3. At(cursor) % 64 \in Nat
    BY <1>2
  <1>4. Pointer \in Nat
    BY <1>2, <1>3 DEF Pointer
  <1>5. cursor + 1 < Len(packet) /\ jumps < JumpLimit /\ Pointer < Len(packet)
    BY Zenon DEF MayJump
  <1>6. cursor + 2 <= Len(packet)
    BY <1>1, <1>5
  <1>7. QED
    BY <1>4, <1>5, <1>6, Zenon

\* The initial state is well typed.
LEMMA TypeInit == Init => TypeOK
  <1> SUFFICES ASSUME Init PROVE TypeOK
    OBVIOUS
  <1>1. given \in Seq(AnswerSizes)
    BY DEF Init
  <1>2. replies \in Seq([size : Nat, answers : Nat]) /\ path \in Seq(Nat) /\ packet \in Seq(Byte)
    BY DEF Init
  <1>3. QED
    BY <1>1, <1>2 DEF Init, TypeOK, ThreadPcs

\* The application's calls keep the types.
LEMMA TypeCall == ASSUME TypeOK, NEW t \in AppThreads, Call(t) PROVE TypeOK'
  <1> USE DEF TypeOK, ThreadPcs, Goto, LeaveStop, OnTcpipThread, receiveVars, serverVars,
              decoderVars, responseVars
  <1>1. CASE InitializeCheck(t)
    BY <1>1 DEF InitializeCheck
  <1>2. CASE InitializeStore(t)
    BY <1>2 DEF InitializeStore
  <1>3. CASE StartCheck(t)
    BY <1>3 DEF StartCheck
  <1>4. CASE StartDispatcher(t)
    BY <1>4 DEF StartDispatcher
  <1>5. CASE StartOnTcpipThread(t)
    BY <1>5 DEF StartOnTcpipThread
  <1>6. CASE StartListens(t)
    BY <1>6 DEF StartListens
  <1>7. CASE \E reset \in BOOLEAN : Stop(t, reset)
    BY <1>7 DEF Stop
  <1>8. CASE StopOnTcpipThread(t)
    BY <1>8 DEF StopOnTcpipThread
  <1>9. CASE ApiCallFails(t)
    BY <1>9 DEF ApiCallFails
  <1>10. CASE ResetClears(t)
    BY <1>10 DEF ResetClears
  <1>11. QED
    BY <1>1, <1>2, <1>3, <1>4, <1>5, <1>6, <1>7, <1>8, <1>9, <1>10 DEF Call

\* So does the TCP/IP thread.
LEMMA TypeReceive == TypeOK /\ Receive => TypeOK'
  <1> SUFFICES ASSUME TypeOK, Receive PROVE TypeOK'
    OBVIOUS
  <1> USE DEF TypeOK, appVars, threadVars, serverVars, decoderVars, responseVars
  <1>1. CASE \E p \in Packets : ReceivePacket(p)
    BY <1>1, PacketAssumption DEF ReceivePacket
  <1>2. CASE LoadDispatcher
    BY <1>2, SizeAssumption DEF LoadDispatcher
  <1>3. CASE DropPacket \/ DecodeFails \/ DispatchReturns
    <2>1. Release /\ UNCHANGED appVars
      BY <1>3 DEF DropPacket, DecodeFails, DispatchReturns, SendFormatError
    <2>2. UNCHANGED <<listening, dispatcher, pcb, tpc, resetting, quiet, unstopped>>
      BY <2>1
    <2>3. given' \in Seq(AnswerSizes)
      BY <2>1 DEF Release
    <2>4. replies' \in Seq([size : Nat, answers : Nat]) /\ path' \in Seq(Nat) /\ packet' \in Seq(Byte)
      BY <2>1 DEF Release
    <2>5. QED
      BY <2>1, <2>2, <2>3, <2>4 DEF Release
  <1>4. CASE DecodeLabel
    <2>1. CASE MayJump /\ FollowPointer
      BY <1>4, <2>1, PointerType DEF DecodeLabel, FollowPointer
    <2>2. CASE MayCopy /\ CopyLabel
      <3>1. At(cursor) \in Nat
        BY <1>4, AtType DEF DecodeLabel
      <3>2. QED
        BY <1>4, <2>2, <3>1 DEF DecodeLabel, CopyLabel, LabelStart
    <2>3. QED
      BY <1>4, <2>1, <2>2 DEF DecodeLabel
  <1>5. CASE DecodeDone
    BY <1>5, SizeAssumption DEF DecodeDone, NameEnd
  <1>6. CASE \E required \in AnswerSizes : AddAddressAnswer(required)
    BY <1>6, SizeAssumption DEF AddAddressAnswer
  <1>7. CASE Complete
    BY <1>7 DEF Complete
  <1>8. CASE Abort
    BY <1>8 DEF Abort
  <1>9. QED
    BY <1>1, <1>2, <1>3, <1>4, <1>5, <1>6, <1>7, <1>8 DEF Receive

\* No step breaks the types.
LEMMA TypeNext == TypeOK /\ [Next]_vars => TypeOK'
  <1>1. TypeOK /\ UNCHANGED vars => TypeOK'
    BY DEF TypeOK, vars, threadVars, serverVars, receiveVars, decoderVars, responseVars
  <1>2. QED
    BY <1>1, TypeCall, TypeReceive DEF Next

\* The variables keep their types, for every instance.
THEOREM TypeCorrect == Spec => []TypeOK
  BY TypeInit, TypeNext, PTL DEF Spec

-----------------------------------------------------------------------------
(* Stop *)

\* The application's calls keep SocketInv.
LEMMA SocketCall ==
    ASSUME TypeOK, SocketInv, NEW t \in AppThreads, Call(t) PROVE SocketInv'
  <1> USE DEF Goto, LeaveStop, OnTcpipThread, receiveVars, serverVars, ThreadPcs
  <1>1. CASE InitializeCheck(t)
    BY <1>1 DEF InitializeCheck, TypeOK, SocketInv
  <1>2. CASE InitializeStore(t)
    BY <1>2 DEF InitializeStore, TypeOK, SocketInv
  <1>3. CASE StartCheck(t)
    BY <1>3 DEF StartCheck, TypeOK, SocketInv
  <1>4. CASE StartDispatcher(t)
    BY <1>4 DEF StartDispatcher, TypeOK, SocketInv
  <1>5. CASE StartOnTcpipThread(t)
    BY <1>5 DEF StartOnTcpipThread, TypeOK, SocketInv
  <1>6. CASE StartListens(t)
    BY <1>6 DEF StartListens, TypeOK, SocketInv
  <1>7. CASE \E reset \in BOOLEAN : Stop(t, reset)
    <2>1. PICK reset \in BOOLEAN : Stop(t, reset)
      BY <1>7
    <2>2. tpc \in [AppThreads -> ThreadPcs] /\ UNCHANGED <<pcb, rpc, unstopped>>
      BY <2>1 DEF Stop, TypeOK
    <2>3. CASE listening
      <3>1. tpc' = [tpc EXCEPT ![t] = "stop"] /\ UNCHANGED quiet
        BY <2>1, <2>3 DEF Stop
      <3>2. QED
        BY <2>2, <3>1 DEF SocketInv
    <2>4. CASE ~listening
      <3>1. /\ tpc[t] = "idle" /\ ~listening'
            /\ \E pc \in {"idle", "clear"} : tpc' = [tpc EXCEPT ![t] = pc]
            /\ quiet' = (quiet \/ \A u \in AppThreads \ {t} : tpc[u] = "idle")
        BY <2>1, <2>4 DEF Stop
      <3>2. \A u \in AppThreads : tpc[u] \in {"started", "start", "listen", "stop"} =>
               u # t /\ tpc'[u] = tpc[u]
        BY <2>2, <3>1
      <3>3. pcb /\ ~unstopped => \E u \in AppThreads : tpc[u] \in {"listen", "stop"}
        BY <2>4 DEF SocketInv
      <3>4. \A u \in AppThreads : tpc'[u] \in {"started", "start", "listen"} => tpc'[u] = tpc[u]
        BY <2>2, <3>1
      <3>5. quiet' => \A u \in AppThreads : tpc'[u] \notin {"started", "start", "listen"}
        BY <3>1, <3>2, <3>4 DEF SocketInv
      <3>6. quiet' /\ ~unstopped => ~pcb
        BY <3>1, <3>2, <3>3 DEF SocketInv
      <3>7. pcb /\ ~unstopped => \E u \in AppThreads : tpc'[u] \in {"listen", "stop"}
        BY <3>2, <3>3
      <3>8. rpc # "idle" => pcb
        BY DEF SocketInv
      <3>9. QED
        BY <2>2, <3>5, <3>6, <3>7, <3>8 DEF SocketInv
    <2>5. QED
      BY <2>3, <2>4
  <1>8. CASE StopOnTcpipThread(t)
    BY <1>8 DEF StopOnTcpipThread, TypeOK, SocketInv
  <1>9. CASE ApiCallFails(t)
    <2>1. UNCHANGED <<listening, pcb, rpc>> /\ tpc \in [AppThreads -> ThreadPcs]
      BY <1>9 DEF ApiCallFails, TypeOK
    <2>2. CASE tpc[t] = "start" /\ Goto(t, "idle") /\ UNCHANGED <<unstopped, quiet>>
      BY <2>1, <2>2 DEF SocketInv
    <2>3. CASE tpc[t] = "stop" /\ unstopped' = TRUE /\ LeaveStop(t, resetting[t])
      BY <2>1, <2>3 DEF SocketInv
    <2>4. QED
      BY <1>9, <2>2, <2>3 DEF ApiCallFails
  <1>10. CASE ResetClears(t)
    BY <1>10 DEF ResetClears, TypeOK, SocketInv
  <1>11. QED
    BY <1>1, <1>2, <1>3, <1>4, <1>5, <1>6, <1>7, <1>8, <1>9, <1>10 DEF Call

\* The TCP/IP thread leaves the socket and the calls alone, and takes a packet
\* from an open socket only.
LEMMA SocketReceive == SocketInv /\ Receive => SocketInv'
  <1> SUFFICES ASSUME SocketInv, Receive PROVE SocketInv'
    OBVIOUS
  <1>1. UNCHANGED appVars /\ (rpc' # "idle" => pcb)
    BY DEF Receive, ReceivePacket, LoadDispatcher, DropPacket, DecodeLabel, DecodeDone,
       DecodeFails, AddAddressAnswer, Complete, Abort, DispatchReturns, SendFormatError,
       Release, SocketInv
  <1>2. UNCHANGED <<tpc, listening, pcb, quiet, unstopped>>
    BY <1>1 DEF appVars, threadVars, serverVars
  <1>3. QED
    BY <1>1, <1>2 DEF SocketInv

\* After a Stop that nothing crossed, the socket is closed and the dispatcher
\* does not run, however many threads use the server.
THEOREM StopIsQuiet == Spec => []QuietAfterStop
  <1>1. Init => SocketInv
    BY DEF Init, SocketInv
  <1>2. TypeOK /\ SocketInv /\ [Next]_vars => SocketInv'
    <2>1. SocketInv /\ UNCHANGED vars => SocketInv'
      BY DEF SocketInv, vars, threadVars, serverVars, receiveVars
    <2>2. QED
      BY <2>1, SocketCall, SocketReceive DEF Next
  <1>3. SocketInv => QuietAfterStop
    BY DEF SocketInv, QuietAfterStop
  <1>4. QED
    BY <1>1, <1>2, <1>3, TypeCorrect, PTL DEF Spec

-----------------------------------------------------------------------------
(* The decoder *)

\* The bound on the rounds grows with the jumps made.
LEMMA RoundsBound ==
    ASSUME NEW j \in Nat, NEW l \in Nat, j <= JumpLimit
    PROVE  j * l + l <= (JumpLimit + 1) * l /\ j * l \in Nat
  <1>1. JumpLimit \in Nat
    BY SizeAssumption
  <1>2. PICK k \in Nat : JumpLimit = j + k
    <2>1. JumpLimit - j \in Nat /\ JumpLimit = j + (JumpLimit - j)
      BY <1>1
    <2>2. QED
      BY <2>1
  <1>3. j * l \in Nat /\ k * l \in Nat
    OBVIOUS
  <1>4. (JumpLimit + 1) * l = j * l + k * l + l
    BY <1>2
  <1>5. QED
    BY <1>3, <1>4

\* One round of the loop keeps the bounds.
LEMMA DecoderLabel == ASSUME TypeOK, DecoderInv, DecodeLabel PROVE DecoderInv'
  <1> DEFINE L == Len(packet)
  <1>1. /\ rpc = "decode" /\ rpc' = "decode" /\ cursor < L
        /\ packet' = packet /\ path' = Append(path, cursor)
    BY DEF DecodeLabel
  <1>2. /\ cursor \in Nat /\ jumps \in Nat /\ L \in Nat /\ outputLength \in Nat
        /\ encodedEnd \in Nat /\ path \in Seq(Nat) /\ Len(path) \in Nat
    BY DEF TypeOK
  <1>3. Len(path') = Len(path) + 1
    BY <1>1, <1>2
  <1>4. /\ outputLength <= NameLimit /\ jumps <= JumpLimit
        /\ encodedEnd <= L /\ Len(path) <= jumps * L + cursor
    BY <1>1 DEF DecoderInv
  <1>5. jumps * L \in Nat
    BY <1>2
  <1>6. CASE MayJump /\ FollowPointer
    <2>1. /\ Pointer \in Nat /\ Pointer < L
          /\ cursor + 2 <= L /\ jumps < JumpLimit
      BY <1>1, <1>6, PointerType
    <2>2. /\ jumps' = jumps + 1 /\ cursor' = Pointer /\ outputLength' = outputLength
          /\ encodedEnd' \in {encodedEnd, cursor + 2}
      BY <1>6 DEF FollowPointer
    <2>3. (jumps + 1) * L = jumps * L + L
      BY <1>2
    <2>4. Len(path') <= jumps' * L + cursor'
      BY <1>2, <1>3, <1>4, <1>5, <2>1, <2>2, <2>3
    <2>5. jumps' <= JumpLimit /\ cursor' <= L /\ encodedEnd' <= L
      BY <1>2, <1>4, <2>1, <2>2, SizeAssumption
    <2>6. QED
      BY <1>1, <1>4, <2>2, <2>4, <2>5 DEF DecoderInv
  <1>7. CASE MayCopy /\ CopyLabel
    <2>1. At(cursor) \in Nat
      BY <1>1, <1>2, AtType
    <2>2. /\ At(cursor) \in 1 .. 63
          /\ cursor + 1 + At(cursor) <= L /\ LabelStart + At(cursor) <= NameLimit
      BY <1>7 DEF MayCopy, IsLabel
    <2>3. /\ jumps' = jumps /\ cursor' = cursor + 1 + At(cursor)
          /\ outputLength' = LabelStart + At(cursor)
          /\ encodedEnd' \in {encodedEnd, cursor'}
      BY <1>7 DEF CopyLabel
    <2>4. Len(path') <= jumps' * L + cursor'
      BY <1>2, <1>3, <1>4, <1>5, <2>1, <2>2, <2>3
    <2>5. outputLength' <= NameLimit /\ cursor' <= L /\ encodedEnd' <= L
      BY <1>4, <2>2, <2>3
    <2>6. QED
      BY <1>1, <1>4, <2>3, <2>4, <2>5 DEF DecoderInv
  <1>8. QED
    BY <1>6, <1>7 DEF DecodeLabel

\* The last round, which finds the end of the name, keeps them too.
LEMMA DecoderDone == ASSUME TypeOK, DecoderInv, DecodeDone PROVE DecoderInv'
  <1> DEFINE L == Len(packet)
  <1>1. /\ rpc = "decode" /\ rpc' = "dispatch" /\ cursor < L
        /\ packet' = packet /\ path' = Append(path, cursor)
        /\ UNCHANGED <<cursor, outputLength, jumps>> /\ encodedEnd' = NameEnd
    BY DEF DecodeDone
  <1>2. /\ cursor \in Nat /\ jumps \in Nat /\ L \in Nat /\ encodedEnd \in Nat
        /\ path \in Seq(Nat) /\ Len(path) \in Nat
    BY DEF TypeOK
  <1>3. Len(path') = Len(path) + 1
    BY <1>1, <1>2
  <1>4. /\ outputLength <= NameLimit /\ jumps <= JumpLimit
        /\ encodedEnd <= L /\ Len(path) <= jumps * L + cursor
    BY <1>1 DEF DecoderInv
  <1>5. jumps * L \in Nat /\ jumps * L + L <= (JumpLimit + 1) * L
    BY <1>2, <1>4, RoundsBound
  <1>6. (JumpLimit + 1) * L \in Nat
    BY <1>2, SizeAssumption
  <1>7. Len(path') <= (JumpLimit + 1) * L
    BY <1>1, <1>2, <1>3, <1>4, <1>5, <1>6
  <1>8. NameEnd <= L /\ cursor <= L
    BY <1>1, <1>2, <1>4 DEF NameEnd
  <1>9. QED
    BY <1>1, <1>4, <1>7, <1>8 DEF DecoderInv

\* So does everything else.
LEMMA DecoderNext == TypeOK /\ DecoderInv /\ [Next]_vars => DecoderInv'
  <1> SUFFICES ASSUME TypeOK, DecoderInv, [Next]_vars PROVE DecoderInv'
    OBVIOUS
  <1>1. CASE UNCHANGED receiveVars
    BY <1>1 DEF receiveVars, decoderVars, DecoderInv
  <1>2. CASE \E t \in AppThreads : Call(t)
    <2>1. UNCHANGED receiveVars
      BY <1>2 DEF Call, InitializeCheck, InitializeStore, StartCheck, StartDispatcher,
         StartOnTcpipThread, StartListens, Stop, StopOnTcpipThread, ApiCallFails, ResetClears
    <2>2. QED
      BY <1>1, <2>1
  <1>3. CASE \E p \in Packets : ReceivePacket(p)
    BY <1>3 DEF ReceivePacket, DecoderInv, decoderVars
  <1>4. CASE LoadDispatcher
    <2>1. /\ rpc = "received" /\ rpc' = "decode" /\ packet' = packet
          /\ UNCHANGED <<outputLength, jumps, path>>
          /\ cursor' = HeaderSize /\ encodedEnd' = HeaderSize /\ HeaderSize <= Len(packet)
      BY <1>4 DEF LoadDispatcher, IsPlausible
    <2>2. outputLength = 0 /\ jumps = 0 /\ path = <<>> /\ Len(packet) \in Nat
      BY <2>1 DEF DecoderInv, TypeOK
    <2>3. Len(path') <= jumps' * Len(packet) + cursor'
      BY <2>1, <2>2, SizeAssumption
    <2>4. QED
      BY <2>1, <2>2, <2>3, SizeAssumption DEF DecoderInv
  <1>5. CASE DropPacket \/ DecodeFails \/ DispatchReturns
    <2>1. Release
      BY <1>5 DEF DropPacket, DecodeFails, DispatchReturns, SendFormatError
    <2>2. QED
      BY <2>1 DEF Release, DecoderInv
  <1>6. CASE (\E required \in AnswerSizes : AddAddressAnswer(required)) \/ Complete \/ Abort
    <2>1. UNCHANGED <<rpc, packet, decoderVars>>
      BY <1>6 DEF AddAddressAnswer, Complete, Abort
    <2>2. QED
      BY <2>1 DEF decoderVars, DecoderInv
  <1>7. CASE UNCHANGED vars
    BY <1>1, <1>7 DEF vars
  <1>8. QED
    BY <1>2, <1>3, <1>4, <1>5, <1>6, <1>7, DecoderLabel, DecoderDone DEF Next, Receive

\* Reading a name never leaves the packet or the name's buffer, and ends: for
\* every packet and every limit.
THEOREM DecoderIsBounded == Spec => []NameIsBounded
  <1>1. Init => DecoderInv
    BY DEF Init, DecoderInv
  <1>2. TypeOK /\ DecoderInv => NameIsBounded
    <2> SUFFICES ASSUME TypeOK, DecoderInv, rpc = "decode" PROVE NameIsBounded
      BY DEF DecoderInv, NameIsBounded
    <2>1. /\ cursor \in Nat /\ jumps \in Nat /\ Len(packet) \in Nat /\ Len(path) \in Nat
      BY DEF TypeOK
    <2>2. /\ jumps <= JumpLimit /\ cursor <= Len(packet)
          /\ Len(path) <= jumps * Len(packet) + cursor
      BY DEF DecoderInv
    <2>3. /\ jumps * Len(packet) \in Nat
          /\ jumps * Len(packet) + Len(packet) <= (JumpLimit + 1) * Len(packet)
      BY <2>1, <2>2, RoundsBound
    <2>4. (JumpLimit + 1) * Len(packet) \in Nat
      BY <2>1, SizeAssumption
    <2>5. Len(path) <= (JumpLimit + 1) * Len(packet)
      BY <2>1, <2>2, <2>3, <2>4
    <2>6. QED
      BY <2>5 DEF DecoderInv, NameIsBounded
  <1>3. QED
    BY <1>1, <1>2, DecoderNext, TypeCorrect, PTL DEF Spec

-----------------------------------------------------------------------------
(* The question and its reply *)

\* The first byte on the decoder's way that is no label.
FirstLeaf(m) == m \in Leaves /\ \A l \in Leaves : m <= l

\* The way begins with labels; the first pointer fixes the end of the question,
\* and nothing after it moves it.
QuestionInv ==
    /\ rpc \in {"idle", "received"} => path = <<>> /\ outputLength = 0 /\ ~jumped
    /\ rpc \in {"decode", "dispatch"} => (Labels = {} <=> outputLength = 0)
    /\ rpc = "decode" /\ ~jumped => Leaves = {}
    /\ rpc = "decode" /\ jumped =>
          \E m \in DOMAIN path :
              FirstLeaf(m) /\ At(path[m]) # 0 /\ encodedEnd = path[m] + 2
    /\ rpc = "dispatch" =>
          \E m \in DOMAIN path :
              /\ FirstLeaf(m)
              /\ encodedEnd = IF At(path[m]) = 0 THEN path[m] + 1 ELSE path[m] + 2

\* A response is sent by the Complete that completes it, and by nothing else.
ReplyInv ==
    /\ rpc # "dispatch" => ~completed
    /\ ~completed => replies = <<>>
    /\ rpc = "dispatch" =>
          /\ size <= MaxPacket
          /\ replies \in {<<>>, <<[size |-> size, answers |-> counted]>>}

\* A step on the way to the end of the name, and its place among the others.
LEMMA WayGrows ==
    ASSUME TypeOK, QuestionInv, cursor < Len(packet), rpc = "decode",
           packet' = packet, path' = Append(path, cursor)
    PROVE  /\ Len(path) + 1 \in DOMAIN path' /\ path'[Len(path) + 1] = cursor
           /\ \A m \in DOMAIN path : m \in DOMAIN path' /\ path'[m] = path[m] /\ m <= Len(path)
           /\ \A i : At(i)' = At(i)
           /\ Labels' = Labels \cup (IF IsLabel THEN {Len(path) + 1} ELSE {})
           /\ Leaves' = Leaves \cup (IF IsLabel THEN {} ELSE {Len(path) + 1})
  <1> DEFINE n == Len(path) + 1
  <1>1. path \in Seq(Nat) /\ cursor \in Nat /\ Len(path) \in Nat
    BY DEF TypeOK
  <1>2. DOMAIN path = 1 .. Len(path) /\ DOMAIN path' = DOMAIN path \cup {n}
    BY <1>1
  <1>3. path'[n] = cursor /\ \A m \in DOMAIN path : path'[m] = path[m]
    BY <1>1
  <1>4. n \notin DOMAIN path
    BY <1>1, <1>2
  <1>5. \A i : packet'[i + 1] = packet[i + 1]
    OBVIOUS
  <1>6. \A i \in DOMAIN path' : At(path[i])' = packet[path'[i] + 1]
    BY DEF At
  <1>7. \A i \in DOMAIN path : packet[path'[i] + 1] = At(path[i])
    BY <1>3 DEF At
  <1>8. packet[path'[n] + 1] = At(cursor)
    BY <1>3 DEF At
  <1>9. Labels' = {i \in DOMAIN path' : packet[path'[i] + 1] \in 1 .. 63}
    BY <1>6 DEF Labels
  <1>10. Labels' = Labels \cup (IF IsLabel THEN {n} ELSE {})
    BY <1>2, <1>4, <1>7, <1>8, <1>9 DEF Labels, IsLabel
  <1>11. Leaves' = Leaves \cup (IF IsLabel THEN {} ELSE {n})
    <2>1. Labels \subseteq DOMAIN path
      BY DEF Labels
    <2>2. Leaves' = DOMAIN path' \ Labels'
      BY DEF Leaves
    <2>3. QED
      BY <1>2, <1>4, <1>10, <2>1, <2>2 DEF Leaves
  <1>12. \A i : At(i)' = At(i)
    BY DEF At
  <1>13. \A m \in DOMAIN path : m <= Len(path)
    BY <1>1, <1>2
  <1>14. QED
    BY <1>2, <1>3, <1>10, <1>11, <1>12, <1>13

\* Rounds of the loop keep the question's bounds: a label is no leaf, a pointer
\* is one, and the first one fixes the end.
LEMMA QuestionLabel == ASSUME TypeOK, QuestionInv, DecodeLabel PROVE QuestionInv'
  <1>0. PICK n : n = Len(path) + 1
    OBVIOUS
  <1>1. /\ rpc = "decode" /\ rpc' = "decode" /\ cursor < Len(packet)
        /\ packet' = packet /\ path' = Append(path, cursor)
    BY DEF DecodeLabel
  <1>2. /\ n \in DOMAIN path' /\ path'[n] = cursor
        /\ \A m \in DOMAIN path : m \in DOMAIN path' /\ path'[m] = path[m] /\ m <= Len(path)
        /\ \A i : At(i)' = At(i)
        /\ Labels' = Labels \cup (IF IsLabel THEN {n} ELSE {})
        /\ Leaves' = Leaves \cup (IF IsLabel THEN {} ELSE {n})
    BY <1>0, <1>1, WayGrows
  <1>3. At(cursor) \in Nat /\ cursor \in Nat /\ outputLength \in Nat /\ Len(path) \in Nat
    BY <1>1, AtType DEF TypeOK
  <1>4. \A m \in Leaves : m \in DOMAIN path
    BY DEF Leaves
  <1>5. Labels = {} <=> outputLength = 0
    BY <1>1 DEF QuestionInv
  <1>6. CASE MayJump /\ FollowPointer
    <2>1. ~IsLabel /\ At(cursor) # 0
      <3>1. At(cursor) \div 64 = 3
        BY <1>6, Zenon DEF MayJump, IsPointer
      <3>2. \A b \in Nat : b \div 64 = 3 => b \notin 1 .. 63 /\ b # 0
        OBVIOUS
      <3>3. QED
        BY <1>3, <3>1, <3>2, Zenon DEF IsLabel
    <2>2. Labels' = Labels /\ Leaves' = Leaves \cup {n}
      BY <1>2, <2>1
    <2>3. /\ outputLength' = outputLength /\ jumped'
          /\ encodedEnd' = IF jumped THEN encodedEnd ELSE cursor + 2
      BY <1>6 DEF FollowPointer
    <2>4. \E m \in DOMAIN path' :
             FirstLeaf(m)' /\ At(path[m])' # 0 /\ encodedEnd' = path'[m] + 2
      <3>1. CASE jumped
        <4>1. PICK m \in DOMAIN path :
                 FirstLeaf(m) /\ At(path[m]) # 0 /\ encodedEnd = path[m] + 2
          BY <1>1, <3>1 DEF QuestionInv
        <4>2. m \in DOMAIN path' /\ path'[m] = path[m] /\ m <= n
          BY <1>0, <1>2, <1>3, <1>4, <4>1 DEF FirstLeaf
        <4>3. FirstLeaf(m)'
          BY <2>2, <4>1, <4>2 DEF FirstLeaf
        <4>4. At(path[m])' # 0
          BY <1>1, <4>1, <4>2 DEF At
        <4>5. QED
          BY <2>3, <3>1, <4>1, <4>2, <4>3, <4>4
      <3>2. CASE ~jumped
        <4>1. Leaves' = {n}
          BY <1>1, <2>2, <3>2 DEF QuestionInv
        <4>2. FirstLeaf(n)'
          BY <1>0, <1>3, <4>1 DEF FirstLeaf
        <4>3. At(path[n])' # 0
          BY <1>1, <1>2, <2>1 DEF At
        <4>4. QED
          BY <1>2, <2>3, <3>2, <4>2, <4>3
      <3>3. QED
        BY <3>1, <3>2
    <2>5. QED
      BY <1>1, <1>5, <2>2, <2>3, <2>4 DEF QuestionInv
  <1>7. CASE MayCopy /\ CopyLabel
    <2>1. IsLabel /\ At(cursor) >= 1
      <3>1. IsLabel
        BY <1>7, Zenon DEF MayCopy
      <3>2. \A b \in 1 .. 63 : b >= 1
        OBVIOUS
      <3>3. QED
        BY <3>1, <3>2, Zenon DEF IsLabel
    <2>2. Labels' # {} /\ Leaves' = Leaves
      BY <1>2, <2>1
    <2>3. /\ outputLength' = LabelStart + At(cursor) /\ jumped' = jumped
          /\ jumped => encodedEnd' = encodedEnd
      BY <1>7 DEF CopyLabel
    <2>4. outputLength' # 0
      BY <1>3, <2>1, <2>3 DEF LabelStart
    <2>5. ASSUME jumped
          PROVE  \E m \in DOMAIN path' :
                    FirstLeaf(m)' /\ At(path[m])' # 0 /\ encodedEnd' = path'[m] + 2
      <3>1. PICK m \in DOMAIN path :
               FirstLeaf(m) /\ At(path[m]) # 0 /\ encodedEnd = path[m] + 2
        BY <1>1, <2>5 DEF QuestionInv
      <3>2. m \in DOMAIN path' /\ path'[m] = path[m]
        BY <1>2
      <3>3. FirstLeaf(m)' /\ At(path[m])' # 0
        BY <1>1, <2>2, <3>1, <3>2 DEF FirstLeaf, At
      <3>4. QED
        BY <2>3, <2>5, <3>1, <3>2, <3>3
    <2>6. ~jumped => Leaves' = {}
      BY <1>1, <2>2 DEF QuestionInv
    <2>7. QED
      BY <1>1, <2>2, <2>3, <2>4, <2>5, <2>6 DEF QuestionInv
  <1>8. QED
    BY <1>6, <1>7 DEF DecodeLabel

\* The end of the name is a leaf, and the first one if there was no pointer.
LEMMA QuestionDone == ASSUME TypeOK, QuestionInv, DecodeDone PROVE QuestionInv'
  <1>0. PICK n : n = Len(path) + 1
    OBVIOUS
  <1>1. /\ rpc = "decode" /\ rpc' = "dispatch" /\ cursor < Len(packet)
        /\ packet' = packet /\ path' = Append(path, cursor) /\ At(cursor) = 0
        /\ outputLength' = outputLength
        /\ encodedEnd' = IF jumped THEN encodedEnd ELSE cursor + 1
    BY DEF DecodeDone, IsNamed, NameEnd
  <1>2. /\ n \in DOMAIN path' /\ path'[n] = cursor
        /\ \A m \in DOMAIN path : m \in DOMAIN path' /\ path'[m] = path[m] /\ m <= Len(path)
        /\ Labels' = Labels \cup (IF IsLabel THEN {n} ELSE {})
        /\ Leaves' = Leaves \cup (IF IsLabel THEN {} ELSE {n})
    BY <1>0, <1>1, WayGrows
  <1>3. Len(path) \in Nat
    BY DEF TypeOK
  <1>4. ~IsLabel
    BY <1>1 DEF IsLabel
  <1>5. Labels' = Labels /\ Leaves' = Leaves \cup {n}
    BY <1>2, <1>4
  <1>6. Labels' = {} <=> outputLength' = 0
    BY <1>1, <1>5 DEF QuestionInv
  <1>7. \E m \in DOMAIN path' :
           /\ FirstLeaf(m)'
           /\ encodedEnd' = IF At(path[m])' = 0 THEN path'[m] + 1 ELSE path'[m] + 2
    <2>1. CASE jumped
      <3>1. PICK m \in DOMAIN path :
               FirstLeaf(m) /\ At(path[m]) # 0 /\ encodedEnd = path[m] + 2
        BY <1>1, <2>1 DEF QuestionInv
      <3>2. m \in DOMAIN path' /\ path'[m] = path[m] /\ m <= n
        BY <1>0, <1>2, <1>3
      <3>3. FirstLeaf(m)'
        BY <1>5, <3>1, <3>2 DEF FirstLeaf
      <3>4. At(path[m])' # 0
        BY <1>1, <3>1, <3>2 DEF At
      <3>5. QED
        BY <1>1, <2>1, <3>1, <3>2, <3>3, <3>4
    <2>2. CASE ~jumped
      <3>1. Leaves' = {n}
        BY <1>1, <1>5, <2>2 DEF QuestionInv
      <3>2. FirstLeaf(n)'
        BY <1>0, <1>3, <3>1 DEF FirstLeaf
      <3>3. At(path[n])' = 0
        BY <1>1, <1>2 DEF At
      <3>4. QED
        BY <1>1, <1>2, <2>2, <3>2, <3>3
    <2>3. QED
      BY <2>1, <2>2
  <1>8. QED
    BY <1>1, <1>6, <1>7 DEF QuestionInv

\* No other step touches a question that is being answered.
LEMMA QuestionNext == TypeOK /\ QuestionInv /\ [Next]_vars => QuestionInv'
  <1> SUFFICES ASSUME TypeOK, QuestionInv, [Next]_vars PROVE QuestionInv'
    OBVIOUS
  <1>1. CASE UNCHANGED <<rpc, packet, decoderVars>>
    BY <1>1 DEF decoderVars, QuestionInv, Labels, Leaves, FirstLeaf, At
  <1>2. CASE UNCHANGED receiveVars
    BY <1>1, <1>2 DEF receiveVars
  <1>3. CASE \E t \in AppThreads : Call(t)
    <2>1. UNCHANGED receiveVars
      BY <1>3 DEF Call, InitializeCheck, InitializeStore, StartCheck, StartDispatcher,
         StartOnTcpipThread, StartListens, Stop, StopOnTcpipThread, ApiCallFails, ResetClears
    <2>2. QED
      BY <1>2, <2>1
  <1>4. CASE \E p \in Packets : ReceivePacket(p)
    BY <1>4 DEF ReceivePacket, QuestionInv, decoderVars
  <1>5. CASE LoadDispatcher
    <2>1. /\ rpc' = "decode" /\ path' = <<>> /\ outputLength' = 0 /\ ~jumped'
      BY <1>5 DEF LoadDispatcher, QuestionInv
    <2>2. Labels' = {} /\ Leaves' = {}
      BY <2>1 DEF Labels, Leaves
    <2>3. QED
      BY <2>1, <2>2 DEF QuestionInv
  <1>6. CASE DropPacket \/ DecodeFails \/ DispatchReturns
    <2>1. Release
      BY <1>6 DEF DropPacket, DecodeFails, DispatchReturns, SendFormatError
    <2>2. QED
      BY <2>1 DEF Release, QuestionInv
  <1>7. CASE (\E required \in AnswerSizes : AddAddressAnswer(required)) \/ Complete \/ Abort
    <2>1. UNCHANGED <<rpc, packet, decoderVars>>
      BY <1>7 DEF AddAddressAnswer, Complete, Abort
    <2>2. QED
      BY <1>1, <2>1
  <1>8. CASE UNCHANGED vars
    BY <1>2, <1>8 DEF vars
  <1>9. QED
    BY <1>3, <1>4, <1>5, <1>6, <1>7, <1>8, QuestionLabel, QuestionDone DEF Next, Receive

\* A reply leaves once, with what has been counted, and fits a packet.
LEMMA ReplyNext == TypeOK /\ ReplyInv /\ [Next]_vars => ReplyInv'
  <1> SUFFICES ASSUME TypeOK, ReplyInv, [Next]_vars PROVE ReplyInv'
    OBVIOUS
  <1>1. CASE UNCHANGED <<rpc, responseVars, replies>>
    BY <1>1 DEF responseVars, ReplyInv
  <1>2. CASE UNCHANGED receiveVars
    BY <1>1, <1>2 DEF receiveVars
  <1>3. CASE \E t \in AppThreads : Call(t)
    <2>1. UNCHANGED receiveVars
      BY <1>3 DEF Call, InitializeCheck, InitializeStore, StartCheck, StartDispatcher,
         StartOnTcpipThread, StartListens, Stop, StopOnTcpipThread, ApiCallFails, ResetClears
    <2>2. QED
      BY <1>2, <2>1
  <1>4. CASE (\E p \in Packets : ReceivePacket(p)) \/ LoadDispatcher \/ DecodeLabel
    <2>1. rpc # "dispatch" /\ rpc' # "dispatch" /\ UNCHANGED <<completed, replies>>
      BY <1>4 DEF ReceivePacket, LoadDispatcher, DecodeLabel, responseVars
    <2>2. QED
      BY <2>1 DEF ReplyInv
  <1>5. CASE DropPacket \/ DecodeFails \/ DispatchReturns
    <2>1. Release
      BY <1>5 DEF DropPacket, DecodeFails, DispatchReturns, SendFormatError
    <2>2. QED
      BY <2>1 DEF Release, ReplyInv
  <1>6. CASE DecodeDone
    <2>1. /\ ~completed /\ UNCHANGED <<completed, replies>>
          /\ size' <= MaxPacket
      BY <1>6 DEF DecodeDone, ReplyInv
    <2>2. QED
      BY <2>1 DEF ReplyInv
  <1>7. CASE \E required \in AnswerSizes : AddAddressAnswer(required)
    <2>1. /\ rpc = "dispatch" /\ ~completed /\ UNCHANGED <<rpc, completed, replies>>
          /\ size' <= MaxPacket
      BY <1>7 DEF AddAddressAnswer
    <2>2. QED
      BY <2>1 DEF ReplyInv
  <1>8. CASE Complete
    <2>1. /\ rpc = "dispatch" /\ ~completed /\ completed' /\ UNCHANGED <<rpc, size, counted>>
          /\ replies' = Append(replies, [size |-> size, answers |-> counted])
      BY <1>8 DEF Complete
    <2>2. replies = <<>> /\ size <= MaxPacket
      BY <2>1 DEF ReplyInv
    <2>3. replies' = <<[size |-> size, answers |-> counted]>>
      BY <2>1, <2>2
    <2>4. QED
      BY <2>1, <2>2, <2>3 DEF ReplyInv
  <1>9. CASE Abort
    BY <1>9 DEF Abort, ReplyInv
  <1>10. CASE UNCHANGED vars
    BY <1>2, <1>10 DEF vars
  <1>11. QED
    BY <1>3, <1>4, <1>5, <1>6, <1>7, <1>8, <1>9, <1>10 DEF Next, Receive

-----------------------------------------------------------------------------
(* Totals: what the recursive function in Total computes                      *)

\* Every set of numbers that is not empty has a least one.
LEMMA LeastNumber ==
    ASSUME NEW S \in SUBSET Nat, S # {}
    PROVE  \E m \in S : \A k \in S : m <= k
  <1>1. PICK m \in S : \A k \in S : <<k, m>> \notin OpToRel(<, Nat)
    BY WFMin, NatLessThanWellFounded, Zenon
  <1>2. \A k \in S : ~(k < m)
    BY <1>1 DEF OpToRel
  <1>3. QED
    BY <1>2

\* So a set that holds 0 and the successor of each of its numbers holds them all.
LEMMA Induction ==
    ASSUME NEW S, 0 \in S, \A n \in S \cap Nat : n + 1 \in S
    PROVE  \A n \in Nat : n \in S
  <1>1. SUFFICES ASSUME Nat \ S # {} PROVE FALSE
    OBVIOUS
  <1>2. PICK m \in Nat \ S : \A k \in Nat \ S : m <= k
    BY <1>1, LeastNumber
  <1>3. m # 0 /\ m - 1 \in Nat /\ ~(m <= m - 1)
    BY <1>2
  <1>4. m - 1 \in S
    BY <1>2, <1>3
  <1>5. QED
    BY <1>3, <1>4

\* f holds the totals of the first n members of s and of all its shorter beginnings.
Sums(f, s, n) ==
    /\ f \in [0 .. n -> Nat]
    /\ f[0] = 0
    /\ \A i \in 1 .. n : f[i] = f[i - 1] + s[i]

\* One member more is added to the last total.
LEMMA SumsExtend ==
    ASSUME NEW s, NEW n \in Nat, NEW f, Sums(f, s, n), s[n + 1] \in Nat
    PROVE  \E g : Sums(g, s, n + 1) /\ g[n + 1] = f[n] + s[n + 1]
  <1>1. PICK x \in Nat : x = s[n + 1]
    OBVIOUS
  <1>2. PICK g : g = [i \in 0 .. n + 1 |-> IF i = n + 1 THEN f[n] + x ELSE f[i]]
    OBVIOUS
  <1>3. /\ f \in [0 .. n -> Nat] /\ f[0] = 0
        /\ \A i \in 1 .. n : f[i] = f[i - 1] + s[i]
    BY DEF Sums
  <1>4. /\ g \in [0 .. n + 1 -> Nat] /\ g[n + 1] = f[n] + x
        /\ \A i \in 0 .. n : g[i] = f[i]
    BY <1>2, <1>3
  <1>5. ASSUME NEW i \in 1 .. n + 1 PROVE g[i] = g[i - 1] + s[i]
    <2>1. CASE i \in 1 .. n
      <3>1. i \in 0 .. n /\ i - 1 \in 0 .. n
        BY <2>1
      <3>2. QED
        BY <1>3, <1>4, <2>1, <3>1
    <2>2. CASE i = n + 1
      <3>1. i - 1 = n /\ n \in 0 .. n
        BY <2>2
      <3>2. QED
        BY <1>1, <1>4, <2>2, <3>1, Zenon
    <2>3. QED
      BY <2>1, <2>2
  <1>6. g[0] = 0
    BY <1>3, <1>4
  <1>7. QED
    BY <1>1, <1>4, <1>5, <1>6 DEF Sums

\* Every sequence of numbers has its totals.
LEMMA SumsExist ==
    ASSUME NEW s \in Seq(Nat)
    PROVE  \E f : Sums(f, s, Len(s))
  <1> DEFINE S == {n \in Nat : n <= Len(s) => \E f : Sums(f, s, n)}
  <1>1. 0 \in S
    <2>1. PICK f : f = [i \in 0 .. 0 |-> 0]
      OBVIOUS
    <2>2. f \in [0 .. 0 -> Nat] /\ f[0] = 0 /\ 1 .. 0 = {}
      BY <2>1
    <2>3. Sums(f, s, 0)
      BY <2>2 DEF Sums
    <2>4. QED
      BY <2>3
  <1>2. ASSUME NEW n \in S \cap Nat PROVE n + 1 \in S
    <2>1. SUFFICES ASSUME n + 1 <= Len(s) PROVE \E g : Sums(g, s, n + 1)
      OBVIOUS
    <2>2. n + 1 \in 1 .. Len(s) /\ n <= Len(s)
      BY <2>1
    <2>3. s[n + 1] \in Nat
      BY <2>2
    <2>4. PICK f : Sums(f, s, n)
      BY <1>2, <2>2
    <2>5. QED
      BY <2>3, <2>4, SumsExtend
  <1> HIDE DEF S
  <1>3. \A n \in Nat : n \in S
    BY <1>1, <1>2, Induction
  <1>4. Len(s) \in Nat /\ Len(s) <= Len(s)
    OBVIOUS
  <1>5. QED
    BY <1>3, <1>4 DEF S

\* The equation of the recursive function in Total.
Running(f, s) ==
    f = [i \in 0 .. Len(s) |-> IF i = 0 THEN 0 ELSE f[i - 1] + s[i]]

\* Its only solution is the function of the totals.
LEMMA RunningIsSums ==
    ASSUME NEW s \in Seq(Nat), NEW f, Sums(f, s, Len(s))
    PROVE  Running(f, s) /\ \A g : Running(g, s) => g = f
  <1>0. Len(s) \in Nat
    OBVIOUS
  <1>1. /\ f \in [0 .. Len(s) -> Nat] /\ f[0] = 0
        /\ \A i \in 1 .. Len(s) : f[i] = f[i - 1] + s[i]
    BY DEF Sums
  <1>2. \A i \in 0 .. Len(s) : i = 0 \/ i \in 1 .. Len(s)
    BY <1>0
  <1>3. \A i \in 0 .. Len(s) : f[i] = IF i = 0 THEN 0 ELSE f[i - 1] + s[i]
    BY <1>1, <1>2
  <1>4. Running(f, s)
    BY <1>1, <1>3 DEF Running
  <1>5. ASSUME NEW g, Running(g, s) PROVE g = f
    <2>1. /\ g = [i \in 0 .. Len(s) |-> g[i]]
          /\ \A i \in 0 .. Len(s) : g[i] = IF i = 0 THEN 0 ELSE g[i - 1] + s[i]
      BY <1>5 DEF Running
    <2> DEFINE S == {n \in Nat : n <= Len(s) => g[n] = f[n]}
    <2>2. 0 \in S
      <3>1. 0 \in 0 .. Len(s)
        BY <1>0
      <3>2. QED
        BY <1>1, <2>1, <3>1
    <2>3. ASSUME NEW n \in S \cap Nat PROVE n + 1 \in S
      <3>1. SUFFICES ASSUME n + 1 <= Len(s) PROVE g[n + 1] = f[n + 1]
        OBVIOUS
      <3>2. /\ n + 1 \in 0 .. Len(s) /\ n + 1 \in 1 .. Len(s) /\ n + 1 # 0
            /\ n <= Len(s)
        BY <1>0, <3>1
      <3>3. g[n] = f[n]
        BY <2>3, <3>2
      <3>4. PICK k : k = n + 1
        OBVIOUS
      <3>5. g[k] = g[k - 1] + s[k] /\ f[k] = f[k - 1] + s[k]
        BY <1>1, <2>1, <3>2, <3>4, Zenon
      <3>6. k - 1 = n
        BY <3>4
      <3>7. QED
        BY <3>3, <3>4, <3>5, <3>6, Zenon
    <2> HIDE DEF S
    <2>4. \A n \in Nat : n \in S
      BY <2>2, <2>3, Induction
    <2>5. \A i \in 0 .. Len(s) : i \in Nat /\ i <= Len(s)
      BY <1>0
    <2>6. \A i \in 0 .. Len(s) : g[i] = f[i]
      BY <2>4, <2>5 DEF S
    <2>7. QED
      BY <1>1, <2>1, <2>6
  <1>6. QED
    BY <1>4, <1>5

\* Total is the last of the totals.
LEMMA TotalIsLast ==
    ASSUME NEW s \in Seq(Nat), NEW f, Sums(f, s, Len(s))
    PROVE  Total(s) = f[Len(s)]
  <1>1. Running(f, s) /\ \A g : Running(g, s) => g = f
    BY RunningIsSums
  <1>2. QED
    BY <1>1 DEF Total, Running

\* The total of no numbers is 0.
LEMMA TotalEmpty == Total(<<>>) = 0
  <1>1. PICK s : s = <<>>
    OBVIOUS
  <1>2. s \in Seq(Nat) /\ Len(s) = 0
    BY <1>1
  <1>3. PICK f : Sums(f, s, Len(s))
    BY <1>2, SumsExist
  <1>4. f[Len(s)] = 0
    BY <1>2, <1>3 DEF Sums
  <1>5. QED
    BY <1>1, <1>2, <1>3, <1>4, TotalIsLast

\* A number more adds itself to the total.
LEMMA TotalAppend ==
    ASSUME NEW s \in Seq(Nat), NEW x \in Nat
    PROVE  Total(s) \in Nat /\ Total(Append(s, x)) = Total(s) + x
  <1>1. PICK n \in Nat : n = Len(s)
    OBVIOUS
  <1>2. PICK f : Sums(f, s, n)
    BY <1>1, SumsExist
  <1>3. Total(s) = f[n] /\ f[n] \in Nat
    <2>1. Total(s) = f[n]
      BY <1>1, <1>2, TotalIsLast
    <2>2. QED
      BY <1>2, <2>1 DEF Sums
  <1>4. PICK longer : longer = Append(s, x)
    OBVIOUS
  <1>5. /\ longer \in Seq(Nat) /\ Len(longer) = n + 1 /\ longer[n + 1] = x
        /\ \A i \in 1 .. n : longer[i] = s[i]
    BY <1>1, <1>4
  <1>6. Sums(f, longer, n)
    BY <1>2, <1>5 DEF Sums
  <1>7. PICK g : Sums(g, longer, n + 1) /\ g[n + 1] = f[n] + longer[n + 1]
    BY <1>5, <1>6, SumsExtend
  <1>8. Total(longer) = g[n + 1]
    BY <1>5, <1>7, TotalIsLast
  <1>9. QED
    BY <1>3, <1>4, <1>5, <1>7, <1>8

-----------------------------------------------------------------------------
(* The name and the answers *)

\* The name so far is the labels so far, with a dot behind each but the last.
LengthInv ==
    rpc \in {"decode", "dispatch"} =>
        Total(Shares) = IF outputLength = 0 THEN 0 ELSE outputLength + 1

\* The response is the question and the answers that it counts.
AnswerInv ==
    /\ counted = Len(given)
    /\ rpc # "dispatch" => given = <<>>
    /\ rpc = "dispatch" => size = encodedEnd + SuffixSize + Total(given)

\* The bytes on the decoder's way lie in the packet.
WayInv == rpc \in {"decode", "dispatch"} => \A i \in DOMAIN path : path[i] < Len(packet)

\* The shares of the labels are numbers.
LEMMA SharesType ==
    ASSUME TypeOK, WayInv, rpc \in {"decode", "dispatch"}
    PROVE  Shares \in Seq(Nat) /\ Len(Shares) = Len(path)
  <1>1. path \in Seq(Nat) /\ Len(path) \in Nat /\ DOMAIN path = 1 .. Len(path)
    BY DEF TypeOK
  <1>2. \A i \in DOMAIN path : At(path[i]) \in Nat
    <2>1. TAKE i \in DOMAIN path
    <2>2. path[i] \in Nat /\ path[i] < Len(packet)
      BY <1>1 DEF WayInv
    <2>3. QED
      BY <2>2, AtType
  <1>3. \A i \in 1 .. Len(path) : (IF i \in Labels THEN At(path[i]) + 1 ELSE 0) \in Nat
    BY <1>1, <1>2
  <1>4. Shares = [i \in 1 .. Len(path) |-> IF i \in Labels THEN At(path[i]) + 1 ELSE 0]
    BY <1>1 DEF Shares
  <1>5. Shares \in [1 .. Len(path) -> Nat]
    BY <1>3, <1>4
  <1>6. QED
    BY <1>1, <1>5

\* A step on the way appends its own share.
LEMMA SharesGrow ==
    ASSUME TypeOK, QuestionInv, WayInv, cursor < Len(packet), rpc = "decode",
           packet' = packet, path' = Append(path, cursor)
    PROVE  Shares' = Append(Shares, IF IsLabel THEN At(cursor) + 1 ELSE 0)
  <1>0. PICK n : n = Len(path)
    OBVIOUS
  <1>1. PICK share \in Nat : share = IF IsLabel THEN At(cursor) + 1 ELSE 0
    <2>1. At(cursor) \in Nat
      BY AtType DEF TypeOK
    <2>2. QED
      BY <2>1
  <1>2. n \in Nat /\ path \in Seq(Nat) /\ cursor \in Nat
    BY <1>0 DEF TypeOK
  <1>3. /\ DOMAIN path = 1 .. n /\ DOMAIN path' = 1 .. n + 1
        /\ path'[n + 1] = cursor
        /\ \A i \in 1 .. n : path'[i] = path[i]
    BY <1>0, <1>2
  <1>4. Labels' = Labels \cup (IF IsLabel THEN {n + 1} ELSE {})
    BY <1>0, WayGrows
  <1>5. Shares \in Seq(Nat) /\ Len(Shares) = n
    BY <1>0, SharesType
  <1>6. \A i \in 1 .. n : (i \in Labels' <=> i \in Labels) /\ At(path[i])' = At(path[i])
    BY <1>2, <1>3, <1>4 DEF At
  <1>7. n + 1 \in Labels' <=> IsLabel
    <2>1. n + 1 \notin Labels
      BY <1>2, <1>3 DEF Labels
    <2>2. QED
      BY <1>4, <2>1
  <1>8. PICK longer : longer = Append(Shares, share)
    OBVIOUS
  <1>9. /\ longer = [i \in 1 .. n + 1 |-> longer[i]]
        /\ longer[n + 1] = share /\ \A i \in 1 .. n : longer[i] = Shares[i]
    <2>1. longer \in Seq(Nat) /\ Len(longer) = n + 1
      BY <1>1, <1>5, <1>8
    <2>2. longer \in [1 .. n + 1 -> Nat]
      BY <2>1
    <2>3. longer[n + 1] = share /\ \A i \in 1 .. n : longer[i] = Shares[i]
      BY <1>1, <1>2, <1>5, <1>8
    <2>4. QED
      BY <2>2, <2>3
  <1>10. Shares' = [i \in 1 .. n + 1 |-> IF i \in Labels' THEN At(path[i])' + 1 ELSE 0]
    BY <1>3 DEF Shares
  <1>11. ASSUME NEW i \in 1 .. n + 1
         PROVE  longer[i] = IF i \in Labels' THEN At(path[i])' + 1 ELSE 0
    <2>1. CASE i \in 1 .. n
      <3>1. Shares[i] = IF i \in Labels THEN At(path[i]) + 1 ELSE 0
        BY <1>3, <2>1 DEF Shares
      <3>2. QED
        BY <1>6, <1>9, <2>1, <3>1
    <2>2. CASE i = n + 1
      <3>1. At(path[i])' = At(cursor)
        BY <1>3, <2>2 DEF At
      <3>2. QED
        BY <1>1, <1>7, <1>9, <2>2, <3>1, Zenon
    <2>3. i \in 1 .. n \/ i = n + 1
      BY <1>2
    <2>4. QED
      BY <2>1, <2>2, <2>3
  <1>12. QED
    BY <1>1, <1>8, <1>9, <1>10, <1>11

\* A round of the loop adds a label's share, or nothing, to the name's length.
LEMMA LengthRound ==
    ASSUME TypeOK, QuestionInv, WayInv, LengthInv, DecodeLabel \/ DecodeDone
    PROVE  LengthInv' /\ WayInv'
  <1>1. /\ rpc = "decode" /\ cursor < Len(packet)
        /\ packet' = packet /\ path' = Append(path, cursor)
    BY DEF DecodeLabel, DecodeDone
  <1>2. PICK share : share = IF IsLabel THEN At(cursor) + 1 ELSE 0
    OBVIOUS
  <1>3. At(cursor) \in Nat /\ outputLength \in Nat /\ share \in Nat
    <2>1. At(cursor) \in Nat /\ outputLength \in Nat
      BY <1>1, AtType DEF TypeOK
    <2>2. QED
      BY <1>2, <2>1
  <1>4. Total(Shares') = Total(Shares) + share
    <2>1. Shares' = Append(Shares, share)
      BY <1>1, <1>2, SharesGrow
    <2>2. Shares \in Seq(Nat)
      BY <1>1, SharesType
    <2>3. QED
      BY <1>3, <2>1, <2>2, TotalAppend
  <1>5. Total(Shares) = IF outputLength = 0 THEN 0 ELSE outputLength + 1
    BY <1>1 DEF LengthInv
  <1>6. WayInv'
    <2>1. path \in Seq(Nat) /\ cursor \in Nat
      BY DEF TypeOK
    <2>2. PICK n \in Nat : n = Len(path)
      BY <2>1
    <2>3. /\ DOMAIN path' = 1 .. n + 1 /\ DOMAIN path = 1 .. n
          /\ path'[n + 1] = cursor /\ \A i \in 1 .. n : path'[i] = path[i]
      BY <1>1, <2>1, <2>2
    <2>4. \A i \in 1 .. n + 1 : i \in 1 .. n \/ i = n + 1
      BY <2>2
    <2>5. QED
      BY <1>1, <2>3, <2>4 DEF WayInv
  <1>7. CASE ~IsLabel /\ outputLength' = outputLength
    <2>1. Total(Shares') = Total(Shares)
      BY <1>2, <1>3, <1>4, <1>5, <1>7
    <2>2. QED
      BY <1>5, <1>6, <1>7, <2>1 DEF LengthInv
  <1>8. CASE IsLabel /\ outputLength' = LabelStart + At(cursor)
    <2>1. At(cursor) >= 1
      <3>1. \A b \in 1 .. 63 : b >= 1
        OBVIOUS
      <3>2. QED
        BY <1>8, <3>1, Zenon DEF IsLabel
    <2>2. Total(Shares') = outputLength' + 1 /\ outputLength' # 0
      BY <1>2, <1>3, <1>4, <1>5, <1>8, <2>1 DEF LabelStart
    <2>3. QED
      BY <1>6, <2>2 DEF LengthInv
  <1>9. CASE MayJump /\ FollowPointer
    <2>1. ~IsLabel
      <3>1. At(cursor) \div 64 = 3
        BY <1>9, Zenon DEF MayJump, IsPointer
      <3>2. \A b \in Nat : b \div 64 = 3 => b \notin 1 .. 63
        OBVIOUS
      <3>3. QED
        BY <1>3, <3>1, <3>2, Zenon DEF IsLabel
    <2>2. QED
      BY <1>7, <1>9, <2>1 DEF FollowPointer
  <1>10. CASE MayCopy /\ CopyLabel
    BY <1>8, <1>10 DEF MayCopy, CopyLabel
  <1>11. CASE DecodeDone
    <2>1. At(cursor) = 0 /\ outputLength' = outputLength
      BY <1>11 DEF DecodeDone, IsNamed
    <2>2. ~IsLabel
      BY <2>1 DEF IsLabel
    <2>3. QED
      BY <1>7, <2>1, <2>2
  <1>12. QED
    BY <1>9, <1>10, <1>11 DEF DecodeLabel

\* No other step touches the way or the name.
LEMMA LengthNext ==
    TypeOK /\ QuestionInv /\ WayInv /\ LengthInv /\ [Next]_vars => LengthInv' /\ WayInv'
  <1> SUFFICES ASSUME TypeOK, QuestionInv, WayInv, LengthInv, [Next]_vars
               PROVE  LengthInv' /\ WayInv'
    OBVIOUS
  <1>1. CASE UNCHANGED <<rpc, packet, decoderVars>>
    <2>1. UNCHANGED <<rpc, packet, path, outputLength>>
      BY <1>1 DEF decoderVars
    <2>2. Shares' = Shares
      BY <2>1 DEF Shares, Labels, At
    <2>3. QED
      BY <2>1, <2>2 DEF LengthInv, WayInv
  <1>2. CASE UNCHANGED receiveVars
    BY <1>1, <1>2 DEF receiveVars
  <1>3. CASE \E t \in AppThreads : Call(t)
    <2>1. UNCHANGED receiveVars
      BY <1>3 DEF Call, InitializeCheck, InitializeStore, StartCheck, StartDispatcher,
         StartOnTcpipThread, StartListens, Stop, StopOnTcpipThread, ApiCallFails, ResetClears
    <2>2. QED
      BY <1>2, <2>1
  <1>4. CASE \/ \E p \in Packets : ReceivePacket(p)
             \/ DropPacket \/ DecodeFails \/ DispatchReturns
    BY <1>4 DEF ReceivePacket, DropPacket, DecodeFails, DispatchReturns, SendFormatError,
       Release, LengthInv, WayInv
  <1>5. CASE LoadDispatcher
    <2>1. path' = <<>> /\ outputLength' = 0
      BY <1>5 DEF LoadDispatcher, QuestionInv
    <2>2. Shares' = <<>>
      <3>1. DOMAIN path' = {}
        BY <2>1
      <3>2. QED
        BY <3>1 DEF Shares
    <2>3. Total(Shares') = 0
      BY <2>2, TotalEmpty
    <2>4. QED
      BY <2>1, <2>3 DEF LengthInv, WayInv
  <1>6. CASE (\E required \in AnswerSizes : AddAddressAnswer(required)) \/ Complete \/ Abort
    <2>1. UNCHANGED <<rpc, packet, decoderVars>>
      BY <1>6 DEF AddAddressAnswer, Complete, Abort
    <2>2. QED
      BY <1>1, <2>1
  <1>7. CASE UNCHANGED vars
    BY <1>2, <1>7 DEF vars
  <1>8. QED
    BY <1>3, <1>4, <1>5, <1>6, <1>7, LengthRound DEF Next, Receive

\* Every answer adds its size to the response, and one to the count.
LEMMA AnswerNext == TypeOK /\ AnswerInv /\ [Next]_vars => AnswerInv'
  <1> SUFFICES ASSUME TypeOK, AnswerInv, [Next]_vars PROVE AnswerInv'
    OBVIOUS
  <1>0. SuffixSize \in Nat /\ encodedEnd \in Nat /\ cursor \in Nat /\ given \in Seq(Nat)
    <2>1. given \in Seq(AnswerSizes) /\ AnswerSizes \subseteq Nat
      BY SizeAssumption DEF TypeOK
    <2>2. given \in [1 .. Len(given) -> AnswerSizes] /\ Len(given) \in Nat
      BY <2>1
    <2>3. given \in [1 .. Len(given) -> Nat]
      BY <2>1, <2>2
    <2>4. given \in Seq(Nat)
      BY <2>2, <2>3
    <2>5. QED
      BY <2>4, SizeAssumption DEF TypeOK
  <1>1. CASE UNCHANGED <<rpc, encodedEnd, size, counted, given>>
    BY <1>1 DEF AnswerInv
  <1>2. CASE UNCHANGED receiveVars
    BY <1>1, <1>2 DEF receiveVars, decoderVars, responseVars
  <1>3. CASE \E t \in AppThreads : Call(t)
    <2>1. UNCHANGED receiveVars
      BY <1>3 DEF Call, InitializeCheck, InitializeStore, StartCheck, StartDispatcher,
         StartOnTcpipThread, StartListens, Stop, StopOnTcpipThread, ApiCallFails, ResetClears
    <2>2. QED
      BY <1>2, <2>1
  <1>4. CASE (\E p \in Packets : ReceivePacket(p)) \/ LoadDispatcher \/ DecodeLabel
    <2>1. rpc # "dispatch" /\ rpc' # "dispatch" /\ UNCHANGED <<counted, given>>
      BY <1>4 DEF ReceivePacket, LoadDispatcher, DecodeLabel, responseVars
    <2>2. QED
      BY <2>1 DEF AnswerInv
  <1>5. CASE DropPacket \/ DecodeFails \/ DispatchReturns
    <2>1. Release
      BY <1>5 DEF DropPacket, DecodeFails, DispatchReturns, SendFormatError
    <2>2. rpc' = "idle" /\ counted' = 0 /\ given' = <<>>
      BY <2>1 DEF Release
    <2>3. QED
      BY <2>2 DEF AnswerInv
  <1>6. CASE DecodeDone
    <2>1. /\ rpc # "dispatch" /\ UNCHANGED <<counted, given>>
          /\ size' = encodedEnd' + SuffixSize /\ encodedEnd' \in Nat
      BY <1>0, <1>6 DEF DecodeDone, NameEnd
    <2>2. given' = <<>> /\ counted' = Len(given')
      BY <2>1 DEF AnswerInv
    <2>3. Total(given') = 0
      BY <2>2, TotalEmpty
    <2>4. QED
      BY <1>0, <2>1, <2>2, <2>3 DEF AnswerInv
  <1>7. CASE \E required \in AnswerSizes : AddAddressAnswer(required)
    <2>1. PICK required \in AnswerSizes : AddAddressAnswer(required)
      BY <1>7
    <2>2. /\ rpc = "dispatch" /\ rpc' = "dispatch" /\ encodedEnd' = encodedEnd
          /\ size' = size + required /\ counted' = counted + 1
          /\ given' = Append(given, required) /\ required \in Nat
      BY <2>1, SizeAssumption DEF AddAddressAnswer, decoderVars
    <2>3. Total(given) \in Nat /\ Total(given') = Total(given) + required
      BY <1>0, <2>2, TotalAppend
    <2>4. counted = Len(given) /\ size = encodedEnd + SuffixSize + Total(given)
      BY <2>2 DEF AnswerInv
    <2>5. counted' = Len(given')
      BY <1>0, <2>2, <2>4
    <2>6. size' = encodedEnd' + SuffixSize + Total(given')
      BY <1>0, <2>2, <2>3, <2>4
    <2>7. QED
      BY <2>2, <2>5, <2>6 DEF AnswerInv
  <1>8. CASE Complete \/ Abort
    <2>1. UNCHANGED <<rpc, decoderVars, size, counted, given>>
      BY <1>8 DEF Complete, Abort
    <2>2. QED
      BY <1>1, <2>1 DEF decoderVars
  <1>9. CASE UNCHANGED vars
    BY <1>2, <1>9 DEF vars
  <1>10. QED
    BY <1>3, <1>4, <1>5, <1>6, <1>7, <1>8, <1>9 DEF Next, Receive

\* The question ends at the first byte on the decoder's way that is no label.
LEMMA QuestionEnd == ASSUME TypeOK, QuestionInv, rpc = "dispatch" PROVE encodedEnd = InlineEnd
  <1>1. PICK m \in DOMAIN path :
           /\ FirstLeaf(m)
           /\ encodedEnd = IF At(path[m]) = 0 THEN path[m] + 1 ELSE path[m] + 2
    BY DEF QuestionInv
  <1>2. Leaves \subseteq Nat
    <2>1. DOMAIN path = 1 .. Len(path) /\ Len(path) \in Nat
      BY DEF TypeOK
    <2>2. QED
      BY <2>1 DEF Leaves
  <1>3. m \in Leaves /\ \A l \in Leaves : m <= l
    BY <1>1 DEF FirstLeaf
  <1>4. ASSUME NEW k \in Leaves, \A l \in Leaves : k <= l PROVE k = m
    <2>1. k <= m /\ m <= k
      BY <1>3, <1>4
    <2>2. k \in Nat /\ m \in Nat
      BY <1>2, <1>3
    <2>3. QED
      BY <2>1, <2>2
  <1>5. Min(Leaves) = m
    BY <1>3, <1>4 DEF Min
  <1>6. QED
    BY <1>1, <1>5 DEF InlineEnd

\* The dispatcher is asked for the name of the question, whole; its reply is that
\* question with every answer that was accepted, counts them, fits a packet and
\* goes out once: for every packet, every sequence of answers and every limit.
THEOREM ReplyMatchesQuestion == Spec => []AnswersTheQuestion
  <1>1. Init => QuestionInv /\ ReplyInv /\ WayInv /\ LengthInv /\ AnswerInv
    BY DEF Init, QuestionInv, ReplyInv, WayInv, LengthInv, AnswerInv
  <1>2. ASSUME TypeOK, QuestionInv, ReplyInv, LengthInv, AnswerInv PROVE AnswersTheQuestion
    <2> SUFFICES ASSUME rpc = "dispatch" PROVE AnswersTheQuestion
      BY DEF AnswersTheQuestion
    <2>1. encodedEnd = InlineEnd
      BY <1>2, QuestionEnd
    <2>2. (Labels = {}) = (outputLength = 0)
      BY <1>2 DEF QuestionInv
    <2>3. Labels # {} => outputLength + 1 = Total(Shares)
      BY <1>2, <2>2 DEF LengthInv
    <2>4. QED
      BY <1>2, <2>1, <2>2, <2>3 DEF ReplyInv, AnswerInv, AnswersTheQuestion
  <1>3. QED
    BY <1>1, <1>2, QuestionNext, ReplyNext, LengthNext, AnswerNext, TypeCorrect, PTL DEF Spec
=============================================================================
