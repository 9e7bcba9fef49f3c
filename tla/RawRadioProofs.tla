--------------------------- MODULE RawRadioProofs ---------------------------
(***************************************************************************)
(* Proofs about RawRadio for every ring depth and every bound.             *)
(*                                                                         *)
(* None of the safety invariants is inductive alone.  The strengthening    *)
(* says, of every state in which no index reset has cut into a task: the   *)
(* copies of the indices that the tasks hold are current; the callback has *)
(* reserved a slot outside the occupied part of the ring; the drain is     *)
(* inside it; and while the radio is stopped nobody is in the ring.        *)
(***************************************************************************)
EXTENDS RawRadio, SequenceTheorems, TLAPS

\* A session's indices are reset and the callback cannot yet enter.
Dormant == ~started /\ cpc \in {"idle", "enable", "startRead", "startWrite", "arm"}

\* Control flow: Start and Stop move the flag only where the code does.
ControlInv ==
    /\ cpc # "idle" => ~started
    /\ clean /\ (Dormant \/ cpc = "stopWrite") => ~DriverInRing /\ pending = <<>>
    /\ clean /\ Dormant => readIndex = 0 /\ writeIndex = 0
    /\ clean /\ cpc = "stopWrite" =>
          /\ readIndex = 0
          /\ WorkerInRing => wpc = "compare" /\ writeIndex = 0

\* The index copies that the callback and the drain hold are current.
LocalsInv ==
    clean =>
        /\ dpc \in {"loaded", "copyHead", "copyBody", "publish"} => dWrite = writeIndex
        /\ dpc \in {"copyHead", "copyBody", "publish"} => Advance(writeIndex) # readIndex
        /\ wpc \in {"compare", "view", "deliver", "advance"} => wRead = readIndex
        /\ wpc \in {"view", "deliver", "advance"} => pending # <<>>

\* The reserved slot fills up with the frame in hand.
CopyInv ==
    clean =>
        /\ dpc \in {"copyBody", "publish"} => slots[dWrite].head = dFrame
        /\ dpc = "publish" => slots[dWrite].body = dFrame
        /\ wpc = "deliver" => wHead = slots[wRead].head

\* At most Depth - 1 frames wait; the ring holds them in order.
RingInv ==
    clean =>
        /\ Len(pending) <= Depth - 1
        /\ cpc # "stopWrite" => writeIndex = (readIndex + Len(pending)) % Depth
        /\ cpc # "stopWrite" =>
              \A i \in 1 .. Len(pending) :
                 LET s == slots[(readIndex + i - 1) % Depth]
                 IN  s.head = pending[i] /\ s.body = pending[i]

IInv == TypeOK /\ ControlInv /\ LocalsInv /\ CopyInv /\ RingInv /\ NoLostWakeup

-----------------------------------------------------------------------------
(* Ring arithmetic *)

\* Advance stays inside the ring.
LEMMA AdvanceType ==
    ASSUME NEW i \in Indices
    PROVE  /\ Advance(i) \in Indices
           /\ Advance(i) = IF i = Depth - 1 THEN 0 ELSE i + 1
  <1>1. i \in Nat /\ i < Depth
    BY DepthAssumption DEF Indices
  <1>2. CASE i = Depth - 1
    BY <1>2, DepthAssumption DEF Advance, Indices
  <1>3. CASE i # Depth - 1
    BY <1>1, <1>3, DepthAssumption DEF Advance, Indices
  <1>4. QED
    BY <1>2, <1>3

\* Different slots have different successors.
LEMMA AdvanceInjective ==
    ASSUME NEW i \in Indices, NEW j \in Indices, i # j
    PROVE  Advance(i) # Advance(j)
  <1>1. /\ Advance(i) = IF i = Depth - 1 THEN 0 ELSE i + 1
        /\ Advance(j) = IF j = Depth - 1 THEN 0 ELSE j + 1
    BY AdvanceType
  <1>2. QED
    BY <1>1, DepthAssumption DEF Indices

\* With nothing pending the indices meet.
LEMMA RingEmpty ==
    ASSUME NEW i \in Indices
    PROVE  (i + 0) % Depth = i
  BY DepthAssumption DEF Indices

\* Typing of the operations on the pending frames.
LEMMA SeqType ==
    ASSUME NEW S, NEW s \in Seq(S), NEW x \in S
    PROVE  /\ <<>> \in Seq(S)
           /\ Append(s, x) \in Seq(S)
           /\ s # <<>> => Tail(s) \in Seq(S)
  OBVIOUS

-----------------------------------------------------------------------------
(* Type correctness *)

\* The initial state is well typed.
LEMMA TypeInit == Init => TypeOK
  BY DepthAssumption, BoundsAssumption
  DEF Init, TypeOK, Indices, Frames, Packets

\* The callback keeps every variable in its type.
LEMMA TypeDriver == TypeOK /\ DriverStep => TypeOK'
  <1> SUFFICES ASSUME TypeOK, DriverStep PROVE TypeOK'
    OBVIOUS
  <1> USE DEF TypeOK, Frames, hardware, ring, config, driver, worker, history
  <1>1. CASE DriverAccept
    BY <1>1, BoundsAssumption DEF DriverAccept
  <1>2. CASE DriverLoadWrite
    BY <1>2 DEF DriverLoadWrite
  <1>3. CASE DriverDrop
    BY <1>3, DepthAssumption, BoundsAssumption DEF DriverDrop, Indices
  <1>4. CASE DriverReserve
    BY <1>4 DEF DriverReserve
  <1>5. CASE DriverCopyHead
    <2>1. [slots[dWrite] EXCEPT !.head = dFrame] \in Packets
      BY DEF Packets
    <2>2. slots' \in [Indices -> Packets]
      BY <1>5, <2>1 DEF DriverCopyHead
    <2>3. QED
      BY <1>5, <2>2 DEF DriverCopyHead
  <1>6. CASE DriverCopyBody
    <2>1. [slots[dWrite] EXCEPT !.body = dFrame] \in Packets
      BY DEF Packets
    <2>2. slots' \in [Indices -> Packets]
      BY <1>6, <2>1 DEF DriverCopyBody
    <2>3. QED
      BY <1>6, <2>2 DEF DriverCopyBody
  <1>7. CASE DriverPublish
    <2>1. writeIndex' \in Indices
      BY <1>7, AdvanceType DEF DriverPublish
    <2>2. pending' \in Seq(Frames)
      <3>1. pending' = Append(pending, dFrame) \/ pending' = pending
        BY <1>7, Zenon DEF DriverPublish
      <3>2. QED
        BY <3>1, SeqType, Zenon
    <2>3. QED
      BY <1>7, <2>1, <2>2 DEF DriverPublish
  <1>8. CASE DriverSignal
    BY <1>8, DepthAssumption, BoundsAssumption DEF DriverSignal, Indices
  <1>9. QED
    BY <1>1, <1>2, <1>3, <1>4, <1>5, <1>6, <1>7, <1>8 DEF DriverStep

\* The drain keeps every variable in its type.
LEMMA TypeWorker == TypeOK /\ WorkerStep => TypeOK'
  <1> SUFFICES ASSUME TypeOK, WorkerStep PROVE TypeOK'
    OBVIOUS
  <1> USE DEF TypeOK, hardware, ring, config, driver, worker, history
  <1>1. CASE WorkerWake
    <2>1. wake' \in BOOLEAN
      BY <1>1 DEF WorkerWake
    <2>2. QED
      BY <1>1, <2>1 DEF WorkerWake
  <1>2. CASE WorkerLoadRead
    <2>1. clean' \in BOOLEAN
      BY <1>2, Zenon DEF WorkerLoadRead
    <2>2. pending' = <<>> \/ pending' = pending
      BY <1>2, Zenon DEF WorkerLoadRead
    <2>3. pending' \in Seq(Frames)
      BY <2>2, SeqType, Zenon
    <2>4. QED
      BY <1>2, <2>1, <2>3 DEF WorkerLoadRead
  <1>3. CASE WorkerEmpty
    BY <1>3, DepthAssumption DEF WorkerEmpty, Indices
  <1>4. CASE WorkerFindsPacket
    BY <1>4 DEF WorkerFindsPacket
  <1>5. CASE WorkerBuildView
    BY <1>5 DEF WorkerBuildView, Packets
  <1>6. CASE WorkerDeliver
    BY <1>6 DEF WorkerDeliver, Packets
  <1>7. CASE WorkerAdvance
    <2>1. readIndex' \in Indices /\ wRead' \in Indices /\ wHead' \in Frames
      BY <1>7, AdvanceType, DepthAssumption, BoundsAssumption
      DEF WorkerAdvance, Indices, Frames
    <2>2. pending' \in Seq(Frames)
      BY <1>7 DEF WorkerAdvance
    <2>3. QED
      BY <1>7, <2>1, <2>2 DEF WorkerAdvance
  <1>8. QED
    BY <1>1, <1>2, <1>3, <1>4, <1>5, <1>6, <1>7 DEF WorkerStep

\* Start, Stop and the setters keep every variable in its type.
LEMMA TypeControl == TypeOK /\ ControlStep => TypeOK'
  <1> SUFFICES ASSUME TypeOK, ControlStep PROVE TypeOK'
    OBVIOUS
  <1> USE DEF TypeOK, hardware, ring, config, driver, worker, history
  <1>1. CASE StartClaim
    <2>1. wasEnabled' \in BOOLEAN /\ queried' \in BOOLEAN /\ registered' \in BOOLEAN
      BY <1>1 DEF StartClaim
    <2>2. QED
      BY <1>1, <2>1, BoundsAssumption DEF StartClaim
  <1>2. CASE StartFail
    <2>1. registered' \in BOOLEAN
      BY <1>2 DEF StartFail
    <2>2. QED
      BY <1>2, <2>1 DEF StartFail
  <1>3. CASE StartEnable
    BY <1>3 DEF StartEnable
  <1>4. CASE StartArm
    BY <1>4 DEF StartArm
  <1>5. CASE StopExchange
    <2>1. started' \in BOOLEAN
      BY <1>5 DEF StopExchange
    <2>2. QED
      BY <1>5, <2>1 DEF StopExchange
  <1>6. CASE StopUnregister
    <2>1. registered' \in BOOLEAN /\ promiscuous' \in BOOLEAN
      BY <1>6 DEF StopUnregister
    <2>2. QED
      BY <1>6, <2>1 DEF StopUnregister
  <1>7. CASE ResetRead
    BY <1>7, DepthAssumption DEF ResetRead, Indices
  <1>8. CASE ResetWrite
    BY <1>8, DepthAssumption DEF ResetWrite, Indices
  <1>9. CASE SetReceiver
    BY <1>9 DEF SetReceiver
  <1>10. CASE SetWorkSignal
    BY <1>10 DEF SetWorkSignal
  <1>11. QED
    BY <1>1, <1>2, <1>3, <1>4, <1>5, <1>6, <1>7, <1>8, <1>9, <1>10 DEF ControlStep

\* Every step keeps every variable in its type.
LEMMA TypeNext == TypeOK /\ [Next]_vars => TypeOK'
  <1> SUFFICES ASSUME TypeOK, [Next]_vars PROVE TypeOK'
    OBVIOUS
  <1>1. CASE UNCHANGED vars
    BY <1>1 DEF TypeOK, vars, hardware, ring, config, driver, worker, history
  <1>2. QED
    BY <1>1, TypeDriver, TypeWorker, TypeControl DEF Next

\* Type correctness of the receive path, for every depth the static_asserts
\* admit: whatever the three tasks do to each other, no index leaves the ring,
\* so no slot outside _receiveQueue is ever touched.
THEOREM TypeCorrect == Spec => []TypeOK
  BY TypeInit, TypeNext, PTL DEF Spec

-----------------------------------------------------------------------------
(* The ring is a FIFO *)

\* The slot behind the last pending frame is none of theirs, and publishing
\* into it keeps the distance between the indices.
LEMMA RingReserve ==
    ASSUME NEW r \in Indices, NEW n \in 0 .. Depth - 1
    PROVE  /\ \A i \in 1 .. n : /\ (r + i - 1) % Depth \in Indices
                               /\ (r + i - 1) % Depth # (r + n) % Depth
           /\ Advance((r + n) % Depth) # r =>
                 /\ n + 1 <= Depth - 1
                 /\ Advance((r + n) % Depth) = (r + (n + 1)) % Depth
           /\ Advance((r + n) % Depth) = r => n = Depth - 1
           /\ (r + n) % Depth = r => n = 0
  <1>1. \A k \in 0 .. Depth : (r + k) % Depth = IF r + k < Depth THEN r + k ELSE r + k - Depth
    BY DepthAssumption DEF Indices
  <1>2. (r + n) % Depth \in Indices
    BY <1>1, DepthAssumption DEF Indices
  <1>3. Advance((r + n) % Depth)
          = IF (r + n) % Depth = Depth - 1 THEN 0 ELSE ((r + n) % Depth) + 1
    BY <1>2, AdvanceType
  <1>4. \A i \in 1 .. n : (r + i - 1) % Depth \in Indices /\ (r + i - 1) % Depth # (r + n) % Depth
    <2> TAKE i \in 1 .. n
    <2>1. i - 1 \in 0 .. Depth /\ r + (i - 1) = r + i - 1
      BY DepthAssumption DEF Indices
    <2>2. (r + i - 1) % Depth = IF r + i - 1 < Depth THEN r + i - 1 ELSE r + i - 1 - Depth
      BY <1>1, <2>1
    <2>3. QED
      BY <1>1, <2>2, DepthAssumption DEF Indices
  <1>5. (r + n) % Depth = IF r + n < Depth THEN r + n ELSE r + n - Depth
    BY <1>1, DepthAssumption
  <1>6. (r + (n + 1)) % Depth = IF r + (n + 1) < Depth THEN r + (n + 1) ELSE r + (n + 1) - Depth
    BY <1>1, DepthAssumption
  <1>7. QED
    BY <1>3, <1>4, <1>5, <1>6, DepthAssumption DEF Indices

\* Consuming the oldest frame renumbers the others.
LEMMA RingConsume ==
    ASSUME NEW r \in Indices, NEW n \in 1 .. Depth - 1
    PROVE  \A k \in 0 .. n - 1 : (Advance(r) + k) % Depth = (r + (k + 1)) % Depth
  <1>1. \A k \in 0 .. Depth : (r + k) % Depth = IF r + k < Depth THEN r + k ELSE r + k - Depth
    BY DepthAssumption DEF Indices
  <1>2. Advance(r) \in Indices /\ Advance(r) = IF r = Depth - 1 THEN 0 ELSE r + 1
    BY AdvanceType
  <1> TAKE k \in 0 .. n - 1
  <1>3. (Advance(r) + k) % Depth
           = IF Advance(r) + k < Depth THEN Advance(r) + k ELSE Advance(r) + k - Depth
    BY <1>2, DepthAssumption DEF Indices
  <1>4. (r + (k + 1)) % Depth = IF r + (k + 1) < Depth THEN r + (k + 1) ELSE r + (k + 1) - Depth
    BY <1>1, DepthAssumption
  <1>5. QED
    BY <1>2, <1>3, <1>4, DepthAssumption DEF Indices

\* The inductive invariant holds before the first Start.
LEMMA InvInit == Init => IInv
  <1> SUFFICES ASSUME Init PROVE IInv
    OBVIOUS
  <1>1. TypeOK
    BY TypeInit
  <1>2. ControlInv /\ LocalsInv /\ CopyInv /\ NoLostWakeup
    BY DEF Init, ControlInv, LocalsInv, CopyInv, NoLostWakeup, Dormant, DriverInRing,
           WorkerInRing
  <1>3. RingInv
    BY DepthAssumption DEF Init, RingInv
  <1>4. QED
    BY <1>1, <1>2, <1>3 DEF IInv

\* Every step of the callback keeps the invariant.
LEMMA InvDriver == IInv /\ DriverStep => IInv'
  <1> SUFFICES ASSUME IInv, DriverStep PROVE IInv'
    OBVIOUS
  <1> USE DEF IInv, hardware, ring, config, driver, worker, history
  <1>1. TypeOK /\ TypeOK'
    BY TypeDriver
  <1>2. CASE DriverAccept
    <2>1. ControlInv' /\ LocalsInv' /\ CopyInv'
      BY <1>2 DEF DriverAccept, ControlInv, Dormant, DriverInRing, WorkerInRing, LocalsInv, CopyInv
    <2>2. RingInv' /\ NoLostWakeup'
      BY <1>2 DEF DriverAccept, RingInv, NoLostWakeup
    <2>3. QED
      BY <1>1, <2>1, <2>2
  <1>3. CASE DriverLoadWrite
    <2>1. ControlInv' /\ LocalsInv' /\ CopyInv'
      BY <1>3 DEF DriverLoadWrite, ControlInv, Dormant, DriverInRing, WorkerInRing, LocalsInv, CopyInv
    <2>2. RingInv' /\ NoLostWakeup'
      BY <1>3 DEF DriverLoadWrite, RingInv, NoLostWakeup
    <2>3. QED
      BY <1>1, <2>1, <2>2
  <1>4. CASE DriverDrop
    <2>1. ControlInv' /\ LocalsInv' /\ CopyInv'
      BY <1>4 DEF DriverDrop, ControlInv, Dormant, DriverInRing, WorkerInRing, LocalsInv, CopyInv
    <2>2. RingInv' /\ NoLostWakeup'
      BY <1>4 DEF DriverDrop, RingInv, NoLostWakeup
    <2>3. QED
      BY <1>1, <2>1, <2>2
  <1>5. CASE DriverReserve
    <2>1. ControlInv' /\ LocalsInv' /\ CopyInv'
      BY <1>5 DEF DriverReserve, ControlInv, Dormant, DriverInRing, WorkerInRing, LocalsInv, CopyInv
    <2>2. RingInv' /\ NoLostWakeup'
      BY <1>5 DEF DriverReserve, RingInv, NoLostWakeup
    <2>3. QED
      BY <1>1, <2>1, <2>2
  <1>6. CASE DriverCopyHead
    <2> USE <1>6 DEF DriverCopyHead
    <2>1. ControlInv'
      BY DEF ControlInv, Dormant, DriverInRing, WorkerInRing
    <2>2. LocalsInv' /\ NoLostWakeup'
      BY DEF LocalsInv, NoLostWakeup
    <2>3. \A j \in Indices : /\ j # dWrite => slots'[j] = slots[j]
                            /\ j = dWrite => slots'[j].head = dFrame
      BY <1>1 DEF TypeOK, Packets
    <2>4. ASSUME clean
          PROVE  /\ cpc # "stopWrite"
                 /\ writeIndex = (readIndex + Len(pending)) % Depth
                 /\ Len(pending) \in 0 .. Depth - 1
                 /\ dWrite = writeIndex
      BY <1>1, <2>4, DepthAssumption
      DEF TypeOK, ControlInv, DriverInRing, RingInv, LocalsInv
    <2>5. RingInv'
      <3>1. ASSUME clean, NEW i \in 1 .. Len(pending)
            PROVE  slots'[(readIndex + i - 1) % Depth] = slots[(readIndex + i - 1) % Depth]
        BY <1>1, <2>3, <2>4, <3>1, RingReserve DEF TypeOK
      <3>2. QED
        BY <2>4, <3>1 DEF RingInv
    <2>6. CopyInv'
      <3>1. ASSUME clean, wpc = "deliver"
            PROVE  wRead \in Indices /\ wRead # dWrite
        BY <1>1, <2>4, <3>1, RingReserve DEF TypeOK, LocalsInv
      <3>2. QED
        BY <1>1, <2>3, <2>4, <3>1 DEF CopyInv, TypeOK, Packets
    <2>7. QED
      BY <1>1, <2>1, <2>2, <2>5, <2>6
  <1>7. CASE DriverCopyBody
    <2> USE <1>7 DEF DriverCopyBody
    <2>1. ControlInv'
      BY DEF ControlInv, Dormant, DriverInRing, WorkerInRing
    <2>2. LocalsInv' /\ NoLostWakeup'
      BY DEF LocalsInv, NoLostWakeup
    <2>3. \A j \in Indices : /\ j # dWrite => slots'[j] = slots[j]
                            /\ j = dWrite => slots'[j].body = dFrame
      BY <1>1 DEF TypeOK, Packets
    <2>4. ASSUME clean
          PROVE  /\ cpc # "stopWrite"
                 /\ writeIndex = (readIndex + Len(pending)) % Depth
                 /\ Len(pending) \in 0 .. Depth - 1
                 /\ dWrite = writeIndex
      BY <1>1, <2>4, DepthAssumption
      DEF TypeOK, ControlInv, DriverInRing, RingInv, LocalsInv
    <2>5. RingInv'
      <3>1. ASSUME clean, NEW i \in 1 .. Len(pending)
            PROVE  slots'[(readIndex + i - 1) % Depth] = slots[(readIndex + i - 1) % Depth]
        BY <1>1, <2>3, <2>4, <3>1, RingReserve DEF TypeOK
      <3>2. QED
        BY <2>4, <3>1 DEF RingInv
    <2>6. CopyInv'
      <3>1. ASSUME clean, wpc = "deliver"
            PROVE  wRead \in Indices /\ wRead # dWrite
        BY <1>1, <2>4, <3>1, RingReserve DEF TypeOK, LocalsInv
      <3>2. QED
        BY <1>1, <2>3, <2>4, <3>1 DEF CopyInv, TypeOK, Packets
    <2>7. QED
      BY <1>1, <2>1, <2>2, <2>5, <2>6
  <1>8. CASE DriverPublish
    <2> USE <1>8 DEF DriverPublish
    <2>1. ControlInv'
      BY DEF ControlInv, Dormant, DriverInRing, WorkerInRing
    <2>2. LocalsInv' /\ CopyInv'
      BY DEF LocalsInv, CopyInv
    <2>3. NoLostWakeup'
      BY DEF NoLostWakeup
    <2>4. RingInv'
      <3> SUFFICES ASSUME clean PROVE RingInv'
        BY DEF RingInv
      <3>1. /\ cpc # "stopWrite"
            /\ writeIndex = (readIndex + Len(pending)) % Depth
            /\ Len(pending) \in 0 .. Depth - 1
            /\ dWrite = writeIndex
            /\ Advance(writeIndex) # readIndex
            /\ slots[writeIndex].head = dFrame /\ slots[writeIndex].body = dFrame
        BY <1>1, DepthAssumption
        DEF TypeOK, ControlInv, DriverInRing, RingInv, LocalsInv, CopyInv
      <3>2. /\ Len(pending) + 1 <= Depth - 1
            /\ writeIndex' = (readIndex + (Len(pending) + 1)) % Depth
        BY <1>1, <3>1, RingReserve DEF TypeOK
      <3>3. /\ pending' = Append(pending, dFrame)
            /\ pending \in Seq(Frames) /\ dFrame \in Frames
        BY <1>1 DEF TypeOK
      <3>4. /\ Len(pending') = Len(pending) + 1
            /\ \A i \in 1 .. Len(pending) : pending'[i] = pending[i]
            /\ pending'[Len(pending) + 1] = dFrame
        BY <3>3
      <3>5. ASSUME NEW i \in 1 .. Len(pending)
            PROVE  /\ slots[(readIndex + i - 1) % Depth].head = pending'[i]
                   /\ slots[(readIndex + i - 1) % Depth].body = pending'[i]
        BY <3>1, <3>4 DEF RingInv
      <3>6. readIndex + (Len(pending) + 1) - 1 = readIndex + Len(pending)
        BY <1>1, <3>1, DepthAssumption DEF TypeOK, Indices
      <3>7. QED
        BY <3>1, <3>2, <3>4, <3>5, <3>6 DEF RingInv
    <2>5. QED
      BY <1>1, <2>1, <2>2, <2>3, <2>4
  <1>9. CASE DriverSignal
    <2>1. ControlInv' /\ LocalsInv' /\ CopyInv'
      BY <1>9 DEF DriverSignal, ControlInv, Dormant, DriverInRing, WorkerInRing, LocalsInv, CopyInv
    <2>2. RingInv' /\ NoLostWakeup'
      BY <1>9 DEF DriverSignal, RingInv, NoLostWakeup
    <2>3. QED
      BY <1>1, <2>1, <2>2
  <1>10. QED
    BY <1>2, <1>3, <1>4, <1>5, <1>6, <1>7, <1>8, <1>9 DEF DriverStep

\* Every step of the drain keeps the invariant.
LEMMA InvWorker == IInv /\ WorkerStep => IInv'
  <1> SUFFICES ASSUME IInv, WorkerStep PROVE IInv'
    OBVIOUS
  <1> USE DEF IInv, hardware, ring, config, driver, worker, history
  <1>1. TypeOK /\ TypeOK'
    BY TypeWorker
  <1>2. CASE WorkerWake
    <2>1. ControlInv' /\ LocalsInv' /\ CopyInv'
      BY <1>1, <1>2 DEF WorkerWake, ControlInv, Dormant, DriverInRing, WorkerInRing,
         LocalsInv, CopyInv
    <2>2. RingInv' /\ NoLostWakeup'
      BY <1>1, <1>2 DEF WorkerWake, RingInv, NoLostWakeup
    <2>3. QED
      BY <1>1, <2>1, <2>2
  <1>3. CASE WorkerLoadRead
    <2>1. ControlInv' /\ LocalsInv' /\ CopyInv'
      BY <1>1, <1>3 DEF WorkerLoadRead, ControlInv, Dormant, DriverInRing, WorkerInRing,
         LocalsInv, CopyInv
    <2>2. RingInv' /\ NoLostWakeup'
      BY <1>1, <1>3 DEF WorkerLoadRead, RingInv, NoLostWakeup
    <2>3. QED
      BY <1>1, <2>1, <2>2
  <1>4. CASE WorkerEmpty
    <2>1. ControlInv' /\ LocalsInv' /\ CopyInv' /\ RingInv'
      BY <1>1, <1>4 DEF WorkerEmpty, ControlInv, Dormant, DriverInRing, WorkerInRing,
         LocalsInv, CopyInv, RingInv
    <2>2. ASSUME clean, cpc # "stopWrite"
          PROVE  pending = <<>>
      <3>1. /\ (readIndex + Len(pending)) % Depth = readIndex
            /\ Len(pending) \in 0 .. Depth - 1
        BY <1>1, <1>4, <2>2, DepthAssumption DEF WorkerEmpty, TypeOK, LocalsInv, RingInv
      <3>2. Len(pending) = 0
        BY <1>1, <3>1, RingReserve DEF TypeOK
      <3>3. QED
        BY <1>1, <3>2 DEF TypeOK
    <2>3. NoLostWakeup'
      BY <1>4, <2>2 DEF WorkerEmpty, NoLostWakeup, ControlInv
    <2>4. QED
      BY <1>1, <2>1, <2>3
  <1>5. CASE WorkerFindsPacket
    <2>1. ASSUME clean
          PROVE  pending # <<>>
      <3>1. wRead = readIndex /\ readIndex # writeIndex /\ cpc # "stopWrite"
        BY <1>5, <2>1 DEF WorkerFindsPacket, LocalsInv, ControlInv, WorkerInRing
      <3>2. writeIndex = (readIndex + Len(pending)) % Depth
        BY <2>1, <3>1 DEF RingInv
      <3>3. (readIndex + 0) % Depth = readIndex
        BY <1>1, RingEmpty DEF TypeOK
      <3>4. QED
        BY <3>1, <3>2, <3>3
    <2>2. ControlInv' /\ LocalsInv' /\ CopyInv'
      BY <1>1, <1>5, <2>1 DEF WorkerFindsPacket, ControlInv, Dormant, DriverInRing,
         WorkerInRing, LocalsInv, CopyInv
    <2>3. RingInv' /\ NoLostWakeup'
      BY <1>1, <1>5 DEF WorkerFindsPacket, RingInv, NoLostWakeup
    <2>4. QED
      BY <1>1, <2>2, <2>3
  <1>6. CASE WorkerBuildView
    <2>1. ControlInv' /\ LocalsInv' /\ CopyInv'
      BY <1>1, <1>6 DEF WorkerBuildView, ControlInv, Dormant, DriverInRing, WorkerInRing,
         LocalsInv, CopyInv
    <2>2. RingInv' /\ NoLostWakeup'
      BY <1>1, <1>6 DEF WorkerBuildView, RingInv, NoLostWakeup
    <2>3. QED
      BY <1>1, <2>1, <2>2
  <1>7. CASE WorkerDeliver
    <2>1. ControlInv' /\ LocalsInv' /\ CopyInv'
      BY <1>1, <1>7 DEF WorkerDeliver, ControlInv, Dormant, DriverInRing, WorkerInRing,
         LocalsInv, CopyInv
    <2>2. RingInv' /\ NoLostWakeup'
      BY <1>1, <1>7 DEF WorkerDeliver, RingInv, NoLostWakeup
    <2>3. QED
      BY <1>1, <2>1, <2>2
  <1>8. CASE WorkerAdvance
    <2> USE <1>8 DEF WorkerAdvance
    <2>1. ASSUME clean
          PROVE  /\ cpc # "stopWrite" /\ ~Dormant
                 /\ wRead = readIndex
                 /\ pending # <<>>
                 /\ writeIndex = (readIndex + Len(pending)) % Depth
                 /\ Len(pending) \in 1 .. Depth - 1
      BY <1>1, <2>1, DepthAssumption
      DEF TypeOK, ControlInv, WorkerInRing, LocalsInv, RingInv
    <2>2. ControlInv'
      BY <2>1 DEF ControlInv, Dormant, DriverInRing, WorkerInRing
    <2>3. ASSUME clean
          PROVE  /\ pending' = Tail(pending)
                 /\ Len(pending') = Len(pending) - 1
                 /\ \A i \in 1 .. Len(pending') : pending'[i] = pending[i + 1]
      BY <1>1, <2>1, <2>3 DEF TypeOK
    <2>4. ASSUME clean
          PROVE  Advance(writeIndex) # Advance(readIndex)
      <3>1. writeIndex # readIndex
        BY <1>1, <2>1, <2>4, RingReserve DEF TypeOK
      <3>2. QED
        BY <1>1, <3>1, AdvanceInjective DEF TypeOK
    <2>5. LocalsInv' /\ CopyInv'
      BY <1>1, <2>1, <2>4 DEF LocalsInv, CopyInv
    <2>6. RingInv'
      <3> SUFFICES ASSUME clean PROVE RingInv'
        BY DEF RingInv
      <3>1. \A k \in 0 .. Len(pending) - 1 :
               (Advance(readIndex) + k) % Depth = (readIndex + (k + 1)) % Depth
        BY <1>1, <2>1, RingConsume DEF TypeOK
      <3>2. writeIndex' = (readIndex' + Len(pending')) % Depth
        <4>1. /\ Len(pending) - 1 \in 0 .. Len(pending) - 1
              /\ (Len(pending) - 1) + 1 = Len(pending)
          BY <2>1, DepthAssumption
        <4>2. (Advance(readIndex) + (Len(pending) - 1)) % Depth
                 = (readIndex + Len(pending)) % Depth
          BY <3>1, <4>1
        <4>3. QED
          BY <2>1, <2>3, <4>2
      <3>3. ASSUME NEW i \in 1 .. Len(pending')
            PROVE  LET s == slots[(readIndex' + i - 1) % Depth]
                   IN  s.head = pending'[i] /\ s.body = pending'[i]
        <4>1. i + 1 \in 1 .. Len(pending) /\ i - 1 \in 0 .. Len(pending) - 1
          BY <2>1, <2>3, DepthAssumption
        <4>2. readIndex' + i - 1 = Advance(readIndex) + (i - 1)
          BY <1>1, <2>1, <4>1, DepthAssumption DEF TypeOK, Indices
        <4>3. readIndex + ((i - 1) + 1) = readIndex + (i + 1) - 1
          BY <1>1, <4>1, DepthAssumption DEF TypeOK, Indices
        <4>4. (readIndex' + i - 1) % Depth = (readIndex + (i + 1) - 1) % Depth
          BY <3>1, <4>1, <4>2, <4>3
        <4>5. QED
          BY <2>1, <2>3, <4>1, <4>4 DEF RingInv
      <3>4. QED
        BY <2>1, <2>3, <3>2, <3>3, DepthAssumption DEF RingInv
    <2>7. NoLostWakeup'
      BY DEF NoLostWakeup
    <2>8. QED
      BY <1>1, <2>2, <2>5, <2>6, <2>7
  <1>9. QED
    BY <1>2, <1>3, <1>4, <1>5, <1>6, <1>7, <1>8 DEF WorkerStep

\* Every step of Start, Stop and the setters keeps the invariant.
LEMMA InvControl == IInv /\ ControlStep => IInv'
  <1> SUFFICES ASSUME IInv, ControlStep PROVE IInv'
    OBVIOUS
  <1> USE DEF IInv, hardware, ring, config, driver, worker, history
  <1>1. TypeOK /\ TypeOK'
    BY TypeControl
  <1>2. CASE StartClaim
    <2>1. ControlInv' /\ LocalsInv' /\ CopyInv'
      BY <1>1, <1>2 DEF StartClaim, ControlInv, Dormant, DriverInRing, WorkerInRing,
         LocalsInv, CopyInv
    <2>2. RingInv' /\ NoLostWakeup'
      BY <1>1, <1>2 DEF StartClaim, RingInv, NoLostWakeup
    <2>3. QED
      BY <1>1, <2>1, <2>2
  <1>3. CASE StartFail
    <2>1. ControlInv' /\ LocalsInv' /\ CopyInv'
      BY <1>1, <1>3 DEF StartFail, ControlInv, Dormant, DriverInRing, WorkerInRing,
         LocalsInv, CopyInv
    <2>2. RingInv' /\ NoLostWakeup'
      BY <1>1, <1>3 DEF StartFail, RingInv, NoLostWakeup
    <2>3. QED
      BY <1>1, <2>1, <2>2
  <1>4. CASE StartEnable
    <2>1. ControlInv' /\ LocalsInv' /\ CopyInv'
      BY <1>1, <1>4 DEF StartEnable, ControlInv, Dormant, DriverInRing, WorkerInRing,
         LocalsInv, CopyInv
    <2>2. RingInv' /\ NoLostWakeup'
      BY <1>1, <1>4 DEF StartEnable, RingInv, NoLostWakeup
    <2>3. QED
      BY <1>1, <2>1, <2>2
  <1>5. CASE StartArm
    <2>1. ControlInv' /\ LocalsInv' /\ CopyInv'
      BY <1>1, <1>5 DEF StartArm, ControlInv, Dormant, DriverInRing, WorkerInRing,
         LocalsInv, CopyInv
    <2>2. RingInv' /\ NoLostWakeup'
      BY <1>1, <1>5 DEF StartArm, RingInv, NoLostWakeup
    <2>3. QED
      BY <1>1, <2>1, <2>2
  <1>6. CASE StopExchange
    <2>1. ControlInv' /\ LocalsInv' /\ CopyInv'
      BY <1>1, <1>6 DEF StopExchange, ControlInv, Dormant, DriverInRing, WorkerInRing,
         LocalsInv, CopyInv
    <2>2. RingInv' /\ NoLostWakeup'
      BY <1>1, <1>6 DEF StopExchange, RingInv, NoLostWakeup
    <2>3. QED
      BY <1>1, <2>1, <2>2
  <1>7. CASE StopUnregister
    <2>1. ControlInv' /\ LocalsInv' /\ CopyInv'
      BY <1>1, <1>7 DEF StopUnregister, ControlInv, Dormant, DriverInRing, WorkerInRing,
         LocalsInv, CopyInv
    <2>2. RingInv' /\ NoLostWakeup'
      BY <1>1, <1>7 DEF StopUnregister, RingInv, NoLostWakeup
    <2>3. QED
      BY <1>1, <2>1, <2>2
  <1>8. CASE ResetRead
    <2>1. clean' => clean /\ ~DriverInRing /\ ~WorkerInRing
      BY <1>8 DEF ResetRead, Cuts
    <2>2. ControlInv' /\ LocalsInv' /\ CopyInv'
      BY <1>8, <2>1 DEF ResetRead, ControlInv, Dormant, DriverInRing, WorkerInRing,
         LocalsInv, CopyInv
    <2>3. clean' /\ cpc' = "startWrite" => writeIndex' = 0
      BY <1>8, <2>1 DEF ResetRead, ControlInv, Dormant
    <2>4. pending' = <<>> /\ Len(pending') = 0 /\ readIndex' = 0
      BY <1>8 DEF ResetRead
    <2>5. RingInv' /\ NoLostWakeup'
      BY <1>8, <2>3, <2>4, DepthAssumption DEF ResetRead, RingInv, NoLostWakeup
    <2>6. QED
      BY <1>1, <2>2, <2>5
  <1>9. CASE ResetWrite
    <2>1. clean' => ~DriverInRing /\ ~WorkerInRing
      BY <1>9 DEF ResetWrite, Cuts
    <2>2. clean' => readIndex' = 0 /\ writeIndex' = 0
      BY <1>9 DEF ResetWrite, ControlInv, Dormant
    <2>3. ControlInv' /\ LocalsInv' /\ CopyInv'
      BY <1>9, <2>1, <2>2 DEF ResetWrite, ControlInv, Dormant, DriverInRing, WorkerInRing,
         LocalsInv, CopyInv
    <2>4. pending' = <<>> /\ Len(pending') = 0
      BY <1>9 DEF ResetWrite
    <2>5. RingInv' /\ NoLostWakeup'
      BY <1>9, <2>2, <2>4, DepthAssumption DEF ResetWrite, RingInv, NoLostWakeup
    <2>6. QED
      BY <1>1, <2>3, <2>5
  <1>10. CASE SetReceiver
    <2>1. ControlInv' /\ LocalsInv' /\ CopyInv'
      BY <1>1, <1>10 DEF SetReceiver, ControlInv, Dormant, DriverInRing, WorkerInRing,
         LocalsInv, CopyInv
    <2>2. RingInv' /\ NoLostWakeup'
      BY <1>1, <1>10 DEF SetReceiver, RingInv, NoLostWakeup
    <2>3. QED
      BY <1>1, <2>1, <2>2
  <1>11. CASE SetWorkSignal
    <2>1. ControlInv' /\ LocalsInv' /\ CopyInv'
      BY <1>1, <1>11 DEF SetWorkSignal, ControlInv, Dormant, DriverInRing, WorkerInRing,
         LocalsInv, CopyInv
    <2>2. RingInv' /\ NoLostWakeup'
      BY <1>1, <1>11 DEF SetWorkSignal, RingInv, NoLostWakeup
    <2>3. QED
      BY <1>1, <2>1, <2>2
  <1>12. QED
    BY <1>2, <1>3, <1>4, <1>5, <1>6, <1>7, <1>8, <1>9, <1>10, <1>11 DEF ControlStep

\* Every step keeps the inductive invariant.
LEMMA InvNext == IInv /\ [Next]_vars => IInv'
  <1> SUFFICES ASSUME IInv, [Next]_vars PROVE IInv'
    OBVIOUS
  <1>1. CASE UNCHANGED vars
    <2>1. TypeOK'
      BY TypeNext DEF IInv
    <2>2. ControlInv' /\ LocalsInv' /\ CopyInv' /\ RingInv' /\ NoLostWakeup'
      BY <1>1 DEF IInv, ControlInv, Dormant, DriverInRing, WorkerInRing, LocalsInv, CopyInv,
         RingInv, NoLostWakeup, vars, hardware, ring, config, driver, worker, history
    <2>3. QED
      BY <2>1, <2>2 DEF IInv
  <1>2. QED
    BY <1>1, InvDriver, InvWorker, InvControl DEF Next

\* The inductive invariant holds throughout.
LEMMA Invariance == Spec => []IInv
  BY InvInit, InvNext, PTL DEF Spec

\* The callback and the drain never work on the same slot at once.
THEOREM SlotsAreExclusive == Spec => []SlotExclusive
  <1>1. IInv => SlotExclusive
    <2> SUFFICES ASSUME IInv, clean, dpc \in {"copyHead", "copyBody"},
                        wpc \in {"view", "deliver"}
                 PROVE  dWrite # wRead
      BY DEF SlotExclusive
    <2>1. /\ dWrite = writeIndex /\ wRead = readIndex /\ pending # <<>>
          /\ writeIndex = (readIndex + Len(pending)) % Depth
          /\ Len(pending) \in 1 .. Depth - 1
      BY DepthAssumption
      DEF IInv, TypeOK, ControlInv, DriverInRing, LocalsInv, RingInv
    <2>2. QED
      BY <2>1, RingReserve DEF IInv, TypeOK
  <1>2. QED
    BY <1>1, Invariance, PTL

\* Between the indices lie exactly the published, unconsumed frames, in order
\* and in one piece: the ring is a FIFO for every depth.
THEOREM RingIsFifo == Spec => []RingHoldsPending
  <1>1. IInv => RingHoldsPending
    <2> SUFFICES ASSUME IInv, clean, cpc # "stopWrite"
                 PROVE  /\ writeIndex = (readIndex + Len(pending)) % Depth
                        /\ \A i \in 1 .. Len(pending) :
                              slots[(readIndex + i - 1) % Depth]
                                 = [head |-> pending[i], body |-> pending[i]]
      BY DEF RingHoldsPending
    <2>1. writeIndex = (readIndex + Len(pending)) % Depth /\ Len(pending) \in 0 .. Depth - 1
      BY DepthAssumption DEF IInv, RingInv, TypeOK
    <2>2. ASSUME NEW i \in 1 .. Len(pending)
          PROVE  slots[(readIndex + i - 1) % Depth]
                    = [head |-> pending[i], body |-> pending[i]]
      <3>1. slots[(readIndex + i - 1) % Depth] \in Packets
        BY <2>1, RingReserve DEF IInv, TypeOK
      <3>2. QED
        BY <3>1 DEF IInv, RingInv, Packets
    <2>3. QED
      BY <2>1, <2>2
  <1>2. QED
    BY <1>1, Invariance, PTL

\* No wake-up is lost between the publication of a frame and the drain.
THEOREM WakeupsAreNotLost == Spec => []NoLostWakeup
  <1>1. IInv => NoLostWakeup
    BY DEF IInv
  <1>2. QED
    BY <1>1, Invariance, PTL

\* A frame is dropped only from a ring that holds Depth - 1 frames.
THEOREM DropsOnlyWhenFull == Spec => DropOnlyWhenFull
  <1>1. IInv /\ [Next]_vars => [DriverDrop /\ clean => Len(pending) = Depth - 1]_vars
    <2> SUFFICES ASSUME IInv, DriverDrop, clean PROVE Len(pending) = Depth - 1
      OBVIOUS
    <2>1. /\ Advance(writeIndex) = readIndex
          /\ writeIndex = (readIndex + Len(pending)) % Depth
          /\ Len(pending) \in 0 .. Depth - 1
      BY DepthAssumption
      DEF IInv, TypeOK, DriverDrop, ControlInv, DriverInRing, LocalsInv, RingInv
    <2>2. QED
      BY <2>1, RingReserve DEF IInv, TypeOK
  <1>2. QED
    BY <1>1, Invariance, PTL DEF Spec, DropOnlyWhenFull

-----------------------------------------------------------------------------
(* The driver's mode *)

\* The callback is installed exactly between the claim of a Start and the
\* release of a Stop; _promiscuousWasEnabled never claims more than was found,
\* and in a session claims all of it if every Start could read the mode.
ModeInv ==
    /\ cpc # "idle" => ~started
    /\ cpc = "idle" /\ ~started => ~registered
    /\ cpc \in {"stopRead", "stopWrite"} => ~registered
    /\ wasEnabled => found
    /\ started \/ cpc \in {"enable", "startRead", "startWrite", "arm", "unregister"} =>
          (queried /\ found => wasEnabled)
    /\ started \/ cpc \in {"startRead", "startWrite", "arm", "unregister"} => promiscuous
    /\ (cpc = "idle" /\ ~started) \/ cpc \in {"enable", "stopRead", "stopWrite"} =>
          (promiscuous => found) /\ (queried /\ found => promiscuous)

\* Every step keeps the invariant on the driver's mode.
LEMMA ModeNext == TypeOK /\ ModeInv /\ [Next]_vars => ModeInv'
  <1> SUFFICES ASSUME TypeOK, ModeInv, [Next]_vars PROVE ModeInv'
    OBVIOUS
  <1> USE DEF ModeInv
  <1>1. CASE UNCHANGED <<hardware, cpc, found, queried>>
    BY <1>1 DEF hardware
  <1>2. CASE DriverStep \/ WorkerStep
    <2>1. UNCHANGED <<hardware, cpc, found, queried>>
      BY <1>2 DEF DriverStep, DriverAccept, DriverLoadWrite, DriverDrop, DriverReserve,
         DriverCopyHead, DriverCopyBody, DriverPublish, DriverSignal, WorkerStep, WorkerWake,
         WorkerLoadRead, WorkerEmpty, WorkerFindsPacket, WorkerBuildView, WorkerDeliver,
         WorkerAdvance, history
    <2>2. QED
      BY <2>1, <1>1
  <1>3. CASE StartClaim
    BY <1>3 DEF StartClaim, TypeOK
  <1>4. CASE StartFail
    BY <1>4 DEF StartFail, history
  <1>5. CASE StartEnable
    BY <1>5 DEF StartEnable, history
  <1>6. CASE StartArm
    BY <1>6 DEF StartArm, history
  <1>7. CASE StopExchange
    BY <1>7 DEF StopExchange, history
  <1>8. CASE StopUnregister
    BY <1>8 DEF StopUnregister, history
  <1>9. CASE ResetRead
    BY <1>9 DEF ResetRead, hardware
  <1>10. CASE ResetWrite
    BY <1>10 DEF ResetWrite, hardware
  <1>11. CASE SetReceiver \/ SetWorkSignal
    <2>1. UNCHANGED <<hardware, cpc, found, queried>>
      BY <1>11 DEF SetReceiver, SetWorkSignal, history
    <2>2. QED
      BY <2>1, <1>1
  <1>12. CASE UNCHANGED vars
    <2>1. UNCHANGED <<hardware, cpc, found, queried>>
      BY <1>12 DEF vars, history
    <2>2. QED
      BY <2>1, <1>1
  <1>13. QED
    BY <1>2, <1>3, <1>4, <1>5, <1>6, <1>7, <1>8, <1>9, <1>10, <1>11, <1>12
    DEF Next, ControlStep

\* Stop, and a Start that fails, leave the driver as the first Start found it.
THEOREM ModeIsRestored == Spec => []PromiscuousRestored
  <1>1. Init => ModeInv
    BY DEF Init, ModeInv
  <1>2. TypeOK /\ ModeInv => PromiscuousRestored
    BY DEF TypeOK, ModeInv, PromiscuousRestored
  <1>3. QED
    BY <1>1, <1>2, ModeNext, TypeCorrect, PTL DEF Spec

-----------------------------------------------------------------------------
(* Order of delivery *)

\* Frames are numbered by arrival: what waits is in order and newer than what
\* was delivered, and what is being copied is newer than what waits.
OrderInv ==
    /\ \A i \in Indices : slots[i].head <= arrivals
    /\ wHead <= arrivals /\ dFrame <= arrivals /\ delivered.head <= arrivals
    /\ \A i \in 1 .. Len(pending) : pending[i] <= arrivals
    /\ \A i, j \in 1 .. Len(pending) : i < j => pending[i] < pending[j]
    /\ clean => \A i \in 1 .. Len(pending) :
          wpc # "advance" \/ i > 1 => delivered.head < pending[i]
    /\ clean /\ DriverInRing =>
          /\ delivered.head < dFrame
          /\ \A i \in 1 .. Len(pending) : pending[i] < dFrame

\* The packet in the drain's hands is the oldest pending frame, in one piece.
LEMMA InHand ==
  ASSUME IInv, clean, wpc = "deliver"
  PROVE  /\ pending # <<>> /\ Len(pending) \in Nat \ {0}
         /\ wHead = pending[1] /\ slots[wRead].body = pending[1]
  <1>1. /\ pending # <<>> /\ wRead = readIndex /\ cpc # "stopWrite"
        /\ wHead = slots[readIndex].head
    BY DEF IInv, LocalsInv, ControlInv, CopyInv, WorkerInRing
  <1>2. Len(pending) \in Nat \ {0} /\ readIndex \in Indices
    BY <1>1 DEF IInv, TypeOK
  <1>3. (readIndex + 1 - 1) % Depth = readIndex
    BY <1>2, DepthAssumption DEF Indices
  <1>4. slots[readIndex].head = pending[1] /\ slots[readIndex].body = pending[1]
    BY <1>1, <1>2, <1>3 DEF IInv, RingInv
  <1>5. QED
    BY <1>1, <1>2, <1>4

\* The types that comparing frames needs.
LEMMA OrderTypes ==
  ASSUME IInv
  PROVE  /\ TypeOK
         /\ arrivals \in Int /\ wHead \in Int /\ dFrame \in Int /\ delivered.head \in Int
         /\ \A i \in Indices : slots[i].head \in Int
         /\ Len(pending) \in Nat /\ \A i \in 1 .. Len(pending) : pending[i] \in Int
  <1>1. TypeOK
    BY DEF IInv
  <1>2. arrivals \in Int /\ wHead \in Int /\ dFrame \in Int /\ delivered.head \in Int
    BY <1>1 DEF TypeOK, Packets, Frames
  <1>3. \A i \in Indices : slots[i].head \in Int
    BY <1>1 DEF TypeOK, Packets, Frames
  <1>4. pending \in Seq(Frames)
    BY <1>1 DEF TypeOK
  <1>5. Len(pending) \in Nat /\ \A i \in 1 .. Len(pending) : pending[i] \in Int
    <2>1. Len(pending) \in Nat /\ \A i \in 1 .. Len(pending) : pending[i] \in Frames
      BY <1>4
    <2>2. QED
      BY <2>1 DEF Frames
  <1>6. QED
    BY <1>1, <1>2, <1>3, <1>5

\* Every step of the callback keeps the order.
LEMMA OrderDriver == IInv /\ OrderInv /\ DriverStep => OrderInv'
  <1> SUFFICES ASSUME IInv, OrderInv, DriverStep PROVE OrderInv'
    OBVIOUS
  <1> USE DEF OrderInv, DriverInRing
  <1>0. /\ TypeOK
        /\ arrivals \in Int /\ wHead \in Int /\ dFrame \in Int /\ delivered.head \in Int
        /\ \A i \in Indices : slots[i].head \in Int
        /\ Len(pending) \in Nat /\ \A i \in 1 .. Len(pending) : pending[i] \in Int
    BY OrderTypes
  <1>1. CASE DriverAccept
    <2>1. /\ UNCHANGED <<slots, wHead, wpc, delivered, pending, clean>>
          /\ arrivals' = arrivals + 1 /\ dFrame' = arrivals + 1
      BY <1>1 DEF DriverAccept, ring, worker
    <2>2. QED
      BY <1>0, <2>1
  <1>2. CASE DriverLoadWrite
    BY <1>0, <1>2 DEF DriverLoadWrite, ring, worker, history
  <1>3. CASE DriverDrop
    BY <1>0, <1>3 DEF DriverDrop, ring, worker, history, TypeOK, Frames
  <1>4. CASE DriverReserve
    BY <1>0, <1>4 DEF DriverReserve, ring, worker, history
  <1>5. CASE DriverCopyHead
    BY <1>0, <1>5 DEF DriverCopyHead, worker, history, TypeOK, Packets
  <1>6. CASE DriverCopyBody
    BY <1>0, <1>6 DEF DriverCopyBody, worker, history, TypeOK, Packets
  <1>7. CASE DriverPublish
    <2>1. CASE clean
      BY <1>0, <1>7, <2>1 DEF DriverPublish, worker, TypeOK, Frames
    <2>2. CASE ~clean
      BY <1>0, <1>7, <2>2 DEF DriverPublish, worker
    <2>3. QED
      BY <2>1, <2>2
  <1>8. CASE DriverSignal
    BY <1>0, <1>8 DEF DriverSignal, ring, TypeOK, Frames
  <1>9. QED
    BY <1>1, <1>2, <1>3, <1>4, <1>5, <1>6, <1>7, <1>8 DEF DriverStep

\* Every step of the drain keeps the order.
LEMMA OrderWorker == IInv /\ OrderInv /\ WorkerStep => OrderInv'
  <1> SUFFICES ASSUME IInv, OrderInv, WorkerStep PROVE OrderInv'
    OBVIOUS
  <1> USE DEF OrderInv, DriverInRing
  <1>0. /\ TypeOK
        /\ arrivals \in Int /\ wHead \in Int /\ dFrame \in Int /\ delivered.head \in Int
        /\ \A i \in Indices : slots[i].head \in Int
        /\ Len(pending) \in Nat /\ \A i \in 1 .. Len(pending) : pending[i] \in Int
    BY OrderTypes
  <1>1. CASE WorkerWake
    BY <1>0, <1>1 DEF WorkerWake, ring, driver, history
  <1>2. CASE WorkerLoadRead
    BY <1>0, <1>2 DEF WorkerLoadRead, ring, driver
  <1>3. CASE WorkerEmpty
    BY <1>0, <1>3 DEF WorkerEmpty, ring, driver, history
  <1>4. CASE WorkerFindsPacket
    BY <1>0, <1>4 DEF WorkerFindsPacket, ring, driver, history
  <1>5. CASE WorkerBuildView
    BY <1>0, <1>5 DEF WorkerBuildView, ring, driver, history, TypeOK
  <1>6. CASE WorkerDeliver
    <2>1. clean => Len(pending) \in Nat \ {0} /\ wHead = pending[1]
      BY <1>6, InHand DEF WorkerDeliver
    <2>2. CASE receiver
      <3>1. /\ UNCHANGED <<slots, arrivals, wHead, dFrame, dpc, pending, clean>>
            /\ delivered'.head = wHead /\ wpc' = "advance"
        BY <1>6, <2>2 DEF WorkerDeliver, ring, driver
      <3>2. QED
        BY <1>0, <2>1, <3>1
    <2>3. CASE ~receiver
      BY <1>0, <1>6, <2>3 DEF WorkerDeliver, ring, driver
    <2>4. QED
      BY <2>2, <2>3
  <1>7. CASE WorkerAdvance
    <2>1. CASE pending = <<>>
      BY <1>0, <1>7, <2>1 DEF WorkerAdvance, driver, TypeOK, Frames
    <2>2. CASE pending # <<>>
      <3>1. /\ pending' = Tail(pending) /\ Len(pending') = Len(pending) - 1
            /\ \A i \in 1 .. Len(pending') : pending'[i] = pending[i + 1]
        BY <1>0, <1>7, <2>2 DEF WorkerAdvance, TypeOK
      <3>2. QED
        BY <1>0, <1>7, <3>1 DEF WorkerAdvance, driver, TypeOK, Frames
    <2>3. QED
      BY <2>1, <2>2
  <1>8. QED
    BY <1>1, <1>2, <1>3, <1>4, <1>5, <1>6, <1>7 DEF WorkerStep

\* Every step of Start, Stop and the setters keeps the order.
LEMMA OrderControl == IInv /\ OrderInv /\ ControlStep => OrderInv'
  <1> SUFFICES ASSUME IInv, OrderInv, ControlStep PROVE OrderInv'
    OBVIOUS
  <1> USE DEF OrderInv, DriverInRing
  <1>1. CASE ResetRead \/ ResetWrite
    <2>1. clean' => ~DriverInRing
      BY <1>1, Zenon DEF ResetRead, ResetWrite, Cuts
    <2>2. UNCHANGED <<slots, arrivals, wHead, dFrame, dpc, wpc, delivered>> /\ pending' = <<>>
      BY <1>1 DEF ResetRead, ResetWrite, driver, worker
    <2>3. Len(pending') = 0
      BY <2>2
    <2>4. QED
      BY <2>1, <2>2, <2>3
  <1>2. CASE ~(ResetRead \/ ResetWrite)
    <2>1. UNCHANGED <<slots, arrivals, wHead, dFrame, dpc, wpc, delivered, pending, clean>>
      BY <1>2 DEF ControlStep, StartClaim, StartFail, StartEnable, StartArm, StopExchange,
         StopUnregister, SetReceiver, SetWorkSignal, ring, driver, worker, history
    <2>2. QED
      BY <2>1
  <1>3. QED
    BY <1>1, <1>2

\* What OnRadioPacket sees is the oldest pending frame, whole, and newer than
\* everything it has seen before, in this session and in earlier ones.
THEOREM DeliveryIsOrdered == Spec => DeliveredInOrder
  <1>1. Init => OrderInv
    BY DEF Init, OrderInv, DriverInRing, Indices
  <1>2. IInv /\ OrderInv /\ [Next]_vars => OrderInv'
    <2> SUFFICES ASSUME IInv, OrderInv, [Next]_vars PROVE OrderInv'
      OBVIOUS
    <2>1. CASE UNCHANGED vars
      BY <2>1 DEF vars, ring, driver, worker, history, OrderInv, DriverInRing
    <2>2. QED
      BY <2>1, OrderDriver, OrderWorker, OrderControl DEF Next
  <1>3. IInv /\ OrderInv /\ [Next]_vars =>
          [WorkerDeliver /\ receiver /\ clean =>
              /\ pending # <<>>
              /\ delivered' = [head |-> Head(pending), body |-> Head(pending)]
              /\ delivered'.head > delivered.head]_vars
    <2> SUFFICES ASSUME IInv, OrderInv, WorkerDeliver, receiver, clean
                 PROVE  /\ pending # <<>>
                        /\ delivered' = [head |-> Head(pending), body |-> Head(pending)]
                        /\ delivered'.head > delivered.head
      OBVIOUS
    <2>1. /\ pending # <<>> /\ Len(pending) \in Nat \ {0}
          /\ wHead = pending[1] /\ slots[wRead].body = pending[1] /\ wpc = "deliver"
      BY InHand DEF WorkerDeliver
    <2>2. Head(pending) = pending[1]
      BY <2>1 DEF IInv, TypeOK
    <2>3. delivered' = [head |-> Head(pending), body |-> Head(pending)]
      BY <2>1, <2>2 DEF WorkerDeliver
    <2>4. delivered.head < pending[1]
      BY <2>1 DEF OrderInv
    <2>5. delivered.head \in Int /\ pending[1] \in Int
      BY <2>1 DEF IInv, TypeOK, Packets, Frames
    <2>6. QED
      BY <2>1, <2>2, <2>3, <2>4, <2>5
  <1>4. QED
    BY <1>1, <1>2, <1>3, Invariance, PTL DEF Spec, DeliveredInOrder

-----------------------------------------------------------------------------
(* The ring implements a FIFO *)

\* The frames that wait, and the packets they are.
Waiting  == IF clean THEN pending ELSE <<>>
Whole(s) == [i \in 1 .. Len(s) |-> [head |-> s[i], body |-> s[i]]]

\* Building packets out of frames keeps the length and commutes with Append and
\* Tail.
LEMMA WholeFacts ==
    ASSUME NEW s \in Seq(Frames)
    PROVE  /\ Whole(s) \in Seq(Packets) /\ Len(Whole(s)) = Len(s)
           /\ \A i \in 1 .. Len(s) : Whole(s)[i] = [head |-> s[i], body |-> s[i]]
           /\ \A f \in Frames :
                 Whole(Append(s, f)) = Append(Whole(s), [head |-> f, body |-> f])
           /\ s # <<>> => Whole(Tail(s)) = Tail(Whole(s))
  <1>0. \A t \in Seq(Frames) :
           /\ Len(t) \in Nat /\ Whole(t) \in Seq(Packets) /\ Len(Whole(t)) = Len(t)
           /\ \A i \in 1 .. Len(t) : Whole(t)[i] = [head |-> t[i], body |-> t[i]]
    <2> TAKE t \in Seq(Frames)
    <2>1. Len(t) \in Nat /\ \A i \in 1 .. Len(t) : t[i] \in Frames
      OBVIOUS
    <2>2. Whole(t) \in [1 .. Len(t) -> Packets]
      BY <2>1 DEF Whole, Packets
    <2>3. Whole(t) \in Seq(Packets) /\ Len(Whole(t)) = Len(t)
      BY <2>1, <2>2
    <2>4. QED
      BY <2>1, <2>3 DEF Whole
  <1>1. ASSUME NEW f \in Frames
        PROVE  Whole(Append(s, f)) = Append(Whole(s), [head |-> f, body |-> f])
    <2> DEFINE a == Whole(Append(s, f))
               b == Append(Whole(s), [head |-> f, body |-> f])
    <2>1. /\ Append(s, f) \in Seq(Frames) /\ Len(Append(s, f)) = Len(s) + 1
          /\ \A i \in 1 .. Len(s) + 1 :
                Append(s, f)[i] = IF i <= Len(s) THEN s[i] ELSE f
      OBVIOUS
    <2>2. [head |-> f, body |-> f] \in Packets
      BY DEF Packets
    <2>3. /\ b \in Seq(Packets) /\ Len(b) = Len(s) + 1
          /\ \A i \in 1 .. Len(s) + 1 :
                b[i] = IF i <= Len(s) THEN Whole(s)[i] ELSE [head |-> f, body |-> f]
      BY <1>0, <2>2
    <2>4. /\ a \in Seq(Packets) /\ Len(a) = Len(s) + 1
          /\ \A i \in 1 .. Len(s) + 1 :
                a[i] = [head |-> Append(s, f)[i], body |-> Append(s, f)[i]]
      BY <1>0, <2>1
    <2>5. \A i \in 1 .. Len(a) : a[i] = b[i]
      BY <1>0, <2>1, <2>3, <2>4
    <2> HIDE DEF a, b
    <2>6. a = b
      BY <2>3, <2>4, <2>5, SeqEqual
    <2>7. QED
      BY <2>6 DEF a, b
  <1>2. ASSUME s # <<>>
        PROVE  Whole(Tail(s)) = Tail(Whole(s))
    <2> DEFINE a == Whole(Tail(s))
               b == Tail(Whole(s))
    <2>1. /\ Tail(s) \in Seq(Frames) /\ Len(Tail(s)) = Len(s) - 1 /\ Len(s) \in Nat \ {0}
          /\ \A i \in 1 .. Len(s) - 1 : Tail(s)[i] = s[i + 1]
      BY <1>2
    <2>2. Whole(s) # <<>>
      BY <1>0, <2>1
    <2>3. /\ b \in Seq(Packets) /\ Len(b) = Len(s) - 1
          /\ \A i \in 1 .. Len(s) - 1 : b[i] = Whole(s)[i + 1]
      BY <1>0, <2>2
    <2>4. /\ a \in Seq(Packets) /\ Len(a) = Len(s) - 1
          /\ \A i \in 1 .. Len(s) - 1 : a[i] = [head |-> Tail(s)[i], body |-> Tail(s)[i]]
      BY <1>0, <2>1
    <2>5. ASSUME NEW i \in 1 .. Len(a) PROVE a[i] = b[i]
      <3>1. i \in 1 .. Len(s) - 1 /\ i + 1 \in 1 .. Len(s)
        BY <2>1, <2>4
      <3>2. Whole(s)[i + 1] = [head |-> s[i + 1], body |-> s[i + 1]]
        BY <1>0, <3>1
      <3>3. a[i] = [head |-> s[i + 1], body |-> s[i + 1]]
        BY <2>1, <2>4, <3>1
      <3>4. QED
        BY <2>3, <3>1, <3>2, <3>3
    <2> HIDE DEF a, b
    <2>6. a = b
      BY <2>3, <2>4, <2>5, SeqEqual
    <2>7. QED
      BY <2>6 DEF a, b
  <1>3. QED
    BY <1>0, <1>1, <1>2

\* Between its indices the ring holds the waiting frames as whole packets.
LEMMA ContentsAreWaiting == IInv => Contents = Whole(Waiting)
  <1> SUFFICES ASSUME IInv PROVE Contents = Whole(Waiting)
    OBVIOUS
  <1>1. TypeOK /\ <<>> \in Seq(Frames) /\ Whole(<<>>) = <<>>
    BY DEF IInv, Whole
  <1>2. CASE ~clean \/ cpc = "stopWrite"
    <2>1. Waiting = <<>>
      BY <1>2 DEF IInv, ControlInv, Waiting
    <2>2. QED
      BY <1>1, <1>2, <2>1 DEF Contents
  <1>3. CASE clean /\ cpc # "stopWrite"
    <2>1. /\ readIndex \in Indices /\ Len(pending) \in 0 .. Depth - 1
          /\ writeIndex = (readIndex + Len(pending)) % Depth
          /\ pending \in Seq(Frames)
      BY <1>1, <1>3, DepthAssumption DEF TypeOK, IInv, RingInv
    <2>2. (readIndex + Len(pending)) % Depth
             = IF readIndex + Len(pending) < Depth THEN readIndex + Len(pending)
               ELSE readIndex + Len(pending) - Depth
      BY <2>1, DepthAssumption DEF Indices
    <2>3. writeIndex - readIndex \in {Len(pending), Len(pending) - Depth}
      BY <2>1, <2>2, DepthAssumption DEF Indices
    <2>4. (writeIndex - readIndex) % Depth = Len(pending)
      BY <2>1, <2>3, DepthAssumption
    <2>5. ASSUME NEW i \in 1 .. Len(pending)
          PROVE  slots[(readIndex + i - 1) % Depth] = [head |-> pending[i], body |-> pending[i]]
      <3>1. slots[(readIndex + i - 1) % Depth] \in Packets
        BY <1>1, <2>1, RingReserve DEF TypeOK
      <3>2. /\ slots[(readIndex + i - 1) % Depth].head = pending[i]
            /\ slots[(readIndex + i - 1) % Depth].body = pending[i]
        BY <1>3 DEF IInv, RingInv
      <3>3. QED
        BY <3>1, <3>2 DEF Packets
    <2>6. QED
      BY <1>3, <2>4, <2>5 DEF Contents, Waiting, Whole
  <1>4. QED
    BY <1>2, <1>3

\* Every step leaves the waiting frames alone, adds a newer one where there is
\* room, takes the oldest or throws all away.
LEMMA WaitingSteps ==
    ASSUME IInv, OrderInv, [Next]_vars
    PROVE  \/ Waiting' \in {Waiting, <<>>}
           \/ Waiting # <<>> /\ Waiting' = Tail(Waiting)
           \/ /\ dFrame \in Frames /\ Len(Waiting) < Depth - 1
              /\ \A i \in 1 .. Len(Waiting) : Waiting[i] < dFrame
              /\ Waiting' = Append(Waiting, dFrame)
  <1> USE DEF hardware, ring, config, driver, worker, history
  <1>1. CASE UNCHANGED <<pending, clean>>
    BY <1>1 DEF Waiting
  <1>2. CASE DriverStep
    <2>1. CASE DriverPublish
      <3>1. clean' = clean /\ pending' = IF clean THEN Append(pending, dFrame) ELSE pending
        BY <2>1 DEF DriverPublish
      <3>2. CASE ~clean
        BY <3>1, <3>2 DEF Waiting
      <3>3. CASE clean
        <4>1. /\ cpc # "stopWrite" /\ dWrite = writeIndex /\ Advance(writeIndex) # readIndex
              /\ \A i \in 1 .. Len(pending) : pending[i] < dFrame
          BY <2>1, <3>3 DEF DriverPublish, IInv, ControlInv, LocalsInv, OrderInv, DriverInRing
        <4>2. /\ readIndex \in Indices /\ Len(pending) \in 0 .. Depth - 1 /\ dFrame \in Frames
              /\ writeIndex = (readIndex + Len(pending)) % Depth
          BY <3>3, <4>1, DepthAssumption DEF IInv, TypeOK, RingInv
        <4>3. Len(pending) + 1 <= Depth - 1
          BY <4>1, <4>2, RingReserve
        <4>4. Len(pending) < Depth - 1
          BY <4>2, <4>3, DepthAssumption
        <4>5. QED
          BY <3>1, <3>3, <4>1, <4>2, <4>4 DEF Waiting
      <3>4. QED
        BY <3>2, <3>3
    <2>2. CASE ~DriverPublish
      BY <1>1, <1>2, <2>2 DEF DriverStep, DriverAccept, DriverLoadWrite, DriverDrop,
         DriverReserve, DriverCopyHead, DriverCopyBody, DriverSignal
    <2>3. QED
      BY <2>1, <2>2
  <1>3. CASE WorkerStep
    <2>1. CASE WorkerLoadRead
      BY <1>1, <2>1 DEF WorkerLoadRead, Waiting
    <2>2. CASE WorkerAdvance
      BY <2>2 DEF WorkerAdvance, Waiting
    <2>3. CASE ~WorkerLoadRead /\ ~WorkerAdvance
      BY <1>1, <1>3, <2>3 DEF WorkerStep, WorkerWake, WorkerEmpty, WorkerFindsPacket,
         WorkerBuildView, WorkerDeliver
    <2>4. QED
      BY <2>1, <2>2, <2>3
  <1>4. CASE ControlStep
    <2>1. CASE ResetRead \/ ResetWrite
      BY <2>1 DEF ResetRead, ResetWrite, Waiting
    <2>2. CASE ~(ResetRead \/ ResetWrite)
      BY <1>1, <1>4, <2>2 DEF ControlStep, StartClaim, StartFail, StartEnable, StartArm,
         StopExchange, StopUnregister, SetReceiver, SetWorkSignal
    <2>3. QED
      BY <2>1, <2>2
  <1>5. QED
    BY <1>1, <1>2, <1>3, <1>4 DEF Next, vars

\* The lock-free ring, with its two indices and its three tasks, implements the
\* bounded FIFO of whole packets: for every ring depth.
THEOREM RingImplementsFifo == Spec => ImplementsFifo
  <1>1. Init => OrderInv
    BY DEF Init, OrderInv, DriverInRing, Indices
  <1>2. IInv /\ OrderInv /\ [Next]_vars => OrderInv'
    BY OrderDriver, OrderWorker, OrderControl
    DEF Next, vars, ring, driver, worker, history, OrderInv, DriverInRing
  <1>3. Init => Fifo!Init
    <2> SUFFICES ASSUME Init PROVE Contents = <<>>
      BY DEF Fifo!Init
    <2>1. Waiting = <<>> /\ Whole(<<>>) = <<>>
      BY DEF Init, Waiting, Whole
    <2>2. QED
      BY <2>1, InvInit, ContentsAreWaiting
  <1>4. IInv /\ IInv' /\ OrderInv /\ [Next]_vars => [Fifo!Next]_Contents
    <2> SUFFICES ASSUME IInv, IInv', OrderInv, [Next]_vars
                 PROVE  Fifo!Next \/ Contents' = Contents
      BY DEF Fifo!Next
    <2>1. Contents = Whole(Waiting) /\ Contents' = Whole(Waiting')
      <3>1. Contents = Whole(Waiting)
        BY ContentsAreWaiting
      <3>2. (Contents = Whole(Waiting))'
        BY ContentsAreWaiting, PTL
      <3>3. QED
        BY <3>1, <3>2 DEF Whole
    <2>2. Waiting \in Seq(Frames) /\ Len(Waiting) \in Nat
      BY DEF IInv, TypeOK, Waiting
    <2>3. CASE Waiting' = Waiting
      BY <2>1, <2>3
    <2>4. CASE Waiting' = <<>>
      <3>1. Contents' = <<>>
        BY <2>1, <2>4 DEF Whole
      <3>2. QED
        BY <3>1 DEF Fifo!Next, Fifo!Flush
    <2>5. CASE Waiting # <<>> /\ Waiting' = Tail(Waiting)
      <3>1. Contents # <<>>
        BY <2>1, <2>2, <2>5, WholeFacts
      <3>2. Contents' = Tail(Contents)
        BY <2>1, <2>2, <2>5, WholeFacts
      <3>3. QED
        BY <3>1, <3>2 DEF Fifo!Next, Fifo!Take
    <2>6. CASE /\ dFrame \in Frames /\ Len(Waiting) < Depth - 1
               /\ \A i \in 1 .. Len(Waiting) : Waiting[i] < dFrame
               /\ Waiting' = Append(Waiting, dFrame)
      <3>1. Contents' = Append(Contents, [head |-> dFrame, body |-> dFrame])
        BY <2>1, <2>2, <2>6, WholeFacts
      <3>2. Len(Contents) < Depth - 1
        BY <2>1, <2>2, <2>6, WholeFacts
      <3>3. \A i \in DOMAIN Contents : Contents[i].head < dFrame
        <4>1. DOMAIN Contents = 1 .. Len(Waiting)
          BY <2>1 DEF Whole
        <4>2. \A i \in 1 .. Len(Waiting) : Contents[i] = [head |-> Waiting[i], body |-> Waiting[i]]
          BY <2>1, <2>2, WholeFacts
        <4>3. QED
          BY <2>6, <4>1, <4>2
      <3>4. Fifo!Put
        BY <2>6, <3>1, <3>2, <3>3 DEF Fifo!Put
      <3>5. QED
        BY <3>4 DEF Fifo!Next
    <2>7. QED
      BY <2>3, <2>4, <2>5, <2>6, WaitingSteps
  <1>5. QED
    BY <1>1, <1>2, <1>3, <1>4, Invariance, PTL DEF Spec, ImplementsFifo, Fifo!Spec

-----------------------------------------------------------------------------
(* The receive time of a frame *)

\* A time is its epoch and its stamp.
LEMMA EpochAndStamp ==
    ASSUME NEW x \in Int, NEW w \in Nat \ {0}
    PROVE  \E q \in Int : x = q * w + (x % w) /\ x % w \in 0 .. w - 1
  <1>1. x = (x \div w) * w + (x % w) /\ x % w \in 0 .. w - 1 /\ x \div w \in Int
    OBVIOUS
  <1>2. QED
    BY <1>1

\* Two times less than two wraps apart, as their epochs tell, are in the same
\* epoch or in neighbouring ones.
LEMMA NeighbouringEpochs ==
    ASSUME NEW w \in Nat \ {0}, NEW d \in Int, d * w < 2 * w, d * w > 0 - 2 * w
    PROVE  d \in {-1, 0, 1}
  <1>1. CASE d >= 2
    <2>1. d - 2 \in Nat /\ (d - 2) * w = d * w - 2 * w
      BY <1>1
    <2>2. (d - 2) * w >= 0
      BY <2>1
    <2>3. d * w \in Int /\ 2 * w \in Int
      OBVIOUS
    <2>4. QED
      BY <2>1, <2>2, <2>3
  <1>2. CASE d <= -2
    <2>1. 0 - 2 - d \in Nat /\ (0 - 2 - d) * w = 0 - 2 * w - d * w
      BY <1>2
    <2>2. (0 - 2 - d) * w >= 0
      BY <2>1
    <2>3. d * w \in Int /\ 2 * w \in Int
      OBVIOUS
    <2>4. QED
      BY <2>1, <2>2, <2>3
  <1>3. QED
    BY <1>1, <1>2

\* Nearest undoes the loss of the epoch.
LEMMA NearestIsArrival ==
    ASSUME NEW now \in Int, NEW arrived \in Int,
           now - arrived \in -(HalfWrap - 1) .. HalfWrap - 1
    PROVE  Nearest(now, now - (now % Wrap) + (arrived % Wrap)) = arrived
  <1>1. PICK h \in Nat \ {0} : h = HalfWrap
    BY ClockAssumption
  <1>2. PICK w \in Nat \ {0} : w = Wrap /\ w = 2 * h
    BY <1>1 DEF Wrap
  <1>3. PICK q \in Int : now = q * w + (now % w) /\ now % w \in 0 .. w - 1
    BY EpochAndStamp
  <1>4. PICK p \in Int : arrived = p * w + (arrived % w) /\ arrived % w \in 0 .. w - 1
    BY EpochAndStamp
  <1>5. PICK receive \in Int : receive = now - (now % w) + (arrived % w)
    BY <1>3, <1>4
  <1>6. now - arrived < h /\ arrived - now < h
    BY <1>1
  <1>7. PICK d \in Int : d = q - p
    OBVIOUS
  <1>8. PICK m \in Int : m = d * w
    OBVIOUS
  <1>9. m = q * w - p * w
    BY <1>7, <1>8
  <1>10. q * w \in Int /\ p * w \in Int
    OBVIOUS
  <1>11. receive = arrived + m
    BY <1>3, <1>4, <1>5, <1>9, <1>10
  <1>12. m < 2 * w /\ m > 0 - 2 * w
    BY <1>2, <1>3, <1>4, <1>6, <1>9, <1>10
  <1>13. d \in {-1, 0, 1}
    BY <1>8, <1>12, NeighbouringEpochs
  <1>14. m = -w \/ m = 0 \/ m = w
    BY <1>8, <1>13
  <1>15. Nearest(now, receive) = arrived
    <2>1. CASE m = 0
      <3>1. receive = arrived /\ ~(receive - now > h) /\ ~(now - receive > h)
        BY <1>6, <1>11, <2>1
      <3>2. QED
        BY <1>1, <3>1 DEF Nearest
    <2>2. CASE m = w
      <3>1. receive - now > h /\ ~(now - receive > h) /\ receive - w = arrived
        BY <1>2, <1>6, <1>11, <2>2
      <3>2. QED
        BY <1>1, <1>2, <3>1 DEF Nearest
    <2>3. CASE m = -w
      <3>1. now - receive > h /\ ~(receive - now > h) /\ receive + w = arrived
        BY <1>2, <1>6, <1>11, <2>3
      <3>2. QED
        BY <1>1, <1>2, <3>1 DEF Nearest
    <2>4. QED
      BY <1>14, <2>1, <2>2, <2>3
  <1>16. QED
    BY <1>2, <1>5, <1>15

\* On clocks of any width a stamp gives back its time.
LEMMA Recovered == StampsAreRecovered
  <1> SUFFICES ASSUME NEW now \in Times \cap Nat, NEW arrived \in Times,
                      now - arrived \in -(HalfWrap - 1) .. HalfWrap - 1
               PROVE  RecoverReceiveTimestampNanoseconds(now, arrived % Wrap)
                          = (arrived * Scale) % Modulus
    BY DEF StampsAreRecovered
  <1>1. now \in Int /\ arrived \in Int
    BY ClockAssumption
  <1>2. Nearest(now, now - (now % Wrap) + (arrived % Wrap)) = arrived
    BY <1>1, NearestIsArrival
  <1>3. QED
    BY <1>2 DEF RecoverReceiveTimestampNanoseconds

\* A queued frame has its time of arrival, on clocks of any width and for any
\* times: with Wrap = 2^32, Modulus = 2^64 and Times = Int, those of the code.
THEOREM ArrivalIsRecovered == Spec => []RecoversArrival
  <1>1. RecoversArrival
    BY Recovered DEF RecoversArrival
  <1>2. QED
    BY <1>1, PTL

=============================================================================
