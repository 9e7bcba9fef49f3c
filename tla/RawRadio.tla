------------------------------ MODULE RawRadio ------------------------------
(***************************************************************************)
(* The receive path of Raw80211Radio (ESPressio_Raw80211Radio.hpp): a ring *)
(* of Depth packet slots between the Espressif Wi-Fi task, which runs the  *)
(* PromiscuousReceive callback, and the RadioWorker task, which runs       *)
(* DrainInbound, while an application task calls Start and Stop.  There is *)
(* no lock: the three tasks share two atomic indices, one atomic flag and  *)
(* the slots themselves, so every atomic access, each half of the copy     *)
(* into a slot and each half of the read out of it is a step of its own.   *)
(*                                                                         *)
(* A frame is the number of its arrival.  Frames that the callback rejects *)
(* (IsOurFrame, destination, length) leave no trace and are not modelled.  *)
(* Local variables go back to 0 where they go out of scope.  The receive   *)
(* time in a header is in RadioTimestamp, for all clocks at once.          *)
(* A slot has two halves, written by two statements of the callback (the   *)
(* header fields, then the payload bytes): a slot whose halves come from   *)
(* different frames is a torn packet.                                      *)
(***************************************************************************)
EXTENDS Integers, Sequences, RadioTimestamp

CONSTANTS
    Depth,        \* ESPRESSIO_ESP32_RAW_RADIO_RX_QUEUE_DEPTH
    MaxFrames,    \* bound: accepted frames in a behaviour
    MaxSessions   \* bound: calls of Start that reach the hardware

\* The static_asserts on the queue depth (lines 51-52).
ASSUME DepthAssumption == Depth \in Nat /\ Depth > 1 /\ Depth <= 255
ASSUME BoundsAssumption == MaxFrames \in Nat /\ MaxSessions \in Nat

VARIABLES
    started,      \* _started
    registered,   \* CallbackInstance() == this and the rx callback is installed
    promiscuous,  \* the Wi-Fi driver's promiscuous mode
    wasEnabled,   \* _promiscuousWasEnabled
    readIndex,    \* _readIndex
    writeIndex,   \* _writeIndex
    slots,        \* _receiveQueue
    workSignal,   \* _workSignal # nullptr
    receiver,     \* _receiver # nullptr
    dpc,          \* Wi-Fi task: where PromiscuousReceive is
    dWrite,       \*   its local `write`
    dFrame,       \*   the frame it is copying
    wpc,          \* RadioWorker: where DrainInbound is
    wRead,        \*   its local `read`
    wHead,        \*   the header half of the view it has built
    wake,         \*   a wake-up the worker has not served yet
    cpc,          \* application task: where Start or Stop is
    arrivals,     \* history: frames accepted so far
    sessions,     \* history: Starts so far
    found,        \* history: promiscuous mode before the first Start
    queried,      \* history: every Start could read the mode it found
    pending,      \* history: frames published and not consumed, in order
    delivered,    \* history: what OnRadioPacket last saw
    missed,       \* history: the last publication found no work signal
    clean         \* history: no index reset has cut into a callback or a drain

hardware == <<started, registered, promiscuous, wasEnabled>>
ring     == <<readIndex, writeIndex, slots>>
config   == <<workSignal, receiver>>
driver   == <<dpc, dWrite, dFrame>>
worker   == <<wpc, wRead, wHead, wake>>
history  == <<arrivals, sessions, found, queried, pending, delivered, missed, clean>>
vars     == <<hardware, ring, config, driver, worker, cpc, history>>

Indices == 0 .. Depth - 1
Frames  == 0 .. MaxFrames             \* 0: no frame yet
Packets == [head : Frames, body : Frames]

\* Mutation: the wrap is forgotten.
AdvanceNoWrap(i) == i + 1

Advance(i) == (i + 1) % Depth

\* The callback has passed the _started check and will still use the ring.
DriverInRing == dpc \in {"accepted", "loaded", "copyHead", "copyBody", "publish"}

\* The drain holds a read index that it will still use.
WorkerInRing == wpc \in {"compare", "view", "deliver", "advance"}

\* A reset of an index while another task holds a copy of it.
Cuts == DriverInRing \/ WorkerInRing

-----------------------------------------------------------------------------
(* Mutations: plausible mistakes in the code, each the body of the action it  *)
(* is named after with one thing wrong.  No specification uses them.          *)

\* A callback that takes the next slot without looking at the read index.
DriverReserveUnchecked ==
    /\ dpc = "loaded"
    /\ dpc' = "copyHead"
    /\ UNCHANGED <<hardware, ring, config, dWrite, dFrame, worker, cpc, history>>

\* A ring that counts itself full one slot too early.
DriverDropEarly ==
    /\ dpc = "loaded" /\ Advance(Advance(dWrite)) = readIndex
    /\ dpc' = "idle" /\ dWrite' = 0 /\ dFrame' = 0
    /\ UNCHANGED <<hardware, ring, config, worker, cpc, history>>

\* The write index is published between the header and the payload.
DriverCopyHeadPublishes ==
    /\ dpc = "copyHead"
    /\ slots' = [slots EXCEPT ![dWrite].head = dFrame]
    /\ writeIndex' = Advance(dWrite)
    /\ pending' = IF clean THEN Append(pending, dFrame) ELSE pending
    /\ dpc' = "copyBody"
    /\ UNCHANGED <<hardware, readIndex, config, dWrite, dFrame, worker, cpc, arrivals,
                   sessions, found, queried, delivered, missed, clean>>

\* The signal is raised only for a worker that is seen draining already.
DriverSignalBusyOnly ==
    /\ dpc = "signal"
    /\ wake' = (wake \/ (workSignal /\ wpc # "idle"))
    /\ missed' = ~workSignal
    /\ dpc' = "idle" /\ dWrite' = 0 /\ dFrame' = 0
    /\ UNCHANGED <<hardware, ring, config, wpc, wRead, wHead, cpc, arrivals,
                   sessions, found, queried, pending, delivered, clean>>

\* One packet per wake-up instead of a loop until the ring is empty.
WorkerAdvanceOnce ==
    /\ wpc = "advance"
    /\ readIndex' = Advance(wRead)
    /\ wpc' = "idle" /\ wRead' = 0 /\ wHead' = 0
    /\ pending' = IF pending = <<>> THEN <<>> ELSE Tail(pending)
    /\ UNCHANGED <<hardware, writeIndex, slots, config, driver, wake, cpc, arrivals,
                   sessions, found, queried, delivered, missed, clean>>

\* Stop leaves promiscuous mode on although this radio had enabled it.
StopUnregisterKeepsMode ==
    /\ cpc = "unregister"
    /\ registered' = FALSE
    /\ cpc' = "stopRead"
    /\ UNCHANGED <<started, promiscuous, wasEnabled, ring, config, driver, worker, history>>

\* The write index is not reset.
ResetWriteForgotten ==
    /\ \/ cpc = "startWrite" /\ cpc' = "arm"
       \/ cpc = "stopWrite" /\ cpc' = "idle"
    /\ clean' = (~Cuts /\ (clean \/ (cpc = "startWrite" /\ readIndex = 0)))
    /\ pending' = <<>>
    /\ UNCHANGED <<hardware, readIndex, writeIndex, slots, config, driver, worker, arrivals,
                   sessions, found, queried, delivered, missed>>

-----------------------------------------------------------------------------
Init ==
    /\ started = FALSE /\ registered = FALSE
    /\ promiscuous \in BOOLEAN /\ found = promiscuous /\ wasEnabled = FALSE
    /\ readIndex = 0 /\ writeIndex = 0
    /\ slots = [i \in Indices |-> [head |-> 0, body |-> 0]]
    /\ workSignal = FALSE /\ receiver = FALSE
    /\ dpc = "idle" /\ dWrite = 0 /\ dFrame = 0
    /\ wpc = "idle" /\ wRead = 0 /\ wHead = 0 /\ wake = FALSE
    /\ cpc = "idle"
    /\ arrivals = 0 /\ sessions = 0
    /\ pending = <<>> /\ delivered = [head |-> 0, body |-> 0]
    /\ missed = FALSE /\ clean = TRUE /\ queried = TRUE

-----------------------------------------------------------------------------
(* PromiscuousReceive, on the Wi-Fi task *)

\* A data frame for this interface arrives and passes every check; callbacks
\* are serialised by the driver task.
DriverAccept ==
    /\ dpc = "idle" /\ registered /\ started
    /\ arrivals < MaxFrames
    /\ arrivals' = arrivals + 1
    /\ dFrame' = arrivals + 1
    /\ dpc' = "accepted"
    /\ UNCHANGED <<hardware, ring, config, dWrite, worker, cpc, sessions, found, queried,
                   pending, delivered, missed, clean>>

DriverLoadWrite ==
    /\ dpc = "accepted"
    /\ dWrite' = writeIndex
    /\ dpc' = "loaded"
    /\ UNCHANGED <<hardware, ring, config, dFrame, worker, cpc, history>>

\* A full ring drops the new frame.
DriverDrop ==
    /\ dpc = "loaded" /\ Advance(dWrite) = readIndex
    /\ dpc' = "idle" /\ dWrite' = 0 /\ dFrame' = 0
    /\ UNCHANGED <<hardware, ring, config, worker, cpc, history>>

DriverReserve ==
    /\ dpc = "loaded" /\ Advance(dWrite) # readIndex
    /\ dpc' = "copyHead"
    /\ UNCHANGED <<hardware, ring, config, dWrite, dFrame, worker, cpc, history>>

DriverCopyHead ==
    /\ dpc = "copyHead"
    /\ slots' = [slots EXCEPT ![dWrite].head = dFrame]
    /\ dpc' = "copyBody"
    /\ UNCHANGED <<hardware, readIndex, writeIndex, config, dWrite, dFrame, worker,
                   cpc, history>>

DriverCopyBody ==
    /\ dpc = "copyBody"
    /\ slots' = [slots EXCEPT ![dWrite].body = dFrame]
    /\ dpc' = "publish"
    /\ UNCHANGED <<hardware, readIndex, writeIndex, config, dWrite, dFrame, worker,
                   cpc, history>>

DriverPublish ==
    /\ dpc = "publish"
    /\ writeIndex' = Advance(dWrite)
    /\ dpc' = "signal"
    /\ pending' = IF clean THEN Append(pending, dFrame) ELSE pending
    /\ UNCHANGED <<hardware, readIndex, slots, config, dWrite, dFrame, worker, cpc,
                   arrivals, sessions, found, queried, delivered, missed, clean>>

\* OnRadioWorkAvailable wakes the RadioWorker when a signal is installed.
DriverSignal ==
    /\ dpc = "signal"
    /\ wake' = (wake \/ workSignal)
    /\ missed' = ~workSignal
    /\ dpc' = "idle" /\ dWrite' = 0 /\ dFrame' = 0
    /\ UNCHANGED <<hardware, ring, config, wpc, wRead, wHead, cpc, arrivals,
                   sessions, found, queried, pending, delivered, clean>>

-----------------------------------------------------------------------------
(* DrainInbound, on the RadioWorker *)

\* The worker (a class of another library) serves a wake-up by one drain.
WorkerWake ==
    /\ wpc = "idle" /\ wake
    /\ wake' = FALSE
    /\ wpc' = "load"
    /\ UNCHANGED <<hardware, ring, config, driver, wRead, wHead, cpc, history>>

\* Loading the read index between the two index stores of Stop sees a ring
\* that is neither the old one nor the empty one.
WorkerLoadRead ==
    /\ wpc = "load"
    /\ wRead' = readIndex
    /\ wpc' = "compare"
    /\ IF cpc \in {"stopWrite", "startWrite"} /\ writeIndex # 0
       THEN clean' = FALSE /\ pending' = <<>>
       ELSE UNCHANGED <<clean, pending>>
    /\ UNCHANGED <<hardware, ring, config, driver, wHead, wake, cpc, arrivals,
                   sessions, found, queried, delivered, missed>>

WorkerEmpty ==
    /\ wpc = "compare" /\ wRead = writeIndex
    /\ wpc' = "idle" /\ wRead' = 0
    /\ UNCHANGED <<hardware, ring, config, driver, wHead, wake, cpc, history>>

WorkerFindsPacket ==
    /\ wpc = "compare" /\ wRead # writeIndex
    /\ wpc' = "view"
    /\ UNCHANGED <<hardware, ring, config, driver, wRead, wHead, wake, cpc, history>>

\* The view copies the header fields and points at the payload in the slot.
WorkerBuildView ==
    /\ wpc = "view"
    /\ wHead' = slots[wRead].head
    /\ wpc' = "deliver"
    /\ UNCHANGED <<hardware, ring, config, driver, wRead, wake, cpc, history>>

\* OnRadioPacket reads the payload through the view; without a receiver the
\* packet is consumed unseen.
WorkerDeliver ==
    /\ wpc = "deliver"
    /\ delivered' = IF receiver THEN [head |-> wHead, body |-> slots[wRead].body]
                    ELSE delivered
    /\ wpc' = "advance"
    /\ UNCHANGED <<hardware, ring, config, driver, wRead, wHead, wake, cpc, arrivals,
                   sessions, found, queried, pending, missed, clean>>

WorkerAdvance ==
    /\ wpc = "advance"
    /\ readIndex' = Advance(wRead)
    /\ wpc' = "load" /\ wRead' = 0 /\ wHead' = 0
    /\ pending' = IF pending = <<>> THEN <<>> ELSE Tail(pending)
    /\ UNCHANGED <<hardware, writeIndex, slots, config, driver, wake, cpc, arrivals,
                   sessions, found, queried, delivered, missed, clean>>

-----------------------------------------------------------------------------
(* Start, Stop and the setters, on the application task *)

\* Lines 186-212: already started returns at once; a failure before the
\* callback is claimed changes nothing; a driver that does not tell its mode
\* leaves _promiscuousWasEnabled as it was.
StartClaim ==
    /\ cpc = "idle" /\ ~started /\ sessions < MaxSessions
    /\ sessions' = sessions + 1
    /\ \/ wasEnabled' = promiscuous /\ UNCHANGED queried
       \/ queried' = FALSE /\ UNCHANGED wasEnabled
    /\ registered' = TRUE
    /\ cpc' = "enable"
    /\ UNCHANGED <<started, promiscuous, ring, config, driver, worker, arrivals,
                   found, pending, delivered, missed, clean>>

\* Installing the callback or enabling promiscuous mode fails: undone.
StartFail ==
    /\ cpc = "enable"
    /\ registered' = FALSE
    /\ cpc' = "idle"
    /\ UNCHANGED <<started, promiscuous, wasEnabled, ring, config, driver, worker,
                   history>>

StartEnable ==
    /\ cpc = "enable"
    /\ promiscuous' = TRUE
    /\ cpc' = "startRead"
    /\ UNCHANGED <<started, registered, wasEnabled, ring, config, driver, worker,
                   history>>

\* _readIndex.store(0), of Start and of Stop.
ResetRead ==
    /\ \/ cpc = "startRead" /\ cpc' = "startWrite"
       \/ cpc = "stopRead" /\ cpc' = "stopWrite"
    /\ readIndex' = 0
    /\ clean' = (clean /\ ~Cuts)
    /\ pending' = <<>>
    /\ UNCHANGED <<hardware, writeIndex, slots, config, driver, worker, arrivals,
                   sessions, found, queried, delivered, missed>>

\* _writeIndex.store(0), of Start and of Stop.  A Start that finds nobody in
\* the ring makes an empty ring out of whatever an earlier race has left.
ResetWrite ==
    /\ \/ cpc = "startWrite" /\ cpc' = "arm"
       \/ cpc = "stopWrite" /\ cpc' = "idle"
    /\ writeIndex' = 0
    /\ clean' = (~Cuts /\ (clean \/ (cpc = "startWrite" /\ readIndex = 0)))
    /\ pending' = <<>>
    /\ UNCHANGED <<hardware, readIndex, slots, config, driver, worker, arrivals,
                   sessions, found, queried, delivered, missed>>

StartArm ==
    /\ cpc = "arm"
    /\ started' = TRUE
    /\ cpc' = "idle"
    /\ UNCHANGED <<registered, promiscuous, wasEnabled, ring, config, driver, worker,
                   history>>

StopExchange ==
    /\ cpc = "idle" /\ started
    /\ started' = FALSE
    /\ cpc' = "unregister"
    /\ UNCHANGED <<registered, promiscuous, wasEnabled, ring, config, driver, worker,
                   history>>

StopUnregister ==
    /\ cpc = "unregister"
    /\ registered' = FALSE
    /\ promiscuous' = (promiscuous /\ wasEnabled)
    /\ cpc' = "stopRead"
    /\ UNCHANGED <<started, wasEnabled, ring, config, driver, worker, history>>

\* SetReceiver and SetWorkSignal may be called at any moment; the receiver is
\* a plain pointer that the drain loads once per packet.
SetReceiver ==
    /\ receiver' = ~receiver
    /\ UNCHANGED <<hardware, ring, workSignal, driver, worker, cpc, history>>

SetWorkSignal ==
    /\ workSignal' = ~workSignal
    /\ UNCHANGED <<hardware, ring, receiver, driver, worker, cpc, history>>

-----------------------------------------------------------------------------
DriverStep ==
    \/ DriverAccept \/ DriverLoadWrite \/ DriverDrop \/ DriverReserve
    \/ DriverCopyHead \/ DriverCopyBody \/ DriverPublish \/ DriverSignal

WorkerStep ==
    \/ WorkerWake \/ WorkerLoadRead \/ WorkerEmpty \/ WorkerFindsPacket
    \/ WorkerBuildView \/ WorkerDeliver \/ WorkerAdvance

ControlStep ==
    \/ StartClaim \/ StartFail \/ StartEnable \/ StartArm
    \/ StopExchange \/ StopUnregister
    \/ ResetRead \/ ResetWrite
    \/ SetReceiver \/ SetWorkSignal

Next == DriverStep \/ WorkerStep \/ ControlStep

Spec == Init /\ [][Next]_vars

\* The RadioWorker is a running FreeRTOS task: a step it can take, it takes.
FairSpec == Spec /\ WF_vars(WorkerStep)

-----------------------------------------------------------------------------
(* Properties *)

\* Type invariant: every variable has its type; in particular both indices
\* stay inside the ring whatever the tasks do to each other (lines 155, 319).
TypeOK ==
    /\ started \in BOOLEAN /\ registered \in BOOLEAN
    /\ promiscuous \in BOOLEAN /\ wasEnabled \in BOOLEAN /\ found \in BOOLEAN
    /\ readIndex \in Indices /\ writeIndex \in Indices
    /\ slots \in [Indices -> Packets]
    /\ workSignal \in BOOLEAN /\ receiver \in BOOLEAN
    /\ dpc \in {"idle", "accepted", "loaded", "copyHead", "copyBody", "publish", "signal"}
    /\ dWrite \in Indices /\ dFrame \in Frames
    /\ wpc \in {"idle", "load", "compare", "view", "deliver", "advance"}
    /\ wRead \in Indices /\ wHead \in Frames /\ wake \in BOOLEAN
    /\ cpc \in {"idle", "enable", "startRead", "startWrite", "arm",
                "unregister", "stopRead", "stopWrite"}
    /\ arrivals \in Frames /\ sessions \in 0 .. MaxSessions
    /\ pending \in Seq(Frames) /\ delivered \in Packets
    /\ missed \in BOOLEAN /\ clean \in BOOLEAN /\ queried \in BOOLEAN

\* The slot that the callback is copying a frame into is never the slot that
\* the drain is reading (lines 158-167 against 309-318), unless a reset of the
\* indices has cut into one of them.
SlotExclusive ==
    clean /\ dpc \in {"copyHead", "copyBody"} /\ wpc \in {"view", "deliver"}
        => dWrite # wRead

\* The ring is a FIFO: between the two indices lie exactly the frames that were
\* published and not yet consumed, in order, each in one piece.
RingHoldsPending ==
    clean /\ cpc # "stopWrite" =>
        /\ writeIndex = (readIndex + Len(pending)) % Depth
        /\ \A i \in 1 .. Len(pending) :
              slots[(readIndex + i - 1) % Depth] = [head |-> pending[i], body |-> pending[i]]

\* What OnRadioPacket sees is one whole frame, the oldest pending one, newer
\* than everything delivered before it: nothing is torn, repeated or reordered,
\* and nothing of an earlier session is delivered in a later one.
DeliveredInOrder ==
    [][ WorkerDeliver /\ receiver /\ clean =>
            /\ pending # <<>>
            /\ delivered' = [head |-> Head(pending), body |-> Head(pending)]
            /\ delivered'.head > delivered.head ]_vars

\* A frame is dropped (line 156) only when Depth - 1 frames are waiting.
DropOnlyWhenFull ==
    [][ DriverDrop /\ clean => Len(pending) = Depth - 1 ]_vars

\* No lost wake-up: when frames wait, the worker is draining, a wake-up is on
\* its way, or the last publication found no work signal installed (line 171).
NoLostWakeup ==
    clean /\ pending # <<>> =>
        \/ wpc # "idle"
        \/ wake
        \/ dpc = "signal"
        \/ missed

\* Between a Start that failed or a Stop that returned and the next Start, the
\* driver is as the first Start found it (lines 211, 218, 232-234): promiscuous
\* mode is never left on, and never taken from another user unless a Start
\* could not read the mode.  (The calls that undo it are taken to succeed.)
PromiscuousRestored ==
    cpc = "idle" /\ ~started =>
        /\ ~registered
        /\ promiscuous => found
        /\ queried => promiscuous = found

\* The receive time that the callback writes into a header (line 163) is the one
\* at which the frame arrived, whenever it arrived and whatever the clock says
\* by then, up to half a wrap of the driver's 32-bit stamp (lines 100-125).
RecoversArrival == dpc = "copyHead" => StampsAreRecovered

\* Every frame whose publication was signalled is eventually consumed or thrown
\* away by a Stop, unless an index reset cuts into the ring.
EventuallyDrained ==
    \A f \in 1 .. MaxFrames :
        (f \in {pending[i] : i \in DOMAIN pending} /\ dpc # "signal" /\ ~missed)
            ~> (f \notin {pending[i] : i \in DOMAIN pending} \/ ~clean)

\* The packets between the two indices.  A Stop has thrown them away as soon as
\* it has reset the first index; once a reset has cut into a task, the next
\* session that starts with nobody in the ring starts with an empty one.
Contents ==
    IF clean /\ cpc # "stopWrite"
    THEN [i \in 1 .. (writeIndex - readIndex) % Depth |->
             slots[(readIndex + i - 1) % Depth]]
    ELSE <<>>

Fifo == INSTANCE PacketFifo WITH Capacity <- Depth - 1, queue <- Contents

\* Refinement: read between its two indices, the lock-free ring is a bounded
\* FIFO of whole packets (lines 154-168, 305-320); every step of the three tasks
\* is a Put, a Take, a Flush or invisible.
ImplementsFifo == Fifo!Spec
=============================================================================
