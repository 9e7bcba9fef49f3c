# Formal model of ESPressio-ESP32

TLA+ specifications of the ESP32 platform layer of ESPressio, the TLC
configurations that check them on small instances, and TLAPS proofs of their
safety properties for every instance.
Line numbers in the modules and below refer to the headers under `src/src/` (the
prefix `ESPressio_` and the suffix `.hpp` are left out).

## 1. The system and its parts

The library is header-only: each header implements one of ESPressio's platform
interfaces on top of FreeRTOS, ESP-IDF or Arduino. The parts hardly call each
other; what makes them hard is that each one is called by application threads
**and** by a task or callback of the native library underneath it.

| Part | State it keeps | Operations | Who runs it |
|---|---|---|---|
| `Raw80211Radio` | `_started`, two atomic ring indices, the packet slots, the receiver and the work signal, whether the driver was promiscuous before | `Start`, `Stop`, `Send`, `SetReceiver`, `SetWorkSignal`, `PromiscuousReceive`, `DrainInbound` | application, Wi-Fi driver task, RadioWorker task; no mutex |
| `HttpServerPlatform` | `_server`, `_starting`, `_dispatcher`, `_webSocketBindings` | `Initialize`, `Start`, `Stop`, `Reset`, add/release of a binding, request and session callbacks | application threads, one HTTPD task per native server; one mutex, released around `httpd_start` and `httpd_stop` |
| `WebSocketEndpointPlatform` | the present `BindingState` (`_active`, `_connections`), connection objects (`_open`, close reason, fragments) | `Bind`, `Unbind`, `Broadcast`, handling of frames, `OnHttpSessionClosed`, sends and `Close` of a connection | application threads, HTTPD task; two mutexes and atomics |
| `WebSocketClientPlatform` | `_client`, `_connection`, connection flags, close codes, credential buffers, the frame being reassembled | `Connect`, `Disconnect`, `Reset`, sends, the native event handler | application threads, the native client's task; one mutex, released around native calls and sink calls |
| `WiFiPlatform` | configuration, client/AP/scan state, 32-bit deadlines, the stations last seen | `Apply`, `Disable`, connect/disconnect, scans, `Poll` | one polling thread |
| `DnsServerPlatform` | `_listening`, `_dispatcher`, `_pcb`; a decoded name and a response per packet | `Initialize`, `Start`, `Stop`, `Reset`, `ReceivePacket` | application threads, the TCP/IP thread; atomics, and `tcpip_api_call` to run on that thread |
| `IDFGPIOProvider`, `ArduinoGPIOProvider` | the shared interrupt service, interrupt objects | configure, read, write, interrupts | application threads, ISR |
| Event transports (MQTT, UDP, TCP, TLS) | sockets, last attempt, receive buffer | worker iteration, send | worker task, application |
| `MemoryProvider`, storage back ends, execution/queue/clock/entropy providers | none or a handle | one native call each | callers |

Interactions modelled together: the HTTP server and the WebSocket endpoint
share the `BindingState`s. The server holds them in a list of `shared_ptr` and
gives the native server a *raw* pointer as `user_ctx`; the native server's task
calls back through that pointer and reports closed sockets to every binding.
Below that, a connection object and HTTPD share nothing but a descriptor, which
the next client gets: `WebSocketConnection` models that meeting.

What makes each part correct:

- **Radio**: the ring is a FIFO although nobody locks; a packet is never torn,
  repeated or reordered; a frame is dropped only when the ring is full; no
  wake-up is lost; the driver's promiscuous mode is given back; a frame keeps the
  time at which it arrived, although its stamp wraps. In one sentence, of the ring:
  it implements a bounded FIFO of whole packets.
- **HTTP server and endpoint**: a raw `user_ctx` never dangles; a connection
  object never outlives its socket (descriptors are reused); there is one native
  server; a running server has a dispatcher; a retired binding is never switched
  on again; `Start`, `Stop` and `Reset` return.
- **HTTP exchange**: a body is complete only when all of it was read; a response
  can be delimited by its client, whatever the dispatcher calls, because the
  platform alone frames it. One case falls short: a chunked answer to HEAD still
  ends with a last chunk (line 420), which its client does not expect.
- **WebSocket connection**: what is queued was asked for by its own client; a
  message is reassembled exactly; a close takes effect and keeps its reason, as
  long as memory and HTTPD's queue of work last.
- **WebSocket client**: a native client is stopped and destroyed once; a
  callback is recognised as such, so the task never waits for itself;
  credentials outlive the client that points into them; the sink hears Connected
  and Disconnected in turn, and a close code belongs to the link it is reported
  for; calls return.
- **Client frames**: every data frame reaches the sink once, in order, byte for
  byte, however it was cut into parts; never a part of a message.
- **Wi-Fi**: the first retry after a loss does not come early, also when the
  clock wraps, and does come unless its deadline is 0 (a second retry never
  comes: section 2); the events of `Poll` add up to the state, but for what
  changes without an event. **DNS**: after `Stop` nothing
  runs; decoding ends inside the packet; the reply belongs to the question.
  **GPIO**: a request for a core is granted only if the service runs there.
  **MQTT**: a connected transport is subscribed.

`PROJECT.json` lists every hazard with its line and the property that covers it,
or the reason why none does.

## 2. Modules

| Module | Models | Proofs |
|---|---|---|
| `PacketFifo` | what the radio's receive path promises (abstract) | |
| `RadioTimestamp` | the unwrapping of a frame's receive time | `RawRadioProofs` |
| `RawRadio` | the radio, atomic access by atomic access | `RawRadioProofs` |
| `HttpServer` | life cycle of server and endpoint, composed | `HttpServerProofs` |
| `HttpExchange` | one request and its response | `HttpExchangeProofs` |
| `WebSocketConnection` | a connection object and its descriptor | `WebSocketConnectionProofs` |
| `WebSocketClient` | life cycle and events of the client | `WebSocketClientProofs` |
| `FrameStream` | what the client's data path promises (abstract) | |
| `ClientFrames` | the client's data path | `ClientFramesProofs` |
| `WiFiPlatform` | the polled Wi-Fi state machine | `WiFiPlatformProofs` |
| `DnsServer` | DNS life cycle, decoder and response | `DnsServerProofs` |

`MC…` modules only give a specification the parameters of a run and, for the
HTTP server, a symmetry set. Each specification has a
section of *mutations*: the body of an action or helper with one plausible
mistake in it. No specification uses them; they document which mistake each
property would catch.

### RawRadio (Raw80211Radio 51-321)

Three tasks share two indices, a flag and the slots, with no lock, so **every
atomic access is a step**, and so is each half of the copy into a slot
(`DriverCopyHead`, `DriverCopyBody`) and of the read out of it
(`WorkerBuildView`, `WorkerDeliver`): a slot whose halves come from different
frames is a torn packet. A frame is the number of its arrival. The atomics use
acquire/release order with one writer per index outside of a reset, so a
sequentially consistent interleaving loses nothing that the properties tell
apart.

`Start` and `Stop` reset the indices while the callback or the drain may be
holding a copy of one of them. The history variable `clean` says that this has
not happened since the last `Start` that found nobody in the ring. The
properties of the ring are stated for clean states; `DeliveredInOrder` shows
that a session begun cleanly delivers nothing of an earlier one. What a cut
session delivers until the next `Start` is not constrained by the code.

`PacketFifo` is the receive path without indices, slots or tasks: `Put` a whole
packet newer than all that wait, `Take` the oldest, `Flush`. `ImplementsFifo` is
the refinement: the abstract queue is what lies between the indices
(`Contents`), a packet enters at the callback's store of the write index and
leaves at the drain's store of the read index, the first index that a reset
clears flushes it, and every other step of the three tasks is a stutter. A
session that a reset has cut into counts as flushed.

`RadioTimestamp` is the one calculation of the callback that can go wrong without
a race: the driver's 32-bit stamp is completed to the time nearest to the
monotonic clock. `RawRadio` extends it, and `RecoversArrival` states, where the
callback fills in a packet's header, that the arrival is recovered whenever it is
less than half a wrap away. Arrivals ahead of the clock are included (the
driver's clock is another one), and so are arrivals before its zero, which the
code's unsigned arithmetic records modulo 2^64. At exactly half a wrap the stamp
does not tell two times apart, and nothing is claimed.

RadioWorker is not part of this repository: it is taken to call `DrainInbound`
once per wake-up, and a wake-up raised while one is pending is merged with it.

### HttpServer (HttpServerPlatform 496-792, 810-825, WebSocketEndpointPlatform 432-513, 749-1019)

A step is one critical section of `_mutex`, one native call, or what lies
between two of them. Application threads run `Initialize`, `Start`
(`StartLock`, `StartNative`, `Register`, `StartPublish`, and the error paths
`StartFailed`, `RegisterFails`), `Stop` (`StopLock`, `StopReturns`, `StopPurge`)
and `Reset` (a `Stop`, then `ResetFinal`). One more thread binds and unbinds an
endpoint. A native instance has a task that upgrades, dispatches to and closes
sessions. A `BindingState` is alive while the endpoint, the server's list, a
local copy of that list or `Unbind`'s local variable refers to it (`Alive`),
which is exactly the reference count of the code.

Two provisos, both history variables: `overlap` (another call changed the
server between the critical sections of a `Stop` or `Reset`) and `stopFailed`
(`httpd_stop` failed after its handle had been forgotten). `Stop` publishes
`_server = nullptr` *before* it stops the native server (line 697), so in that
window a `Start` makes a second server and `ReleaseWebSocketBinding` frees a
binding still in use. Without the provisos TLC finds counterexamples to
`UserCtxAlive`, `ConnectionsHaveSessions` and `OneNative` (and without
`overlap` to `RunningHasDispatcher`): the code relies on its caller to
serialise the life cycle, and the properties say exactly how much.

### HttpExchange (HttpServerPlatform 103-117, 188-494, 793-808)

`HandleRequest` hands a request and a response object to a dispatcher that may
call their methods in any order, any number of times: `Next` is that dispatcher.
Bodies and values are numbers of units; header names are told apart by word and
spelling. A read gets a part, a write gets a part out and then fails, `Begin`
without a length fails when ESP-IDF has no room for another field and leaves
there what it had handed over. `wire` is what the client has received: its block
of fields begins with the one that the platform (`Content-Length`, line 450) or
ESP-IDF (`Transfer-Encoding`) puts there, so a framing field of the application
that got past `SetHeader` would stand beside it. `ResponseIsFramed` claims nothing
once a native call has failed (after a chunked `Write` that failed half way
`Complete` may still succeed), and nothing about the end of a chunked answer to
HEAD: `Complete` sends the last chunk there as well (line 420).

### WebSocketConnection (WebSocketEndpointPlatform 71-429, 479-784)

One descriptor that several clients get in turn. The HTTPD task accepts,
upgrades, handles frames, runs queued work and ends sessions (in two steps,
`SessionEnds` and `ReportClosed`, as `OnHttpSessionClosed` has two); calls of
`Broadcast` and `CloseAll`, each free to be on a thread of its own, take a
connection out of the table (`Snapshot`) and send or close through it, one
atomic access or native call a step. The peer sends its frames in any order:
continuations of nothing, new messages inside others, messages that grow over the
limit and are followed by anything. The handshake may or may not be seen by the
URI handler, as the comment at 543 says; the recovery on the first frame is part
of `FrameArrives`. An item of work remembers, as a history, which session had the
descriptor when its sender entered the endpoint (`asked`).

Provisos: `garbled` (a frame over the limit has left its payload in the stream,
line 605) and `stranded`: the session stays although its connection is closed and
every later `Close` does nothing, because an exception of the payload's allocation
has left `Close` with `_open` already off (line 158), or because HTTPD has refused
`httpd_sess_trigger_close`, which goes through the same queue as the frames and
whose result is discarded (lines 175, 299, 670). A data frame may follow a close frame into
the queue: the code checks `_open` before the lookup and the queue (line 346) and
does nothing against a `Close` in between, so nothing is claimed about it.

### WebSocketClient (WebSocketClientPlatform 154-364, 523-672, 768-804)

A `Connect` makes a native client and a connection object that share its
number; `connected` is `_connected` and the connection's `_open`, which the
code changes together. Which of its early failures makes a `Connect` return
without effect is not distinguished. `MakeShared` may throw after `_client` was
assigned (`ConnectThrows`). The native client is external: it connects and
reconnects by itself, loses its link, receives a close frame, completes a
closing handshake, and ends when it is told to. An event that it has raised is
handled in three steps: `HandleNativeEvent` records the task, the handler's
critical section, the call of the sink.

Provisos: `crossed` (a `Connect` came between the unlock of a `Disconnect` and
its fallback notification, line 334), `late` (a Connected event was handled
after a `Disconnect` had read `wasConnected = false`, line 288) and `stripped`
(`Reset` cleared the credentials although its `Disconnect` was refused, line
363). Without each of them TLC violates the property that names it. That the
native handle a send uses after the unlock is still alive is not claimed:
nothing in the code ensures it.

### WiFiPlatform (WiFiPlatform 21-170, 191-206, 299-579, 614-664)

One thread calls everything, but the radio changes between the calls, and even
inside `Poll`, which looks at the link twice. The clock counts modulo `Wrap`;
`Tick`s pass between polls. `SetMode` is the Arduino call: what the radio does
with a change of mode is left open. The address is what `WiFi.localIP()` says,
which need not agree with the status of the link (lines 535 and 548 ask
separately); stations come and go unseen, so a `Poll` may find any list of them;
and a `Poll` may come without a vector for events (line 200). The first
configuration is the code's default, an access point that nobody has started.
What `_state` reports of the access point is left out, because no line reads it
back. `owed` and `waited` remember, as histories, that a retry is due and how
long ago it was scheduled.

`heard` is what a caller believes who adds up the events of `Poll`, and `silent`
what has changed without one: a call that resets the address or the stations, an
access point that goes down (its stations are forgotten, line 636), a `Poll`
without a vector. `EventsAgree` is no claim with those cases taken out. It says
what they do: the caller is wrong about the address exactly when its last change
was silent, and takes for connected exactly the known stations and those dropped
silently, each until an event tells of it again.

`LostClientRetries` claims the first retry after a loss, and not where the
deadline is 0, which line 524 takes for "none": because the deadline falls on 0,
or because the look at line 504 found the link for a moment (which clears it) and
the one at line 535 did not. The client then stays Reconnecting. A retry that does
not connect is never followed by another: `_nextReconnectMilliseconds` is 0 and
the state stays Reconnecting (lines 523-528). The model does the same.

### DnsServer (DnsServerPlatform 61-110, 138-255, 284-491)

`Start` and `Stop` are sequences of atomic accesses with one call on the TCP/IP
thread in between, which runs there between packets. A packet is a sequence of
bytes; header and the four bytes behind a name are shortened by constants so
that TLC reaches every limit. Each round of the decoder's loop is a step, and
the dispatcher adds answers, completes and aborts in any order.

`quiet` says that a `Stop` came to its end with no other call in progress; a
`Start` that crosses a `Stop` can leave `_listening` set without a socket, or
open a socket after it. `unstopped`: the call of the TCP/IP thread failed, which
the code reports once; a second `Stop` then succeeds with the socket open. A
dispatcher that calls `Stop` would wait for its own thread: not modelled, since
nothing says that it may.

### ClientFrames (WebSocketClientPlatform 674-780)

The data path on the native task. The native client cuts a payload into parts
as it likes; an event carries opcode, length, offset and the part, and not the
FIN bit. A unit of payload has the number of its frame as content, so bytes of
another frame, or bytes never written, are visible in what is delivered.

`FrameStream` is the same path without parts, offsets or buffer: a frame begins,
and ends in one step that hands it on if it is a data frame within the limit; the
end of the link takes it away. `ImplementsStream` is the refinement: the events
of a frame but the last are stutters.

## 3. Runs

| Run | Instance | Checks |
|---|---|---|
| `raw_radio` | ring of 3, 4 frames, 1 session | types, exclusive slots, FIFO, no lost wake-up, drops only when full, everything signalled is drained, receive times recovered |
| `raw_radio_restart` | ring of 3, 3 frames, 2 sessions | the ring implements `PacketFifo`, order of delivery over both sessions, mode restored |
| `http_server` | 2 threads, 1 socket, 2 natives, 2 binding states | the five safety invariants and `NoReactivation`, without allocation failures |
| `http_server_live` | 1 native, failing allocations | every call returns |
| `http_no_memory` | as `http_server`, failing allocations | **violates** `NoReactivation` (finding 1) |
| `http_exchange` | bodies and values up to 2, 2 header fields, 3 writes | requests are whole, responses framed, by the platform alone |
| `ws_connection` | 2 sessions, messages up to 2, 3 frames, 2 calls | queue, close and reassembly of a connection |
| `ws_client` | 2 threads, 2 clients, 3 links | the client's safety properties; every call returns |
| `client_frames` | limit 3, payloads up to 4, 3 frames | frames are delivered once, in order, byte for byte; the path implements `FrameStream` |
| `client_fragments` | the same | **violates** `DeliversWholeMessages` (finding 2) |
| `wifi` | clock of 5, delays 1 and 2, 2 attempts, 2 ticks between polls, 2 stations | the first retry is not early, and comes unless its deadline is 0; events agree with the state, but for silent changes |
| `dns_server` | 2 threads, all queries of up to 5 bytes over 4 byte values, packets just inside and outside each limit | quiet after `Stop`, decoder bounded, reply matches |

Why the bounds suffice: a ring of 3 with 4 frames fills (two packets), drops and
wraps; two sessions are what one cut needs to reach the next `Start`. A stamp that
wraps every 8 microseconds is looked at over five turns, from before the clock's
zero: every distance to the clock on both sides, within an epoch and across. Two
threads are the smallest number that can race, and every guard of the code
looks at one other thread at most. One socket or descriptor is used again after
each close, which is the case that matters; two native servers and two binding
states are one of each to replace. Two clients and three links give a reconnect
by the native client and one by the application. Payloads of 0 to 4 units with a
limit of 3 cover empty, single-part, multi-part, largest and oversized frames;
on the endpoint a limit of 2 with three frames gives a message joined from two
frames that are not empty, one of three frames, one that grows over the limit, a
stray or orphan frame inside or after each, and a message after one of these. Two
stations are one to report and one that stays. A clock of 5 turns over between a
loss and its retry, with delays of at most half a turn, as
`ClockAssumption` demands and 2^32 milliseconds give. Units of 2 allow a read or
write in one piece, in two, and failing in between. The DNS names of up to 4
characters with 2 jumps reach, hit and pass each limit.

Threads are interchangeable, and `http_server` and `http_no_memory` use that
symmetry, which is sound for the properties they check (no liveness).
`CHECK_DEADLOCK FALSE` stands where a bounded history may be used up.

### Fairness

- Radio: weak fairness of the worker's steps (a running FreeRTOS task).
  Nothing is assumed of the driver or the application.
- WebSocket connection: a thread inside `Close` or a send goes on; HTTPD gets
  round to its queue of work and finishes the end of a session. Nothing is assumed
  of the queue: it may refuse every frame and every close.
- Wi-Fi: time goes on, and the owner keeps polling (`IWiFiPlatform` has no task
  of its own). The owner is never forced to call anything else.
- HTTP server: a thread inside a call goes on; an HTTPD task finishes what it
  has begun; and it gets round to its shutdown request however busy it is
  (strong fairness of `NativeDrains`: the task polls its control socket on every
  turn of its loop). A thread is never forced to *begin* a call.
- Client: a thread inside a call goes on, the native task finishes the event it
  has raised, and looks at its run flag once per turn of its loop (strong
  fairness of `NativeEnds`).

### Findings

1. `http_no_memory`: when `MakeBindingState` throws in `Unbind`, `_state` stays
   the retired one, and the next `Bind` activates it (endpoint 941) while the
   running server still has it as `user_ctx`, contrary to the comment at 973-975.
   `EnsureConnection` (800-809) shows that the allocator's exception is expected.
2. `client_fragments`: the first frame of a fragmented message has a text or
   binary opcode and is dispatched as if it were the whole message (line 702);
   only the continuations are dropped, although the comment at 691 drops them
   "rather than deliver corrupted messages".

## 4. Proofs

### The radio

`RawRadioProofs` proves, for **every** ring depth that the header's
`static_assert`s admit (`DepthAssumption`: 2 to 255) and every bound
(`BoundsAssumption`: the bounds are natural numbers):

| Theorem | States |
|---|---|
| `TypeCorrect` | `Spec => []TypeOK` |
| `SlotsAreExclusive` | `Spec => []SlotExclusive` |
| `RingIsFifo` | `Spec => []RingHoldsPending` |
| `WakeupsAreNotLost` | `Spec => []NoLostWakeup` |
| `DropsOnlyWhenFull` | `Spec => DropOnlyWhenFull` |
| `ModeIsRestored` | `Spec => []PromiscuousRestored` |
| `DeliveryIsOrdered` | `Spec => DeliveredInOrder` |
| `RingImplementsFifo` | `Spec => ImplementsFifo` |
| `ArrivalIsRecovered` | `Spec => []RecoversArrival` |

None of the ring's properties is inductive: that the callback stays out of the
drain's slot depends on the copies of the indices that both hold. The invariant
`IInv` adds `ControlInv` (where `Start` and `Stop` are, nobody is in the ring
and nothing is pending), `LocalsInv` (the copies of the indices are current, and
a reserved slot is outside the occupied part), `CopyInv` (what has been copied
so far is the frame in hand) and `RingInv` (at most `Depth - 1` frames wait, in
order). It was checked with TLC before it was proved. Each step of a task
preserves it by one of two facts about the ring: appending at the write index
(`RingReserve`) and removing at the read index (`RingConsume`); both reduce
`% Depth` to one conditional subtraction. `ModeInv` relates the driver's mode to
the mode found at every point of `Start` and `Stop`. `OrderInv` says that
pending frames increase, lie above everything delivered and below the frame in
the callback's hand; `DeliveryIsOrdered` needs it on top of `IInv`.

`RingImplementsFifo` is a step simulation under `IInv` and the order invariant:
`ContentsAreWaiting` shows that the mapped queue is the waiting part of
`pending`, so a step that leaves `pending`, the indices and `clean` alone is a
stutter, and the few that do not are a `Put`, a `Take` or a `Flush`
(`WaitingSteps`).

`ArrivalIsRecovered` holds for any width of the stamp, of the clock and of the
unit (`ClockAssumption`: natural numbers above 0) and any times. Its argument:
the arrival and the time that the code puts together differ by a whole number of
wraps and lie within one and a half of each other, so by -1, 0 or 1, and the two
comparisons tell these apart.

### The DNS server

`DnsServerProofs` proves, for **any** set of threads, packets over bytes
(`PacketAssumption`) and limits (`SizeAssumption`: natural numbers, a header of
at least one byte):

| Theorem | States |
|---|---|
| `TypeCorrect` | `Spec => []TypeOK` |
| `StopIsQuiet` | `Spec => []QuietAfterStop` |
| `DecoderIsBounded` | `Spec => []NameIsBounded` |
| `ReplyMatchesQuestion` | `Spec => []AnswersTheQuestion` |

`QuietAfterStop` is not inductive: `SocketInv` adds who may still open a socket
after a `Stop` (nobody), and that an open socket without a listening server has a
call on its way to store that or to close it. `DecoderInv` is the termination
argument: the rounds so far are at most `jumps * Len(packet) + cursor`, since a
label moves the cursor towards the end of the packet and a pointer spends one of
`JumpLimit` jumps; it gives the bound `(JumpLimit + 1) * Len(packet)`.
`QuestionInv` says that the decoder has met labels only until it jumps, and that
the first byte that is no label then fixes the end of the question.

`AnswersTheQuestion` also speaks of two sums: the length of the name is that of
its labels, and the reply is as long as its parts. `Total` is a recursive
function; that appending a number adds it (`TotalAppend`) needs induction, which
`Induction` supplies in the form the provers can use: a *set* of naturals that
holds 0 and is closed under successor holds all of them, from the least-number
principle of `WellFoundedInduction`. With it `LengthInv` (the name so far is the
total of the labels on the decoder's way) and `AnswerInv` (the response so far is
header, question and the answers accepted, each counted) are kept by every round.

### The HTTP server and the endpoint's bindings

`HttpServerProofs`, for **any** set of threads and sockets and any number of
native instances and binding states (`BoundsAssumption`, `AllocAssumption`):

| Theorem | States |
|---|---|
| `TypeCorrect` | `Spec => []TypeOK` |
| `AtMostOneNative` | `Spec => []OneNative` |
| `UserCtxNeverDangles` | `Spec => []UserCtxAlive` |
| `DispatcherStays` | `Spec => []RunningHasDispatcher` |
| `NoStaleConnection` | `Spec => []ConnectionsHaveSessions` |
| `RoutesStayClosed` | `Spec => NoReactivation`, given `~AllocMayFail` |
| `StoppedByOneCall` | `Spec => []StopsOwnServer`, no proviso |

The properties say what may be live together; what they rest on is who owns a
native instance. `Inv` says that its handle is published or local to one call and
never both (`HandleInv`), that `_starting` stands for the one `Start` in progress
(`StartInv`), that nothing is published or started during a `Stop` that nobody
overlaps (`StopInv`), and hence that every live instance has one owner
(`OwnerInv`). The owner keeps `_webSocketBindings` from losing a `user_ctx`
(`CtxInv`), which makes `UserCtxAlive` and is also why `HandleSessionClosed`
reaches every connection object of a closing session (`ClosingInv`):
`ConnectionsHaveSessions` fails without it. `RoutesStayClosed` needs that the
state `Bind` may activate is registered nowhere (`FreshInv`); that is false after
an `Unbind` that ran out of memory, which is finding 1 and the reason for the
theorem's hypothesis. `StoppedByOneCall` is what is left where calls do overlap:
`httpd_stop` gets a server that is there, unpublished and in one call's hands.

### The HTTP exchange

`HttpExchangeProofs`, for bodies of any length, any number of calls and any room
for header fields (`BoundsAssumption`): `RequestStaysWhole`
(`Spec => []RequestIsWhole`) and `ResponseStaysFramed`
(`Spec => []ResponseIsFramed`). What the client has received follows from what
the response object keeps only while the two move together; `FramingInv` states
that for the three phases of a response - not begun, begun with a length, begun
in chunks. The header block is the hard part: `FieldsInv` says that the names are
distinct and no framing names, and that a `Begin` which failed for lack of room
has left ESP-IDF full, so that the next one fails as well and no field is handed
over twice. From it follows that a block which begins with the platform's own
field has that one framing field, and `Connection` if the platform adds it.

### The WebSocket connection

`WebSocketConnectionProofs`, for any limit on messages and any number of sessions,
frames and calls, each call on a thread of its own (`MessageAssumption`,
`BoundsAssumption`):

| Theorem | States |
|---|---|
| `TypeCorrect` | `Spec => []TypeOK` |
| `AsksForOwnSession` | `Spec => []AskedOfOwnSession` |
| `ReasonIsKnown` | `Spec => []CloseReasonKnown` |
| `MessagesDelivered` | `Spec => []DeliversMessages` |

`AskedOfOwnSession` is about the queue; what makes it true is what a call knows
before it queues: a connection that it holds and finds open is the connection of
the session that has the descriptor now (`HeldInv`), because a connection leaves
the table only on its way to being marked closed (`TableInv`). `ReasonInv` puts
the reason of a close before its frame, at each step of `Close` and in the queue
(`QueueOK`), and reports a session only after its end. `ReadingInv` says that the
fragment buffer is the peer's message as far as it has come, or that the message
is over the limit already and the endpoint has dropped it, which is why the next
data frame is taken for a new message by both.

### The WebSocket client

`WebSocketClientProofs`, for any set of threads and any number of clients and
links (`BoundsAssumption`):

| Theorem | States |
|---|---|
| `TypeCorrect` | `Spec => []TypeOK` |
| `OneDestroy` | `Spec => []DestroyedOnce` |
| `NoSelfWait` | `Spec => []CallbackIsRecognised` |
| `CredentialsStay` | `Spec => []CredentialsOutliveClient` |
| `NoForeignCloseCode` | `Spec => []CloseCodeIsOwn` |
| `SinkIsTold` | `Spec => []SinkAgrees` |
| `SinkHearsInTurn` | `Spec => NotificationsAlternate` |
| `NoSecondClient` | `Spec => []OneClientAtATime`, no proviso |

`ClientInv` says that `_disconnecting` stands for the one thread that holds the
handle of the one native client there is. `HandlerInv` says that the native
client runs as long as its task handles an event, so that neither a `Connect` nor
the end of a `Disconnect` falls into the middle of one: that is why
`_eventTask` is right in a callback. `CloseInv` follows a close code from the
frame to the report of the same link. `NotifiedInv` and `HeardInv` relate
`_connected`, `_disconnectNotified` and what the sink has heard, but for the one
notification that may be on its way.

### The client's frames

`ClientFramesProofs`, for any limit, size of payload and number of frames
(`LimitAssumption`): `TypeCorrect` (`Spec => []TypeOK`), `FramesDelivered`
(`Spec => []DeliversFrames`) and `FramesImplementStream`
(`Spec => ImplementsStream`). The buffer may hold what an abandoned frame left in
it; `BufferInv` says that from the second part of a frame on it has that frame's
length and opcode and is filled, up to the present offset, with that frame's
bytes. The refinement rests on it: the step that completes a frame hands on the
buffer, which `BufferInv` makes the frame itself; every earlier part is a
stutter.

### Wi-Fi

`WiFiPlatformProofs`, for any configurations and stations and any clock and
delays that `DelayAssumption` and `ClockAssumption` admit:

| Theorem | States |
|---|---|
| `TypeCorrect` | `Spec => []TypeOK` |
| `NoEarlyRetry` | `Spec => []RetryNotEarly` |
| `EventsAlwaysAgree` | `Spec => []EventsAgree` |

`WaitInv` is the way from the clock to the deadline: while a retry waits it is
what the delay has left, modulo `Wrap`, so at most half a turn, and the signed
comparison of `TimeReached` tells it from the past. The invariant is inductive
because every call that leaves a reconnecting client's deadline alone also leaves
the waiting alone. Of the exponential delay only that it is a natural number not
above `MaximumDelay` is used: its power stays unexpanded in the proofs. The
clock's arithmetic is in the lemmas `Times` and `Deadline...`. `EventsAgree` is
inductive with the types: a silent change of the address turns both of its sides
around (`SilentAddress`), an event settles both (`ToldAddress`), and `Reported`
follows the stations through a list that is found, or an access point that is gone.

### Checked first

Every inductive invariant above, but for the sums of the DNS reply, also holds in
a run of TLC on the instance of its module in section 3.

### Only model-checked

The liveness properties (`EventuallyDrained`, `CallsReturn` of the server and of
the client, `CloseTakesEffect`, `LostClientRetries`), which need fairness and are
out of the prover's reach. Every invariant and every action property that a run
checks, and both refinements, are theorems.

## 5. Not modelled

- GPIO providers: one shared interrupt service, otherwise native calls. What
  reading them showed: when somebody else has installed the service, the core
  asked for is recorded as the service's (IDFGPIOProvider 153), and later
  requests are judged against it.
- Event transports: chains of Arduino client calls; the MQTT protocol and the
  framing are in libraries that are not part of the repository.
- A second radio beside the first: its claim of the callback (187, 212) is two
  steps.
- Wi-Fi scans (172-188, 581-612): they share no state with the connection, but
  their three variables would multiply the state space by twelve. What reading
  them showed: `Apply` clears `_scanRunning` (line 28) and keeps the reported scan
  state, so a scan under way stays "Scanning" until another one ends.
- Wording, logging, activity notifications, header values, DNS response codes
  and record data, TLS parameters, JSON and configuration validation: they decide
  whether a call goes ahead and nothing else.
- `MemoryProvider` and storage: chains of native calls without state of their own.
- Execution, synchronization, queue, clock and entropy providers, byte streams,
  umbrella headers: one native call per method.
- Weak-memory effects beyond interleaving (see RawRadio), real time, and the
  contents of ESP-IDF and lwIP; what the code uses of them is marked external.

## 6. State of the work, and what could come next

Done: the nine specifications that model code and the two abstract ones, both
refinements, and a proof of every safety property that a run checks. Worth
adding, in this order:

1. `GpioService`: who installs the interrupt service, on which core; life of an
   interrupt object against its ISR. The repository's README promises (line 128)
   a conflict "rather than silently violating the requested affinity".
2. Event transports: reconnect, resubscription after a failed subscription.
3. A second radio instance for the claim of the callback.
4. `WiFiScan`: scans as a module of their own.
5. `WebSocketConnection`'s reassembly as an implementation of a message stream
   like `FrameStream`.
