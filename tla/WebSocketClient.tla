--------------------------- MODULE WebSocketClient ---------------------------
(***************************************************************************)
(* ESP32WebSocketClientPlatform (ESPressio_WebSocketClientPlatform.hpp):   *)
(* application threads call Connect, Disconnect, Reset and the sends of a  *)
(* connection; the task of the native esp_websocket_client raises events   *)
(* that the platform handles and passes on to its sink.                    *)
(*                                                                         *)
(* A step is one critical section of _mutex, one native call, or one call  *)
(* of the sink: close, stop, destroy, the sends and the sink are called    *)
(* with the mutex released, Connect holds it throughout.                   *)
(*                                                                         *)
(* A Connect makes a native client and a ClientConnection; both have the   *)
(* number of that Connect.  A link is one established connection of a      *)
(* native client, which may reconnect by itself.  Frames of data are in    *)
(* ClientFrames.                                                           *)
(***************************************************************************)
EXTENDS Naturals

CONSTANTS
    AppThreads,   \* threads that call the platform
    MaxClients,   \* bound: calls of Connect that make a native client
    MaxLinks      \* bound: links ever established

ASSUME BoundsAssumption == MaxClients \in Nat /\ MaxLinks \in Nat

Clients == 1 .. MaxClients
Links   == 1 .. MaxLinks
None    == 0

VARIABLES
    client,         \* _client
    connection,     \* _connection
    connected,      \* _connected, and _open of the present connection
    disconnecting,  \* _disconnecting
    notified,       \* _disconnectNotified
    eventTask,      \* _eventTask, as the client whose task it is
    sink,           \* _sink # nullptr
    peerClose,      \* the link whose close frame _peerCloseCode is from, or None
    creds,          \* the client that the credential buffers were filled for
    native,         \* per client: absent, idle, running, stopped, destroyed
    link,           \* the established link of the running client, or None
    stopAsked,      \* the running client has been told to close or stop
    epc,            \* native task: where it is
    event,          \*   the event it has raised
    eventLink,      \*   the link that the event is about
    tellSink,       \*   the handler's local `sink` is set
    tpc,            \* per application thread: where its call is
    thandle,        \*   its local native handle
    tconn,          \*   the connection object it sends on
    twas,           \*   Disconnect's local `wasConnected`
    treset,         \*   the Disconnect is the one that Reset calls
    made,           \* history: clients made so far
    links,          \* history: links so far
    heard,          \* history: what the sink heard last
    crossed,        \* history: a Connect overtook the notification of a Disconnect
    late,           \* history: a Connected event was handled during a Disconnect
    stripped        \* history: a Reset finished although a client was running

platform == <<client, connection, connected, disconnecting, notified, eventTask, sink,
              peerClose, creds>>
nativeVars == <<native, link, stopAsked, links>>
handler    == <<epc, event, eventLink, tellSink>>
threadVars == <<tpc, thandle, tconn, twas, treset>>
ghosts     == <<made, heard, crossed, late, stripped>>
vars       == <<platform, nativeVars, handler, threadVars, ghosts>>

Running == native[client] = "running"

\* A thread is inside Disconnect and has not finished with its native handle.
Stopping(t) == tpc[t] \in {"stop", "destroy", "final"}

\* Where a thread goes when its Disconnect is over.
AfterDisconnect(t) == IF treset[t] THEN "resetFinal" ELSE "idle"

-----------------------------------------------------------------------------
(* Mutations: plausible mistakes in the code, each the body of the action it  *)
(* is named after with one thing wrong.  No specification uses them.          *)

\* Disconnect forgets to copy the handle under the lock.
DisconnectLockNoHandle(t) ==
    /\ tpc[t] = "idle" /\ client # None /\ ~disconnecting
    /\ disconnecting' = TRUE
    /\ tpc' = [tpc EXCEPT ![t] = "stop"]
    /\ twas' = [twas EXCEPT ![t] = connected]
    /\ \E reset \in BOOLEAN : treset' = [treset EXCEPT ![t] = reset]
    /\ UNCHANGED <<client, connection, connected, notified, eventTask, sink, peerClose,
                   creds, nativeVars, handler, thandle, tconn, ghosts>>

\* Disconnect does not look at _disconnecting.
DisconnectLockTwice(t) ==
    /\ tpc[t] = "idle" /\ client # None
    /\ disconnecting' = TRUE
    /\ tpc' = [tpc EXCEPT ![t] = "stop"]
    /\ thandle' = [thandle EXCEPT ![t] = client]
    /\ twas' = [twas EXCEPT ![t] = connected]
    /\ \E reset \in BOOLEAN : treset' = [treset EXCEPT ![t] = reset]
    /\ UNCHANGED <<client, connection, connected, notified, eventTask, sink, peerClose,
                   creds, nativeVars, handler, tconn, ghosts>>

\* The credentials are cleared before the native client is stopped.
DisconnectLockClears(t) ==
    /\ tpc[t] = "idle" /\ client # None /\ ~disconnecting
    /\ disconnecting' = TRUE /\ creds' = None
    /\ tpc' = [tpc EXCEPT ![t] = "stop"]
    /\ thandle' = [thandle EXCEPT ![t] = client]
    /\ twas' = [twas EXCEPT ![t] = connected]
    /\ \E reset \in BOOLEAN : treset' = [treset EXCEPT ![t] = reset]
    /\ UNCHANGED <<client, connection, connected, notified, eventTask, sink, peerClose,
                   nativeVars, handler, tconn, ghosts>>

\* Disconnect relies on the native client to raise its last event.
DisconnectFinalSilent(t) ==
    /\ tpc[t] = "final"
    /\ client' = IF client = thandle[t] THEN None ELSE client
    /\ connected' = FALSE /\ eventTask' = None /\ creds' = None /\ disconnecting' = FALSE
    /\ tpc' = [tpc EXCEPT ![t] = AfterDisconnect(t)]
    /\ thandle' = [thandle EXCEPT ![t] = None]
    /\ twas' = [twas EXCEPT ![t] = FALSE]
    /\ UNCHANGED <<connection, notified, sink, peerClose, nativeVars, handler, tconn,
                   treset, ghosts>>

\* The native task is not recorded.
HandleNativeEventUnrecorded ==
    /\ epc = "raised"
    /\ epc' = "handle"
    /\ UNCHANGED <<platform, nativeVars, event, eventLink, tellSink, threadVars, ghosts>>

\* Disconnect holds the mutex while it waits for the native task.
HandleNativeEventBlocked ==
    /\ epc = "raised"
    /\ \A t \in AppThreads : tpc[t] # "destroy"
    /\ eventTask' = IF eventTask = None THEN client ELSE eventTask
    /\ epc' = "handle"
    /\ UNCHANGED <<client, connection, connected, disconnecting, notified, sink, peerClose,
                   creds, nativeVars, event, eventLink, tellSink, threadVars, ghosts>>

\* The close code of an earlier link survives a reconnect.
HandleConnectedKeepsCode ==
    /\ epc = "handle" /\ event = "connected"
    /\ IF client = None \/ connection = None
       THEN epc' = "idle" /\ UNCHANGED <<connected, notified, tellSink, late>>
       ELSE /\ connected' = TRUE /\ notified' = FALSE
            /\ tellSink' = sink
            /\ epc' = "notify"
            /\ late' = (late \/ \E t \in AppThreads : Stopping(t) /\ ~twas[t])
    /\ UNCHANGED <<client, connection, disconnecting, eventTask, sink, peerClose, creds,
                   nativeVars, event, eventLink, threadVars, made, heard, crossed, stripped>>

\* HandleDisconnected does not look at _disconnectNotified.
HandleDisconnectedAlways ==
    /\ epc = "handle" /\ event \in {"lost", "closed"}
    /\ connected' = FALSE
    /\ notified' = TRUE
    /\ epc' = "notify" /\ tellSink' = sink
    /\ UNCHANGED <<client, connection, disconnecting, eventTask, sink, peerClose, creds,
                   nativeVars, event, eventLink, threadVars, ghosts>>

-----------------------------------------------------------------------------
Init ==
    /\ client = None /\ connection = None /\ connected = FALSE
    /\ disconnecting = FALSE /\ notified = TRUE /\ eventTask = None
    /\ sink = TRUE /\ peerClose = None /\ creds = None
    /\ native = [c \in Clients |-> "absent"]
    /\ link = None /\ stopAsked = FALSE /\ links = 0
    /\ epc = "idle" /\ event = "none" /\ eventLink = None /\ tellSink = FALSE
    /\ tpc = [t \in AppThreads |-> "idle"]
    /\ thandle = [t \in AppThreads |-> None]
    /\ tconn = [t \in AppThreads |-> None]
    /\ twas = [t \in AppThreads |-> FALSE]
    /\ treset = [t \in AppThreads |-> FALSE]
    /\ made = 0 /\ heard = "none"
    /\ crossed = FALSE /\ late = FALSE /\ stripped = FALSE

-----------------------------------------------------------------------------
(* The application's calls *)

\* The owner installs its sink before it uses the platform.
SetSink ==
    /\ ~sink /\ client = None /\ epc = "idle"
    /\ \A t \in AppThreads : tpc[t] \in {"idle", "send"}
    /\ sink' = TRUE /\ heard' = "none"
    /\ UNCHANGED <<client, connection, connected, disconnecting, notified, eventTask,
                   peerClose, creds, nativeVars, handler, threadVars, made, crossed, late,
                   stripped>>

\* What a Connect that gets as far as making the native client does first.
MakesClient(t) ==
    /\ tpc[t] = "idle" /\ client = None /\ ~disconnecting
    /\ made < MaxClients
    /\ made' = made + 1
    /\ crossed' = (crossed \/ \E u \in AppThreads : tpc[u] = "fallback")

ResetsState ==
    /\ connected' = FALSE /\ notified' = TRUE /\ eventTask' = None /\ peerClose' = None

Connect(t) ==
    /\ MakesClient(t) /\ ResetsState
    /\ client' = made + 1 /\ connection' = made + 1 /\ creds' = made + 1
    /\ native' = [native EXCEPT ![made + 1] = "running"]
    /\ link' = None /\ stopAsked' = FALSE
    /\ UNCHANGED <<disconnecting, sink, links, handler, threadVars, heard, late, stripped>>

\* esp_websocket_client_start fails: everything is taken back.
ConnectStartFails(t) ==
    /\ MakesClient(t) /\ ResetsState
    /\ connection' = None /\ creds' = None
    /\ native' = [native EXCEPT ![made + 1] = "destroyed"]
    /\ UNCHANGED <<client, disconnecting, sink, link, stopAsked, links, handler,
                   threadVars, heard, late, stripped>>

\* MakeShared throws between the assignment of _client and the start.
ConnectThrows(t) ==
    /\ MakesClient(t)
    /\ client' = made + 1 /\ creds' = made + 1
    /\ native' = [native EXCEPT ![made + 1] = "idle"]
    /\ UNCHANGED <<connection, connected, disconnecting, notified, eventTask, sink,
                   peerClose, link, stopAsked, links, handler, threadVars, heard, late,
                   stripped>>

\* The first critical section of Disconnect, called directly, through a
\* connection's Close, or by Reset.
DisconnectLock(t) ==
    /\ tpc[t] = "idle" /\ client # None /\ ~disconnecting
    /\ disconnecting' = TRUE
    /\ tpc' = [tpc EXCEPT ![t] = "stop"]
    /\ thandle' = [thandle EXCEPT ![t] = client]
    /\ twas' = [twas EXCEPT ![t] = connected]
    /\ \E reset \in BOOLEAN : treset' = [treset EXCEPT ![t] = reset]
    /\ UNCHANGED <<client, connection, connected, notified, eventTask, sink, peerClose,
                   creds, nativeVars, handler, tconn, ghosts>>

\* is_connected, then close_with_code or stop: both end the task.
DisconnectStop(t) ==
    /\ tpc[t] = "stop"
    /\ stopAsked' = TRUE
    /\ tpc' = [tpc EXCEPT ![t] = "destroy"]
    /\ UNCHANGED <<platform, native, link, links, handler, thandle, tconn, twas, treset,
                   ghosts>>

\* esp_websocket_client_destroy returns once the task has ended.
DisconnectDestroy(t) ==
    /\ tpc[t] = "destroy" /\ native[thandle[t]] \in {"idle", "stopped"}
    /\ native' = [native EXCEPT ![thandle[t]] = "destroyed"]
    /\ tpc' = [tpc EXCEPT ![t] = "final"]
    /\ UNCHANGED <<platform, link, stopAsked, links, handler, thandle, tconn, twas, treset,
                   ghosts>>

\* The last critical section of Disconnect.
DisconnectFinal(t) ==
    /\ tpc[t] = "final"
    /\ client' = IF client = thandle[t] THEN None ELSE client
    /\ connected' = FALSE /\ eventTask' = None /\ creds' = None /\ disconnecting' = FALSE
    /\ notified' = (notified \/ twas[t])
    /\ tpc' = [tpc EXCEPT ![t] = IF twas[t] /\ ~notified /\ sink THEN "fallback"
                                 ELSE AfterDisconnect(t)]
    /\ thandle' = [thandle EXCEPT ![t] = None]
    /\ twas' = [twas EXCEPT ![t] = FALSE]
    /\ UNCHANGED <<connection, sink, peerClose, nativeVars, handler, tconn, treset, ghosts>>

\* Disconnect itself tells the sink when no event has.
DisconnectFallback(t) ==
    /\ tpc[t] = "fallback"
    /\ heard' = "disconnected"
    /\ tpc' = [tpc EXCEPT ![t] = AfterDisconnect(t)]
    /\ UNCHANGED <<platform, nativeVars, handler, thandle, tconn, twas, treset, made,
                   crossed, late, stripped>>

\* Reset whose Disconnect returns at once: nothing to do, or already going on.
ResetSkipsDisconnect(t) ==
    /\ tpc[t] = "idle" /\ (client = None \/ disconnecting)
    /\ tpc' = [tpc EXCEPT ![t] = "resetFinal"]
    /\ UNCHANGED <<platform, nativeVars, handler, thandle, tconn, twas, treset, ghosts>>

\* The rest of Reset, whatever its Disconnect answered.
ClearAll ==
    /\ sink' = FALSE /\ connection' = None /\ creds' = None
    /\ stripped' = (stripped \/ client # None)

ResetFinal(t) ==
    /\ tpc[t] = "resetFinal"
    /\ ClearAll
    /\ tpc' = [tpc EXCEPT ![t] = "idle"]
    /\ treset' = [treset EXCEPT ![t] = FALSE]
    /\ UNCHANGED <<client, connected, disconnecting, notified, eventTask, peerClose,
                   nativeVars, handler, thandle, tconn, twas, made, heard, crossed, late>>

\* SendBinary or SendText on connection c, which need not be the present one.
SendLock(t) ==
    /\ tpc[t] = "idle" /\ connected /\ client # None
    /\ \E c \in 1 .. made :
          /\ connection = c
          /\ tconn' = [tconn EXCEPT ![t] = c]
    /\ thandle' = [thandle EXCEPT ![t] = client]
    /\ tpc' = [tpc EXCEPT ![t] = "send"]
    /\ UNCHANGED <<platform, nativeVars, handler, twas, treset, ghosts>>

\* esp_websocket_client_send_* with the handle read before the unlock.
SendReturns(t) ==
    /\ tpc[t] = "send"
    /\ tpc' = [tpc EXCEPT ![t] = "idle"]
    /\ thandle' = [thandle EXCEPT ![t] = None]
    /\ tconn' = [tconn EXCEPT ![t] = None]
    /\ UNCHANGED <<platform, nativeVars, handler, twas, treset, ghosts>>

-----------------------------------------------------------------------------
(* The task of the native client (external) *)

Raise(e, l) ==
    /\ epc' = "raised" /\ event' = e /\ eventLink' = l
    /\ UNCHANGED tellSink

\* Also in the middle of a stop: the loop looks at its flag once per turn.
NativeConnects ==
    /\ client # None /\ Running /\ epc = "idle" /\ link = None /\ links < MaxLinks
    /\ links' = links + 1 /\ link' = links + 1
    /\ Raise("connected", links + 1)
    /\ UNCHANGED <<platform, native, stopAsked, threadVars, ghosts>>

\* DISCONNECTED: the link is lost, or an attempt to connect has failed.
NativeLoses ==
    /\ client # None /\ Running /\ epc = "idle"
    /\ link' = None
    /\ Raise("lost", link)
    /\ UNCHANGED <<platform, native, stopAsked, links, threadVars, ghosts>>

\* A close frame with a code arrives.
NativeReceivesClose ==
    /\ client # None /\ Running /\ epc = "idle" /\ link # None
    /\ Raise("closeFrame", link)
    /\ UNCHANGED <<platform, nativeVars, threadVars, ghosts>>

\* CLOSED: the closing handshake is complete, whoever began it.
NativeCloses ==
    /\ client # None /\ Running /\ epc = "idle" /\ link # None
    /\ link' = None
    /\ Raise("closed", link)
    /\ UNCHANGED <<platform, native, stopAsked, links, threadVars, ghosts>>

\* The task ends: it was told to, or it gives up without a link.  A stop with
\* the link up raises no event of its own.
NativeEnds ==
    /\ client # None /\ Running /\ epc = "idle" /\ (stopAsked \/ link = None)
    /\ native' = [native EXCEPT ![client] = "stopped"]
    /\ link' = None
    /\ UNCHANGED <<platform, stopAsked, links, handler, threadVars, ghosts>>

-----------------------------------------------------------------------------
(* The event handler, on that task *)

\* The critical section of HandleNativeEvent.
HandleNativeEvent ==
    /\ epc = "raised"
    /\ eventTask' = IF eventTask = None THEN client ELSE eventTask
    /\ epc' = "handle"
    /\ UNCHANGED <<client, connection, connected, disconnecting, notified, sink, peerClose,
                   creds, nativeVars, event, eventLink, tellSink, threadVars, ghosts>>

HandleConnected ==
    /\ epc = "handle" /\ event = "connected"
    /\ IF client = None \/ connection = None
       THEN epc' = "idle" /\ UNCHANGED <<connected, notified, peerClose, tellSink, late>>
       ELSE /\ connected' = TRUE /\ notified' = FALSE /\ peerClose' = None
            /\ tellSink' = sink
            /\ epc' = "notify"
            /\ late' = (late \/ \E t \in AppThreads : Stopping(t) /\ ~twas[t])
    /\ UNCHANGED <<client, connection, disconnecting, eventTask, sink, creds, nativeVars,
                   event, eventLink, threadVars, made, heard, crossed, stripped>>

HandleDisconnected ==
    /\ epc = "handle" /\ event \in {"lost", "closed"}
    /\ connected' = FALSE
    /\ notified' = TRUE
    /\ IF notified THEN epc' = "idle" /\ UNCHANGED tellSink
       ELSE epc' = "notify" /\ tellSink' = sink
    /\ UNCHANGED <<client, connection, disconnecting, eventTask, sink, peerClose, creds,
                   nativeVars, event, eventLink, threadVars, ghosts>>

RememberPeerClose ==
    /\ epc = "handle" /\ event = "closeFrame"
    /\ peerClose' = eventLink
    /\ epc' = "idle"
    /\ UNCHANGED <<client, connection, connected, disconnecting, notified, eventTask, sink,
                   creds, nativeVars, event, eventLink, tellSink, threadVars, ghosts>>

\* OnPlatformWebSocketClientConnected or ...Disconnected.
NotifySink ==
    /\ epc = "notify"
    /\ heard' = IF ~tellSink THEN heard
                ELSE IF event = "connected" THEN "connected" ELSE "disconnected"
    /\ epc' = IF tellSink THEN "callback" ELSE "idle"
    /\ UNCHANGED <<platform, nativeVars, event, eventLink, tellSink, threadVars, made,
                   crossed, late, stripped>>

\* The sink returns; a Disconnect it calls is refused on this task.
CallbackReturns ==
    /\ epc = "callback"
    /\ epc' = "idle"
    /\ UNCHANGED <<platform, nativeVars, event, eventLink, tellSink, threadVars, ghosts>>

\* The sink calls Reset on this task: its Disconnect is refused, the rest is not.
CallbackResets ==
    /\ epc = "callback"
    /\ ClearAll
    /\ UNCHANGED <<client, connected, disconnecting, notified, eventTask, peerClose,
                   nativeVars, handler, threadVars, made, heard, crossed, late>>

-----------------------------------------------------------------------------
ThreadFinishes(t) ==
    \/ DisconnectStop(t) \/ DisconnectDestroy(t) \/ DisconnectFinal(t)
    \/ DisconnectFallback(t) \/ ResetFinal(t) \/ SendReturns(t)

ThreadStep(t) ==
    \/ Connect(t) \/ ConnectStartFails(t) \/ ConnectThrows(t)
    \/ DisconnectLock(t) \/ ResetSkipsDisconnect(t) \/ SendLock(t)
    \/ ThreadFinishes(t)

Handles ==
    \/ HandleNativeEvent \/ HandleConnected \/ HandleDisconnected \/ RememberPeerClose
    \/ NotifySink \/ CallbackReturns

TaskStep ==
    \/ NativeConnects \/ NativeLoses \/ NativeReceivesClose \/ NativeCloses \/ NativeEnds
    \/ Handles \/ CallbackResets

Next == SetSink \/ TaskStep \/ \E t \in AppThreads : ThreadStep(t)

Spec == Init /\ [][Next]_vars

\* A thread inside a call goes on, the native task finishes the event it has
\* raised, and it gets round to its stop flag however many events it raises.
FairSpec ==
    /\ Spec
    /\ \A t \in AppThreads : WF_vars(ThreadFinishes(t))
    /\ WF_vars(Handles) /\ SF_vars(NativeEnds)

-----------------------------------------------------------------------------
(* Properties *)

\* Type invariant of the platform, the native client and the threads; in
\* particular every handle that a thread uses after the unlock is a real one.
TypeOK ==
    /\ client \in Clients \union {None} /\ connection \in Clients \union {None}
    /\ connected \in BOOLEAN /\ disconnecting \in BOOLEAN /\ notified \in BOOLEAN
    /\ eventTask \in Clients \union {None} /\ sink \in BOOLEAN
    /\ peerClose \in Links \union {None} /\ creds \in Clients \union {None}
    /\ native \in [Clients -> {"absent", "idle", "running", "stopped", "destroyed"}]
    /\ link \in Links \union {None} /\ stopAsked \in BOOLEAN /\ links \in 0 .. MaxLinks
    /\ epc \in {"idle", "raised", "handle", "notify", "callback"}
    /\ event \in {"none", "connected", "lost", "closed", "closeFrame"}
    /\ eventLink \in Links \union {None} /\ tellSink \in BOOLEAN
    /\ tpc \in [AppThreads -> {"idle", "stop", "destroy", "final", "fallback",
                               "resetFinal", "send"}]
    /\ thandle \in [AppThreads -> Clients \union {None}]
    /\ \A t \in AppThreads : Stopping(t) \/ tpc[t] = "send" => thandle[t] # None
    /\ tconn \in [AppThreads -> Clients \union {None}]
    /\ twas \in [AppThreads -> BOOLEAN] /\ treset \in [AppThreads -> BOOLEAN]
    /\ made \in 0 .. MaxClients /\ heard \in {"none", "connected", "disconnected"}
    /\ crossed \in BOOLEAN /\ late \in BOOLEAN /\ stripped \in BOOLEAN

\* Disconnect never closes, stops or destroys a native client that is already
\* destroyed, however many threads call it (lines 279-309).
DestroyedOnce ==
    \A t \in AppThreads :
        tpc[t] \in {"stop", "destroy"} =>
            /\ native[thandle[t]] # "destroyed"
            /\ \A u \in AppThreads \ {t} : Stopping(u) => thandle[u] # thandle[t]

\* Inside a callback of the sink the platform recognises the native task, so
\* that a Disconnect made there is refused and the task never waits for its own
\* end (lines 281-284, 603).
CallbackIsRecognised ==
    epc = "callback" /\ client # None => eventTask = client

\* The credential buffers, which the native client points into, are filled for
\* as long as that client exists (lines 204-227, 322, 363), unless a Reset ran
\* to its end beside a running client.
CredentialsOutliveClient ==
    ~stripped => \A c \in Clients :
        native[c] \in {"idle", "running", "stopped"} => creds = c

\* A peer's close code that HandleDisconnected reports was received on the link
\* that has just closed, never on an earlier one (lines 634, 655-661).
CloseCodeIsOwn ==
    epc = "handle" /\ event = "closed" /\ connection # None =>
        peerClose \in {None, eventLink}

\* The sink hears Connected and Disconnected in turn, each exactly once (lines
\* 632, 650-651, 325-326), unless a Connect overtook an earlier Disconnect's
\* notification or a Connected event came in the middle of a Disconnect.
NotificationsAlternate ==
    [][ (NotifySink /\ tellSink) \/ (\E t \in AppThreads : DisconnectFallback(t))
          => \/ crossed \/ late
             \/ heard' = "connected" /\ heard # "connected"
             \/ heard' = "disconnected" /\ heard = "connected" ]_vars

\* Whenever nobody is in the middle of telling it, the sink's last notification
\* agrees with IsConnected, under the same provisos (lines 631, 317, 325).
SinkAgrees ==
    /\ sink /\ ~crossed /\ ~late
    /\ epc \in {"idle", "raised", "callback"}
    /\ \A t \in AppThreads : tpc[t] # "fallback"
    => (heard = "connected") = connected

\* Every call returns: Disconnect never waits forever for the native task.
CallsReturn ==
    \A t \in AppThreads : tpc[t] # "idle" ~> tpc[t] = "idle"
=============================================================================
