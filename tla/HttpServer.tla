----------------------------- MODULE HttpServer -----------------------------
(***************************************************************************)
(* ESP32HttpServerPlatform (ESPressio_HttpServerPlatform.hpp) together     *)
(* with the binding life cycle of ESP32WebSocketEndpointPlatform           *)
(* (ESPressio_WebSocketEndpointPlatform.hpp).                              *)
(*                                                                         *)
(* Application threads call Initialize, Start, Stop and Reset on the       *)
(* server; one more thread calls Bind and Unbind on a WebSocket endpoint.  *)
(* Each native HTTPD instance has a task of its own that dispatches to the *)
(* binding that a URI handler holds as a raw user_ctx pointer and reports  *)
(* closed sockets.  A step is one critical section of _mutex, one native   *)
(* call, or the code between two of them: httpd_start and httpd_stop run   *)
(* with the mutex released.                                                *)
(*                                                                         *)
(* A BindingState is a number, handed out in the order of allocation; it   *)
(* is alive while a shared_ptr to it exists.  All states of the one        *)
(* endpoint have the same path.                                            *)
(***************************************************************************)
EXTENDS Naturals, FiniteSets

CONSTANTS
    ServerThreads,  \* threads that call the server's methods
    Sockets,        \* file descriptors; a closed one is used again
    MaxNatives,     \* bound: native HTTPD instances ever started
    MaxStates,      \* bound: BindingStates ever allocated
    AllocMayFail,   \* may System::Memory::MakeShared throw in Unbind?
    NoSocket        \* model value: no socket

ASSUME BoundsAssumption == MaxNatives \in Nat /\ MaxStates \in Nat \ {0}
ASSUME AllocAssumption == AllocMayFail \in BOOLEAN

Natives == 1 .. MaxNatives
States  == 1 .. MaxStates
None    == 0

VARIABLES
    server,      \* _server: the published native instance, or None
    starting,    \* _starting
    dispatcher,  \* _dispatcher # nullptr
    bindings,    \* _webSocketBindings
    tpc,         \* per server thread: where its call is
    thandle,     \* per server thread: its local httpd handle
    tsnap,       \* per server thread: Start's local copy of the bindings
    native,      \* per native instance: absent, running, stopping, draining, gone
    handlers,    \* per native instance: user_ctx of its WebSocket URI handlers
    task,        \* per native instance: what its task is doing
    session,     \* per socket: the native instance and binding it belongs to
    active,      \* per BindingState: _active
    conns,       \* per BindingState: _connections, as their sockets
    closeReq,    \* sockets whose session HTTPD has been asked to close
    current,     \* the endpoint's _state
    retired,     \* Unbind's local `retired`, or None
    epc,         \* where the endpoint thread is
    allocated,   \* history: BindingStates allocated so far
    overlap,     \* history: a call changed the server inside another's Stop or Reset
    stopFailed   \* history: an httpd_stop has failed

serverVars   == <<server, starting, dispatcher, bindings>>
threadVars   == <<tpc, thandle, tsnap>>
nativeVars   == <<native, handlers, task, session, closeReq>>
endpointVars == <<active, conns, current, retired, epc, allocated>>
historyVars  == <<overlap, stopFailed>>
vars == <<serverVars, threadVars, nativeVars, endpointVars, historyVars>>

Idle == [pc |-> "idle", socket |-> NoSocket, todo |-> {}]
NoSession == [native |-> None, binding |-> None]

Live(n) == native[n] \in {"running", "stopping", "draining"}

\* The binding survives as long as some shared_ptr holds it: the endpoint's,
\* the server's list, a copy of that list, or Unbind's local.
Alive(b) ==
    \/ b = current \/ b = retired \/ b \in bindings
    \/ \E t \in ServerThreads : b \in tsnap[t]
    \/ \E n \in Natives : b \in task[n].todo

\* erase(remove_if(... !IsActive())), under the mutex.
ActiveBindings == {b \in bindings : active[b]}

\* A thread is between the critical sections of its Stop or Reset.
InStop(u) == tpc[u] \in {"stopping", "purge", "resetStopping", "resetPurge", "resetFinal"}
AnyInStop == \E u \in ServerThreads : InStop(u)
OtherInStop(t) == \E u \in ServerThreads \ {t} : InStop(u)
Overlapping(t) == overlap' = (overlap \/ OtherInStop(t))

SetPc(t, pc) == tpc' = [tpc EXCEPT ![t] = pc]

-----------------------------------------------------------------------------
(* Mutations: plausible mistakes in the code, each the body of the action it  *)
(* is named after with one thing wrong.  No specification uses them.          *)

\* The published handle is forgotten before it is taken.
StopLockSwapped(t) ==
    /\ tpc[t] = "idle" /\ ~starting /\ server # None
    /\ server' = None
    /\ thandle' = [thandle EXCEPT ![t] = None]
    /\ native' = [native EXCEPT ![server] = "stopping"]
    /\ \/ SetPc(t, "stopping")
       \/ SetPc(t, "resetStopping")
    /\ Overlapping(t)
    /\ UNCHANGED <<starting, dispatcher, bindings, tsnap, handlers, task, session, closeReq,
                   endpointVars, stopFailed>>

\* Start does not look at _starting.
StartLockTwice(t) ==
    /\ tpc[t] = "idle" /\ server = None /\ dispatcher
    /\ bindings' = ActiveBindings
    /\ tsnap' = [tsnap EXCEPT ![t] = ActiveBindings]
    /\ starting' = TRUE
    /\ SetPc(t, "httpdStart")
    /\ Overlapping(t)
    /\ UNCHANGED <<server, dispatcher, thandle, nativeVars, endpointVars, stopFailed>>

\* Reset forgets the dispatcher first and then calls Stop.
ResetSkipsStopClears(t) ==
    /\ tpc[t] = "idle" /\ (starting \/ server = None)
    /\ dispatcher' = FALSE
    /\ SetPc(t, "resetFinal")
    /\ UNCHANGED <<server, starting, bindings, thandle, tsnap, nativeVars, endpointVars,
                   historyVars>>

\* HandleSessionClosed takes _mutex, and Stop holds it across httpd_stop.
BeginCloseBlocks(n, s) ==
    /\ session[s].native = n
    /\ \A t \in ServerThreads : tpc[t] \notin {"stopping", "resetStopping"}
    /\ Live(n) /\ (task[n] = Idle \/ (task[n].pc = "failed" /\ task[n].socket = s))
    /\ task' = [task EXCEPT ![n] = [pc |-> "closing", socket |-> s, todo |-> bindings]]
    /\ closeReq' = closeReq \ {s}
    /\ UNCHANGED <<serverVars, threadVars, native, handlers, session, endpointVars,
                   historyVars>>

\* Only active bindings are told of a closed socket.
BeginCloseActiveOnly(n, s) ==
    /\ session[s].native = n
    /\ Live(n) /\ (task[n] = Idle \/ (task[n].pc = "failed" /\ task[n].socket = s))
    /\ task' = [task EXCEPT ![n] = [pc |-> "closing", socket |-> s,
                                    todo |-> ActiveBindings]]
    /\ closeReq' = closeReq \ {s}
    /\ UNCHANGED <<serverVars, threadVars, native, handlers, session, endpointVars,
                   historyVars>>

\* ReleaseWebSocketBinding erases whether or not the server is running.
ReleaseWebSocketBindingAlways ==
    /\ \/ epc = "release" /\ epc' = "fresh"
       \/ epc = "idle" /\ ~active[current] /\ UNCHANGED epc
    /\ bindings' = ActiveBindings \ {IF epc = "release" THEN retired ELSE current}
    /\ overlap' = (overlap \/ AnyInStop)
    /\ UNCHANGED <<server, starting, dispatcher, threadVars, nativeVars, active, conns,
                   current, retired, allocated, stopFailed>>

\* Unbind keeps its state for the next Bind.
UnbindKeepsState ==
    /\ epc = "fresh"
    /\ retired' = None
    /\ epc' = "idle"
    /\ UNCHANGED <<serverVars, threadVars, nativeVars, active, conns, current, allocated,
                   historyVars>>

-----------------------------------------------------------------------------
Init ==
    /\ server = None /\ starting = FALSE /\ dispatcher = FALSE /\ bindings = {}
    /\ tpc = [t \in ServerThreads |-> "idle"]
    /\ thandle = [t \in ServerThreads |-> None]
    /\ tsnap = [t \in ServerThreads |-> {}]
    /\ native = [n \in Natives |-> "absent"]
    /\ handlers = [n \in Natives |-> {}]
    /\ task = [n \in Natives |-> Idle]
    /\ session = [s \in Sockets |-> NoSession]
    /\ active = [b \in States |-> FALSE]
    /\ conns = [b \in States |-> {}]
    /\ closeReq = {}
    /\ current = 1 /\ retired = None /\ epc = "idle" /\ allocated = 1
    /\ overlap = FALSE /\ stopFailed = FALSE

-----------------------------------------------------------------------------
(* ESP32HttpServerPlatform: Initialize, Start, Stop, Reset *)

Initialize(t) ==
    /\ tpc[t] = "idle" /\ server = None /\ ~starting
    /\ dispatcher' = TRUE
    /\ Overlapping(t)
    /\ UNCHANGED <<server, starting, bindings, threadVars, nativeVars, endpointVars,
                   stopFailed>>

\* The first critical section of Start.
StartLock(t) ==
    /\ tpc[t] = "idle" /\ server = None /\ ~starting /\ dispatcher
    /\ bindings' = ActiveBindings
    /\ tsnap' = [tsnap EXCEPT ![t] = ActiveBindings]
    /\ starting' = TRUE
    /\ SetPc(t, "httpdStart")
    /\ Overlapping(t)
    /\ UNCHANGED <<server, dispatcher, thandle, nativeVars, endpointVars, stopFailed>>

\* httpd_start fails, or Start returns after failStart: _starting goes back.
StartFailed(t) ==
    /\ \/ tpc[t] = "httpdStart"
       \/ tpc[t] = "failStop" /\ native[thandle[t]] \in {"gone", "running"}
    /\ starting' = FALSE
    /\ SetPc(t, "idle")
    /\ thandle' = [thandle EXCEPT ![t] = None]
    /\ tsnap' = [tsnap EXCEPT ![t] = {}]
    /\ Overlapping(t)
    /\ UNCHANGED <<server, dispatcher, bindings, nativeVars, endpointVars, stopFailed>>

\* httpd_start succeeds: from here on the native task runs.
StartNative(t) ==
    /\ tpc[t] = "httpdStart"
    /\ \E n \in Natives :
          /\ native[n] = "absent"
          /\ \A m \in Natives : m < n => native[m] # "absent"
          /\ native' = [native EXCEPT ![n] = "running"]
          /\ thandle' = [thandle EXCEPT ![t] = n]
    /\ SetPc(t, "register")
    /\ UNCHANGED <<serverVars, tsnap, handlers, task, session, closeReq, endpointVars,
                   historyVars>>

\* httpd_register_uri_handler for one more binding.
Register(t) ==
    /\ tpc[t] = "register"
    /\ \E b \in tsnap[t] \ handlers[thandle[t]] :
          handlers' = [handlers EXCEPT ![thandle[t]] = @ \union {b}]
    /\ UNCHANGED <<serverVars, threadVars, native, task, session, closeReq, endpointVars,
                   historyVars>>

\* A registration fails, of a binding or of an HTTP method: failStart.
RegisterFails(t) ==
    /\ tpc[t] = "register"
    /\ native' = [native EXCEPT ![thandle[t]] = "stopping"]
    /\ SetPc(t, "failStop")
    /\ UNCHANGED <<serverVars, thandle, tsnap, handlers, task, session, closeReq,
                   endpointVars, historyVars>>

\* The last critical section of Start.
StartPublish(t) ==
    /\ tpc[t] = "register" /\ tsnap[t] = handlers[thandle[t]]
    /\ server' = thandle[t]
    /\ starting' = FALSE
    /\ SetPc(t, "idle")
    /\ thandle' = [thandle EXCEPT ![t] = None]
    /\ tsnap' = [tsnap EXCEPT ![t] = {}]
    /\ Overlapping(t)
    /\ UNCHANGED <<dispatcher, bindings, nativeVars, endpointVars, stopFailed>>

\* The first critical section of Stop, called directly or by Reset, up to the
\* call of httpd_stop.
StopLock(t) ==
    /\ tpc[t] = "idle" /\ ~starting /\ server # None
    /\ thandle' = [thandle EXCEPT ![t] = server]
    /\ server' = None
    /\ native' = [native EXCEPT ![server] = "stopping"]
    /\ \/ SetPc(t, "stopping")
       \/ SetPc(t, "resetStopping")
    /\ Overlapping(t)
    /\ UNCHANGED <<starting, dispatcher, bindings, tsnap, handlers, task, session, closeReq,
                   endpointVars, stopFailed>>

\* httpd_stop returns: the native task has ended, or it could not be told to;
\* the handle is gone in both cases.
StopReturns(t) ==
    /\ tpc[t] \in {"stopping", "resetStopping"}
    /\ native[thandle[t]] \in {"gone", "running"}
    /\ SetPc(t, IF tpc[t] = "stopping" THEN "purge" ELSE "resetPurge")
    /\ thandle' = [thandle EXCEPT ![t] = None]
    /\ UNCHANGED <<serverVars, tsnap, nativeVars, endpointVars, historyVars>>

\* The last critical section of Stop.
StopPurge(t) ==
    /\ tpc[t] \in {"purge", "resetPurge"}
    /\ bindings' = ActiveBindings
    /\ SetPc(t, IF tpc[t] = "purge" THEN "idle" ELSE "resetFinal")
    /\ Overlapping(t)
    /\ UNCHANGED <<server, starting, dispatcher, thandle, tsnap, nativeVars, endpointVars,
                   stopFailed>>

\* Reset whose Stop finds nothing to stop, or a Start in progress.
ResetSkipsStop(t) ==
    /\ tpc[t] = "idle" /\ (starting \/ server = None)
    /\ SetPc(t, "resetFinal")
    /\ UNCHANGED <<serverVars, thandle, tsnap, nativeVars, endpointVars, historyVars>>

\* The critical section of Reset after its Stop.
ResetFinal(t) ==
    /\ tpc[t] = "resetFinal"
    /\ IF starting
       THEN UNCHANGED <<dispatcher, bindings>>
       ELSE dispatcher' = FALSE /\ bindings' = ActiveBindings
    /\ SetPc(t, "idle")
    /\ Overlapping(t)
    /\ UNCHANGED <<server, starting, thandle, tsnap, nativeVars, endpointVars, stopFailed>>

-----------------------------------------------------------------------------
(* The native HTTPD tasks *)

\* A client completes the WebSocket handshake on a registered URI.  Whether the
\* URI handler is then called for the upgrade depends on the ESP-IDF version.
Upgrade(n, s) ==
    /\ native[n] \in {"running", "stopping"} /\ task[n] = Idle
    /\ session[s] = NoSession
    /\ \E b \in handlers[n] :
          session' = [session EXCEPT ![s] = [native |-> n, binding |-> b]]
    /\ UNCHANGED <<serverVars, threadVars, native, handlers, task, closeReq, endpointVars,
                   historyVars>>

\* DispatchWebSocketRequest, for the upgrade or for a frame: an inactive binding
\* answers ESP_FAIL, and HTTPD closes the session.
Dispatch(n, s) ==
    /\ native[n] \in {"running", "stopping"} /\ task[n] = Idle
    /\ session[s].native = n
    /\ task' = [task EXCEPT ![n] =
                  [pc |-> IF active[session[s].binding] THEN "ensure" ELSE "failed",
                   socket |-> s, todo |-> {}]]
    /\ UNCHANGED <<serverVars, threadVars, native, handlers, session, closeReq,
                   endpointVars, historyVars>>

\* EnsureConnection of HandleWebSocketRequest: the connection of this socket is
\* found, or made (on the upgrade or, exactly once, on the first frame).
EnsureConnection(n) ==
    LET s == task[n].socket
        b == session[s].binding
    IN  /\ task[n].pc = "ensure"
        /\ conns' = [conns EXCEPT ![b] = @ \union {s}]
        /\ task' = [task EXCEPT ![n] = Idle]
        /\ UNCHANGED <<serverVars, threadVars, native, handlers, session, closeReq, active,
                       current, retired, epc, allocated, historyVars>>

\* The connection object cannot be allocated: ESP_FAIL.
EnsureFails(n) ==
    LET s == task[n].socket
    IN  /\ task[n].pc = "ensure" /\ s \notin conns[session[s].binding]
        /\ task' = [task EXCEPT ![n].pc = "failed"]
        /\ UNCHANGED <<serverVars, threadVars, native, handlers, session, closeReq,
                       endpointVars, historyVars>>

\* HTTPD deletes a session (peer gone, close requested, handler failed, least
\* recently used, or shutting down): close_fn is HandleSessionClosed, which
\* copies the list of bindings under the mutex.
BeginClose(n, s) ==
    /\ session[s].native = n
    /\ Live(n) /\ (task[n] = Idle \/ (task[n].pc = "failed" /\ task[n].socket = s))
    /\ task' = [task EXCEPT ![n] = [pc |-> "closing", socket |-> s, todo |-> bindings]]
    /\ closeReq' = closeReq \ {s}
    /\ UNCHANGED <<serverVars, threadVars, native, handlers, session, endpointVars,
                   historyVars>>

\* OnHttpSessionClosed of one of the copied bindings.
OnHttpSessionClosed(n) ==
    /\ task[n].pc = "closing"
    /\ \E b \in task[n].todo :
          /\ conns' = [conns EXCEPT ![b] = @ \ {task[n].socket}]
          /\ task' = [task EXCEPT ![n].todo = @ \ {b}]
    /\ UNCHANGED <<serverVars, threadVars, native, handlers, session, closeReq, active,
                   current, retired, epc, allocated, historyVars>>

\* close(socket): the descriptor is free for the next client.
EndClose(n) ==
    /\ task[n].pc = "closing" /\ task[n].todo = {}
    /\ session' = [session EXCEPT ![task[n].socket] = NoSession]
    /\ task' = [task EXCEPT ![n] = Idle]
    /\ UNCHANGED <<serverVars, threadVars, native, handlers, closeReq, endpointVars,
                   historyVars>>

\* The task reads the shutdown request, closes what is open, and ends.
NativeDrains(n) ==
    /\ native[n] = "stopping" /\ task[n] = Idle
    /\ native' = [native EXCEPT ![n] = "draining"]
    /\ UNCHANGED <<serverVars, threadVars, handlers, task, session, closeReq, endpointVars,
                   historyVars>>

NativeEnds(n) ==
    /\ native[n] = "draining" /\ task[n] = Idle
    /\ \A s \in Sockets : session[s].native # n
    /\ native' = [native EXCEPT ![n] = "gone"]
    /\ UNCHANGED <<serverVars, threadVars, handlers, task, session, closeReq, endpointVars,
                   historyVars>>

\* The shutdown request cannot be delivered: httpd_stop fails, the task runs on.
NativeRefusesStop(n) ==
    /\ native[n] = "stopping"
    /\ native' = [native EXCEPT ![n] = "running"]
    /\ stopFailed' = TRUE
    /\ UNCHANGED <<serverVars, threadVars, handlers, task, session, closeReq, endpointVars,
                   overlap>>

-----------------------------------------------------------------------------
(* ESP32WebSocketEndpointPlatform: Bind and Unbind *)

\* Bind: Prepare and Activate.
BindActivate ==
    /\ epc = "idle" /\ ~active[current]
    /\ active' = [active EXCEPT ![current] = TRUE]
    /\ epc' = "add"
    /\ UNCHANGED <<serverVars, threadVars, nativeVars, conns, current, retired, allocated,
                   historyVars>>

\* Bind: AddWebSocketBinding.  A running server, or another active binding of
\* the path, refuses it.
BindAdd ==
    /\ epc = "add"
    /\ IF server # None \/ starting \/ \E e \in bindings \ {current} : active[e]
       THEN epc' = "undo" /\ UNCHANGED bindings
       ELSE epc' = "idle" /\ bindings' = bindings \union {current}
    /\ UNCHANGED <<server, starting, dispatcher, threadVars, nativeVars, active, conns,
                   current, retired, allocated, historyVars>>

\* Bind, refused: Deactivate.
BindUndo ==
    /\ epc = "undo"
    /\ active' = [active EXCEPT ![current] = FALSE]
    /\ epc' = "idle"
    /\ UNCHANGED <<serverVars, threadVars, nativeVars, conns, current, retired, allocated,
                   historyVars>>

\* Unbind of a bound endpoint: CloseAll on a copy of the connections.
UnbindCloseAll ==
    /\ epc = "idle" /\ active[current]
    /\ allocated < MaxStates
    /\ retired' = current
    /\ closeReq' = closeReq \union conns[current]
    /\ epc' = "deactivate"
    /\ UNCHANGED <<serverVars, threadVars, native, handlers, task, session, active, conns,
                   current, allocated, historyVars>>

UnbindDeactivate ==
    /\ epc = "deactivate"
    /\ active' = [active EXCEPT ![retired] = FALSE]
    /\ epc' = "release"
    /\ UNCHANGED <<serverVars, threadVars, nativeVars, conns, current, retired, allocated,
                   historyVars>>

\* ReleaseWebSocketBinding: nothing while the server is running or starting.
\* It is called for the retired state, and for an endpoint that is not bound.
ReleaseWebSocketBinding ==
    /\ \/ epc = "release" /\ epc' = "fresh"
       \/ epc = "idle" /\ ~active[current] /\ UNCHANGED epc
    /\ bindings' = IF server # None \/ starting THEN bindings
                   ELSE ActiveBindings \ {IF epc = "release" THEN retired ELSE current}
    /\ overlap' = (overlap \/ AnyInStop)
    /\ UNCHANGED <<server, starting, dispatcher, threadVars, nativeVars, active, conns,
                   current, retired, allocated, stopFailed>>

\* Unbind: _state = MakeBindingState(_sink).
UnbindFresh ==
    /\ epc = "fresh"
    /\ allocated' = allocated + 1
    /\ current' = allocated + 1
    /\ retired' = None
    /\ epc' = "idle"
    /\ UNCHANGED <<serverVars, threadVars, nativeVars, active, conns, historyVars>>

\* MakeBindingState throws std::bad_alloc out of Unbind: _state is still the
\* retired one.
UnbindThrows ==
    /\ epc = "fresh" /\ AllocMayFail
    /\ retired' = None
    /\ epc' = "idle"
    /\ UNCHANGED <<serverVars, threadVars, nativeVars, active, conns, current, allocated,
                   historyVars>>

-----------------------------------------------------------------------------
ThreadFinishes(t) ==
    \/ StartFailed(t) \/ StartNative(t) \/ Register(t) \/ StartPublish(t)
    \/ StopReturns(t) \/ StopPurge(t) \/ ResetFinal(t)

ThreadStep(t) ==
    \/ Initialize(t) \/ StartLock(t) \/ StopLock(t) \/ ResetSkipsStop(t)
    \/ RegisterFails(t)
    \/ ThreadFinishes(t)

TaskFinishes(n) ==
    \/ EnsureConnection(n) \/ OnHttpSessionClosed(n) \/ EndClose(n)
    \/ NativeDrains(n) \/ NativeEnds(n)
    \/ native[n] = "draining" /\ \E s \in Sockets : BeginClose(n, s)
    \/ \E s \in Sockets : task[n].pc = "failed" /\ BeginClose(n, s)

TaskStep(n) ==
    \/ \E s \in Sockets : Upgrade(n, s) \/ Dispatch(n, s) \/ BeginClose(n, s)
    \/ EnsureConnection(n) \/ EnsureFails(n)
    \/ OnHttpSessionClosed(n) \/ EndClose(n)
    \/ NativeDrains(n) \/ NativeEnds(n) \/ NativeRefusesStop(n)

EndpointStep ==
    \/ BindActivate \/ BindAdd \/ BindUndo
    \/ UnbindCloseAll \/ UnbindDeactivate \/ ReleaseWebSocketBinding
    \/ UnbindFresh \/ UnbindThrows

Next ==
    \/ \E t \in ServerThreads : ThreadStep(t)
    \/ \E n \in Natives : TaskStep(n)
    \/ EndpointStep

Spec == Init /\ [][Next]_vars

\* A thread inside a call of the server goes on, and an HTTPD task finishes what
\* it has begun and gets round to its shutdown request (it polls its control
\* socket on every turn of its loop, so even a busy task reads it).
FairSpec ==
    /\ Spec
    /\ \A t \in ServerThreads : WF_vars(ThreadFinishes(t))
    /\ \A n \in Natives : WF_vars(TaskFinishes(n)) /\ SF_vars(NativeDrains(n))

-----------------------------------------------------------------------------
(* Properties *)

\* Type invariant of the server, its threads, the native tasks and the endpoint;
\* in particular every handle passed to HTTPD is one that httpd_start gave.
TypeOK ==
    /\ server \in Natives \union {None} /\ starting \in BOOLEAN /\ dispatcher \in BOOLEAN
    /\ bindings \in SUBSET States
    /\ tpc \in [ServerThreads -> {"idle", "httpdStart", "register", "failStop", "stopping",
                                  "purge", "resetStopping", "resetPurge", "resetFinal"}]
    /\ thandle \in [ServerThreads -> Natives \union {None}]
    /\ \A t \in ServerThreads :
          tpc[t] \in {"register", "failStop", "stopping", "resetStopping"} => thandle[t] # None
    /\ tsnap \in [ServerThreads -> SUBSET States]
    /\ native \in [Natives -> {"absent", "running", "stopping", "draining", "gone"}]
    /\ handlers \in [Natives -> SUBSET States]
    /\ task \in [Natives -> [pc : {"idle", "ensure", "failed", "closing"},
                             socket : Sockets \union {NoSocket}, todo : SUBSET States]]
    /\ session \in [Sockets -> [native : Natives \union {None},
                                binding : States \union {None}]]
    /\ closeReq \in SUBSET Sockets
    /\ active \in [States -> BOOLEAN] /\ conns \in [States -> SUBSET Sockets]
    /\ current \in States /\ retired \in States \union {None} /\ allocated \in States
    /\ epc \in {"idle", "add", "undo", "deactivate", "release", "fresh"}
    /\ overlap \in BOOLEAN /\ stopFailed \in BOOLEAN

\* Every user_ctx that a live native instance may dispatch to points at a
\* BindingState that still exists (line 660 keeps a raw pointer), provided no
\* call of another thread overlaps a Stop or Reset and no httpd_stop has failed.
UserCtxAlive ==
    ~overlap /\ ~stopFailed =>
        \A n \in Natives : Live(n) => \A b \in handlers[n] : Alive(b)

\* A connection object never outlives the session of its socket, so a reused
\* descriptor never finds the connection of an earlier client (lines 749-768 of
\* the endpoint, 778-790 of the server), under the same provisos.
ConnectionsHaveSessions ==
    ~overlap /\ ~stopFailed =>
        \A b \in States : Alive(b) =>
            \A s \in conns[b] : session[s].binding = b /\ Live(session[s].native)

\* A published server has a dispatcher for its requests (lines 598, 723, 801),
\* unless a Reset overlapped its Start.
RunningHasDispatcher == server # None /\ ~overlap => dispatcher

\* There is at most one native instance at a time (lines 595, 694-697), under
\* the same provisos.
OneNative ==
    ~overlap /\ ~stopFailed =>
        \A m, n \in Natives : Live(m) /\ Live(n) => m = n

\* A BindingState that a live native instance holds as user_ctx, once
\* deactivated, is never activated again: "A later Bind uses a fresh state and
\* therefore cannot transiently re-enable a stale route" (endpoint, lines
\* 973-975).
NoReactivation ==
    [][ \A n \in Natives : Live(n) =>
            \A b \in handlers[n] : ~active[b] => ~active'[b] ]_vars

\* Every call of Start, Stop or Reset returns: no thread waits forever for a
\* native task, whatever sessions are open when it is told to stop.
CallsReturn ==
    \A t \in ServerThreads : tpc[t] # "idle" ~> tpc[t] = "idle"
=============================================================================
