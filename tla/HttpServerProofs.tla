-------------------------- MODULE HttpServerProofs --------------------------
(***************************************************************************)
(* Proofs about HttpServer for any set of threads and sockets and any      *)
(* number of native instances and binding states.                          *)
(*                                                                         *)
(* The invariants of HttpServer say what may be live together; none is     *)
(* inductive.  What they rest on is who owns a native instance: it belongs *)
(* to the published server, to the one Start in progress or to the one     *)
(* Stop in progress (HandleInv, OwnerInv), and at most one of the three    *)
(* exists as long as no call overlaps a Stop (StartInv, StopInv).  The     *)
(* owner keeps _webSocketBindings from losing a user_ctx (CtxInv), which   *)
(* is why HandleSessionClosed reaches the connection of every session that *)
(* closes (ClosingInv).                                                    *)
(***************************************************************************)
EXTENDS HttpServer, TLAPS

\* The proviso of the properties: no call has overlapped a Stop or Reset of
\* another thread, and no httpd_stop has failed.
Orderly == ~overlap /\ ~stopFailed

Starting(t) == tpc[t] \in {"httpdStart", "register", "failStop"}
HasHandle(t) == tpc[t] \in {"register", "failStop", "stopping", "resetStopping"}
InHttpdStop(t) == tpc[t] \in {"failStop", "stopping", "resetStopping"}

\* Binding states are numbered as they are allocated; what has not been
\* allocated is nowhere.  Unbind works on the current state.
AllocInv ==
    /\ current <= allocated
    /\ \A b \in bindings : b <= allocated
    /\ \A t \in ServerThreads : \A b \in tsnap[t] : b <= allocated
    /\ \A n \in Natives : \A b \in handlers[n] : b <= allocated
    /\ \A b \in States : b > allocated => conns[b] = {}
    /\ retired \in {None, current}
    /\ epc \in {"deactivate", "release", "fresh"} => retired = current /\ allocated < MaxStates

\* A task works for an open session of its own; a session belongs to a live
\* native instance and to a binding registered there.
TaskInv ==
    /\ \A n \in Natives : task[n].pc # "idle" =>
          task[n].socket \in Sockets /\ session[task[n].socket].native = n
    /\ \A s \in Sockets : session[s].native # None =>
          /\ Live(session[s].native)
          /\ session[s].binding \in handlers[session[s].native]
    /\ \A s \in Sockets : session[s].native = None => session[s].binding = None
    /\ \A n \in Natives : native[n] = "absent" => handlers[n] = {}

\* A native handle is published or local to one call, never both.
HandleInv ==
    /\ \A t \in ServerThreads : thandle[t] # None <=> HasHandle(t)
    /\ \A t \in ServerThreads : thandle[t] # None => thandle[t] # server
    /\ \A t, u \in ServerThreads : thandle[t] # None /\ thandle[t] = thandle[u] => t = u
    /\ server # None => native[server] = "running"
    /\ \A t \in ServerThreads : tpc[t] = "register" => native[thandle[t]] = "running"
    /\ \A t \in ServerThreads : InHttpdStop(t) => native[thandle[t]] # "absent"

\* _starting stands for the one Start in progress; nothing is published then.
StartInv ==
    /\ starting <=> \E t \in ServerThreads : Starting(t)
    /\ \A t, u \in ServerThreads : Starting(t) /\ Starting(u) => t = u
    /\ starting => server = None

\* As long as no call overlaps, nothing is published during a Stop or Reset,
\* nothing is started during the Stop part, and one Stop is in progress.
StopInv ==
    ~overlap =>
        /\ \A t \in ServerThreads : InStop(t) => server = None
        /\ \A t \in ServerThreads : InStop(t) /\ tpc[t] # "resetFinal" => ~starting
        /\ \A t, u \in ServerThreads :
              /\ tpc[t] \in {"stopping", "resetStopping"}
              /\ tpc[u] \in {"stopping", "resetStopping"}
              => t = u

\* The dispatcher stays from the first critical section of Start on.
DispatcherInv == ~overlap /\ (starting \/ server # None) => dispatcher

\* A live native instance is the published one or belongs to a call.
OwnerInv ==
    Orderly =>
        /\ \A t \in ServerThreads : InHttpdStop(t) => native[thandle[t]] # "running"
        /\ \A n \in Natives : Live(n) =>
              server = n \/ \E t \in ServerThreads : thandle[t] = n

\* What may be a user_ctx is in _webSocketBindings.
CtxInv ==
    Orderly =>
        /\ \A t \in ServerThreads : Starting(t) => tsnap[t] \subseteq bindings
        /\ \A n \in Natives : Live(n) => handlers[n] \subseteq bindings

\* A connection object of a closing session is one HandleSessionClosed has yet
\* to tell.
ClosingInv ==
    Orderly =>
        \A n \in Natives : task[n].pc = "closing" =>
            \A b \in States : Alive(b) /\ task[n].socket \in conns[b] => b \in task[n].todo

\* A state that Bind may activate is registered nowhere, unless an Unbind ran
\* out of memory.
FreshInv ==
    ~AllocMayFail =>
        /\ epc = "add" => active[current]
        /\ \/ epc \in {"add", "undo"}
           \/ epc = "idle" /\ ~active[current]
           => /\ current \notin bindings
              /\ \A t \in ServerThreads : current \notin tsnap[t]
              /\ \A n \in Natives : current \notin handlers[n]

Inv ==
    /\ TypeOK /\ AllocInv /\ TaskInv /\ HandleInv /\ StartInv /\ StopInv /\ DispatcherInv
    /\ OwnerInv /\ CtxInv /\ ConnectionsHaveSessions /\ ClosingInv /\ FreshInv

-----------------------------------------------------------------------------
(* Types *)

\* The initial state satisfies the whole invariant.
LEMMA InitInv == Init => Inv
  <1> SUFFICES ASSUME Init PROVE Inv
    OBVIOUS
  <1> USE BoundsAssumption
  <1>1. 1 \in States
    BY DEF States
  <1>2. TypeOK
    BY <1>1 DEF Init, TypeOK, Idle, NoSession, Natives, None
  <1>3. /\ \A n \in Natives : ~Live(n) /\ task[n].pc = "idle"
        /\ \A t \in ServerThreads : ~Starting(t) /\ ~HasHandle(t) /\ ~InHttpdStop(t)
        /\ \A t \in ServerThreads : ~InStop(t) /\ thandle[t] = None
        /\ \A s \in Sockets : session[s].native = None
    BY DEF Init, Live, Idle, NoSession, Starting, HasHandle, InHttpdStop, InStop
  <1>4. AllocInv /\ TaskInv
    BY <1>3 DEF Init, AllocInv, TaskInv, NoSession, None
  <1>5. HandleInv /\ StartInv /\ StopInv /\ DispatcherInv /\ OwnerInv
    BY <1>3 DEF Init, HandleInv, StartInv, StopInv, DispatcherInv, OwnerInv
  <1>6. CtxInv /\ ConnectionsHaveSessions /\ ClosingInv /\ FreshInv
    BY <1>3 DEF Init, CtxInv, ConnectionsHaveSessions, ClosingInv, FreshInv
  <1>7. QED
    BY <1>2, <1>4, <1>5, <1>6 DEF Inv

\* A call of the server keeps the types.
LEMMA TypeThread ==
    ASSUME TypeOK, NEW t \in ServerThreads, ThreadStep(t)
    PROVE  TypeOK'
  <1> USE DEF TypeOK, SetPc, Overlapping, OtherInStop, serverVars, threadVars, nativeVars,
              endpointVars, historyVars
  <1>0. ActiveBindings \in SUBSET States
    BY DEF ActiveBindings
  <1>1. CASE Initialize(t)
    BY <1>1 DEF Initialize
  <1>2. CASE StartLock(t)
    BY <1>0, <1>2 DEF StartLock
  <1>3. CASE StopLock(t)
    BY <1>3 DEF StopLock
  <1>4. CASE ResetSkipsStop(t)
    BY <1>4 DEF ResetSkipsStop
  <1>5. CASE RegisterFails(t)
    BY <1>5 DEF RegisterFails
  <1>6. CASE StartFailed(t)
    BY <1>6 DEF StartFailed
  <1>7. CASE StartNative(t)
    BY <1>7 DEF StartNative, Natives, None
  <1>8. CASE Register(t)
    BY <1>8 DEF Register
  <1>9. CASE StartPublish(t)
    BY <1>9 DEF StartPublish
  <1>10. CASE StopReturns(t)
    BY <1>10 DEF StopReturns
  <1>11. CASE StopPurge(t)
    BY <1>0, <1>11 DEF StopPurge
  <1>12. CASE ResetFinal(t)
    BY <1>0, <1>12 DEF ResetFinal
  <1>13. QED
    BY <1>1, <1>2, <1>3, <1>4, <1>5, <1>6, <1>7, <1>8, <1>9, <1>10, <1>11, <1>12
       DEF ThreadStep, ThreadFinishes

\* A native task keeps the types.
LEMMA TypeTask ==
    ASSUME TypeOK, TaskInv, NEW n \in Natives, TaskStep(n)
    PROVE  TypeOK'
  <1> USE DEF TypeOK, serverVars, threadVars, nativeVars, endpointVars, historyVars
  <1>0. Idle \in [pc : {"idle", "ensure", "failed", "closing"},
                  socket : Sockets \union {NoSocket}, todo : SUBSET States]
    BY DEF Idle
  <1>1. ASSUME NEW s \in Sockets, Upgrade(n, s) PROVE TypeOK'
    BY <1>1 DEF Upgrade
  <1>2. ASSUME NEW s \in Sockets, Dispatch(n, s) PROVE TypeOK'
    BY <1>2 DEF Dispatch
  <1>3. ASSUME NEW s \in Sockets, BeginClose(n, s) PROVE TypeOK'
    BY <1>3 DEF BeginClose
  <1>4. CASE EnsureConnection(n)
    <2>1. task[n].socket \in Sockets
      BY <1>4 DEF EnsureConnection, TaskInv
    <2>2. QED
      BY <1>0, <1>4, <2>1 DEF EnsureConnection
  <1>5. CASE EnsureFails(n)
    BY <1>5 DEF EnsureFails
  <1>6. CASE OnHttpSessionClosed(n)
    BY <1>6 DEF OnHttpSessionClosed
  <1>7. CASE EndClose(n)
    BY <1>0, <1>7 DEF EndClose, NoSession
  <1>8. CASE NativeDrains(n)
    BY <1>8 DEF NativeDrains
  <1>9. CASE NativeEnds(n)
    BY <1>9 DEF NativeEnds
  <1>10. CASE NativeRefusesStop(n)
    BY <1>10 DEF NativeRefusesStop
  <1>11. QED
    BY <1>1, <1>2, <1>3, <1>4, <1>5, <1>6, <1>7, <1>8, <1>9, <1>10 DEF TaskStep

\* Bind and Unbind keep the types.
LEMMA TypeEndpoint == TypeOK /\ AllocInv /\ EndpointStep => TypeOK'
  <1> SUFFICES ASSUME TypeOK, AllocInv, EndpointStep PROVE TypeOK'
    OBVIOUS
  <1> USE BoundsAssumption
      DEF TypeOK, AnyInStop, serverVars, threadVars, nativeVars, endpointVars, historyVars
  <1>1. CASE BindActivate
    BY <1>1 DEF BindActivate
  <1>2. CASE BindAdd
    BY <1>2 DEF BindAdd
  <1>3. CASE BindUndo
    BY <1>3 DEF BindUndo
  <1>4. CASE UnbindCloseAll
    BY <1>4 DEF UnbindCloseAll
  <1>5. CASE UnbindDeactivate
    BY <1>5 DEF UnbindDeactivate
  <1>6. CASE ReleaseWebSocketBinding
    BY <1>6 DEF ReleaseWebSocketBinding, ActiveBindings
  <1>7. CASE UnbindFresh
    <2>1. allocated + 1 \in States
      BY <1>7 DEF UnbindFresh, AllocInv, States
    <2>2. QED
      BY <1>7, <2>1 DEF UnbindFresh
  <1>8. CASE UnbindThrows
    BY <1>8 DEF UnbindThrows
  <1>9. QED
    BY <1>1, <1>2, <1>3, <1>4, <1>5, <1>6, <1>7, <1>8 DEF EndpointStep

-----------------------------------------------------------------------------
(* What the steps leave alone *)

\* A call of the server does not touch a task, a session or the endpoint.
LEMMA ThreadFrame ==
    ASSUME TypeOK, NEW t \in ServerThreads, ThreadStep(t)
    PROVE  /\ UNCHANGED <<task, session, closeReq, endpointVars, stopFailed>>
           /\ overlap => overlap'
  <1>1. UNCHANGED <<task, session, closeReq, endpointVars, stopFailed>>
    BY DEF ThreadStep, ThreadFinishes, Initialize, StartLock, StopLock, ResetSkipsStop,
           RegisterFails, StartFailed, StartNative, Register, StartPublish, StopReturns,
           StopPurge, ResetFinal, nativeVars, historyVars
  <1>2. Overlapping(t) \/ UNCHANGED overlap
    BY DEF ThreadStep, ThreadFinishes, Initialize, StartLock, StopLock, ResetSkipsStop,
           RegisterFails, StartFailed, StartNative, Register, StartPublish, StopReturns,
           StopPurge, ResetFinal, historyVars
  <1>3. QED
    BY <1>1, <1>2 DEF Overlapping, TypeOK

\* A native task does not touch the server, its threads or the binding states.
LEMMA TaskFrame ==
    ASSUME NEW n \in Natives, TaskStep(n)
    PROVE  /\ UNCHANGED <<serverVars, threadVars, handlers, active, current, retired, epc,
                          allocated, overlap>>
           /\ stopFailed => stopFailed'
  BY DEF TaskStep, Upgrade, Dispatch, BeginClose, EnsureConnection, EnsureFails,
         OnHttpSessionClosed, EndClose, NativeDrains, NativeEnds, NativeRefusesStop,
         endpointVars, historyVars

\* The endpoint changes nothing of the server but the list of bindings.
LEMMA EndpointFrame ==
    ASSUME TypeOK, EndpointStep
    PROVE  /\ UNCHANGED <<server, starting, dispatcher, threadVars, native, handlers, task,
                          session, conns, stopFailed>>
           /\ overlap => overlap'
  <1>1. UNCHANGED <<server, starting, dispatcher, threadVars, native, handlers, task,
                    session, conns, stopFailed>>
    BY DEF EndpointStep, BindActivate, BindAdd, BindUndo, UnbindCloseAll, UnbindDeactivate,
           ReleaseWebSocketBinding, UnbindFresh, UnbindThrows, serverVars, nativeVars,
           endpointVars, historyVars
  <1>2. overlap' = (overlap \/ AnyInStop) \/ UNCHANGED overlap
    BY DEF EndpointStep, BindActivate, BindAdd, BindUndo, UnbindCloseAll, UnbindDeactivate,
           ReleaseWebSocketBinding, UnbindFresh, UnbindThrows, historyVars
  <1>3. QED
    BY <1>1, <1>2 DEF TypeOK

\* What a native task does to the state of the native instances: a running one
\* runs on, none appears, and one told to stop runs on only if httpd_stop fails.
LEMMA TaskNative ==
    ASSUME TypeOK, NEW n \in Natives, TaskStep(n), NEW m \in Natives
    PROVE  /\ native[m] = "running" => native'[m] = "running"
           /\ native[m] # "absent" <=> native'[m] # "absent"
           /\ Live(m)' => Live(m)
           /\ ~stopFailed' /\ native'[m] = "running" => native[m] = "running"
           /\ Live(m) /\ ~Live(m)' => m = n /\ NativeEnds(n)
  <1> USE DEF TypeOK, Live
  <1>1. CASE NativeDrains(n)
    BY <1>1 DEF NativeDrains
  <1>2. CASE NativeEnds(n)
    BY <1>2 DEF NativeEnds
  <1>3. CASE NativeRefusesStop(n)
    BY <1>3 DEF NativeRefusesStop
  <1>4. CASE UNCHANGED native
    BY <1>4
  <1>5. QED
    BY <1>1, <1>2, <1>3, <1>4 DEF TaskStep, Upgrade, Dispatch, BeginClose,
         EnsureConnection, EnsureFails, OnHttpSessionClosed, EndClose

-----------------------------------------------------------------------------
(* Who owns a native handle *)

\* A call of the server keeps every handle in one place.
LEMMA HandleThread ==
    ASSUME TypeOK, HandleInv, StartInv, NEW t \in ServerThreads, ThreadStep(t)
    PROVE  HandleInv'
  <1> USE DEF TypeOK, HandleInv, HasHandle, InHttpdStop, SetPc, serverVars, threadVars,
              nativeVars
  <1>1. CASE Initialize(t)
    BY <1>1 DEF Initialize
  <1>2. CASE StartLock(t)
    BY <1>2 DEF StartLock
  <1>3. CASE StopLock(t)
    BY <1>3 DEF StopLock, Natives, None
  <1>4. CASE ResetSkipsStop(t)
    BY <1>4 DEF ResetSkipsStop
  <1>5. CASE RegisterFails(t)
    BY <1>5 DEF RegisterFails
  <1>6. CASE StartFailed(t)
    BY <1>6 DEF StartFailed
  <1>7. CASE StartNative(t)
    BY <1>7 DEF StartNative, Natives, None
  <1>8. CASE Register(t)
    BY <1>8 DEF Register
  <1>9. CASE StartPublish(t)
    BY <1>9 DEF StartPublish
  <1>10. CASE StopReturns(t)
    BY <1>10 DEF StopReturns
  <1>11. CASE StopPurge(t)
    BY <1>11 DEF StopPurge
  <1>12. CASE ResetFinal(t)
    BY <1>12 DEF ResetFinal
  <1>13. QED
    BY <1>1, <1>2, <1>3, <1>4, <1>5, <1>6, <1>7, <1>8, <1>9, <1>10, <1>11, <1>12
       DEF ThreadStep, ThreadFinishes

\* Whatever a native task does, the published instance and one that is being
\* registered run on.
LEMMA HandleTask ==
    ASSUME TypeOK, HandleInv, NEW n \in Natives, TaskStep(n)
    PROVE  HandleInv'
  <1>1. UNCHANGED <<server, tpc, thandle>>
    BY TaskFrame DEF serverVars, threadVars
  <1>2. \A m \in Natives :
          /\ native[m] = "running" => native'[m] = "running"
          /\ native[m] # "absent" => native'[m] # "absent"
    BY TaskNative
  <1>3. server # None => server \in Natives
    BY DEF TypeOK
  <1>4. \A t \in ServerThreads : HasHandle(t) => thandle[t] \in Natives
    BY DEF TypeOK, HasHandle
  <1>5. QED
    BY <1>1, <1>2, <1>3, <1>4 DEF HandleInv, HasHandle, InHttpdStop

-----------------------------------------------------------------------------
(* One Start and one Stop at a time *)

\* A call of the server keeps _starting in step with the Start in progress.
LEMMA StartThread ==
    ASSUME TypeOK, HandleInv, StartInv, NEW t \in ServerThreads, ThreadStep(t)
    PROVE  StartInv'
  <1> USE DEF TypeOK, StartInv, Starting, SetPc, serverVars, threadVars
  <1>1. CASE Initialize(t)
    BY <1>1 DEF Initialize
  <1>2. CASE StartLock(t)
    BY <1>2 DEF StartLock
  <1>3. CASE StopLock(t)
    BY <1>3 DEF StopLock
  <1>4. CASE ResetSkipsStop(t)
    BY <1>4 DEF ResetSkipsStop
  <1>5. CASE RegisterFails(t)
    BY <1>5 DEF RegisterFails
  <1>6. CASE StartFailed(t)
    BY <1>6 DEF StartFailed
  <1>7. CASE StartNative(t)
    BY <1>7 DEF StartNative
  <1>8. CASE Register(t)
    BY <1>8 DEF Register
  <1>9. CASE StartPublish(t)
    BY <1>9 DEF StartPublish
  <1>10. CASE StopReturns(t)
    BY <1>10 DEF StopReturns
  <1>11. CASE StopPurge(t)
    BY <1>11 DEF StopPurge
  <1>12. CASE ResetFinal(t)
    BY <1>12 DEF ResetFinal
  <1>13. QED
    BY <1>1, <1>2, <1>3, <1>4, <1>5, <1>6, <1>7, <1>8, <1>9, <1>10, <1>11, <1>12
       DEF ThreadStep, ThreadFinishes

\* A step of a call that changes the server during a Stop or Reset of another
\* thread is an overlap.
LEMMA StopThread ==
    ASSUME TypeOK, StartInv, StopInv, NEW t \in ServerThreads, ThreadStep(t)
    PROVE  StopInv'
  <1> USE DEF TypeOK, StopInv, SetPc, Overlapping, OtherInStop, InStop, serverVars,
              threadVars, historyVars
  <1>1. CASE Initialize(t)
    BY <1>1 DEF Initialize
  <1>2. CASE StartLock(t)
    BY <1>2 DEF StartLock
  <1>3. CASE StopLock(t)
    BY <1>3 DEF StopLock
  <1>4. CASE ResetSkipsStop(t)
    BY <1>4 DEF ResetSkipsStop, StartInv
  <1>5. CASE RegisterFails(t)
    BY <1>5 DEF RegisterFails
  <1>6. CASE StartFailed(t)
    BY <1>6 DEF StartFailed
  <1>7. CASE StartNative(t)
    BY <1>7 DEF StartNative
  <1>8. CASE Register(t)
    BY <1>8 DEF Register
  <1>9. CASE StartPublish(t)
    BY <1>9 DEF StartPublish
  <1>10. CASE StopReturns(t)
    BY <1>10 DEF StopReturns
  <1>11. CASE StopPurge(t)
    BY <1>11 DEF StopPurge
  <1>12. CASE ResetFinal(t)
    BY <1>12 DEF ResetFinal
  <1>13. QED
    BY <1>1, <1>2, <1>3, <1>4, <1>5, <1>6, <1>7, <1>8, <1>9, <1>10, <1>11, <1>12
       DEF ThreadStep, ThreadFinishes

\* Only a Reset forgets the dispatcher, and not while a Start is in progress.
LEMMA DispatcherThread ==
    ASSUME TypeOK, HandleInv, StartInv, StopInv, DispatcherInv,
           NEW t \in ServerThreads, ThreadStep(t)
    PROVE  DispatcherInv'
  <1>0. overlap => overlap'
    BY ThreadFrame
  <1> USE DEF DispatcherInv, serverVars, historyVars
  <1>1. CASE ResetFinal(t)
    <2>1. ~overlap => server = None
      BY <1>1 DEF ResetFinal, StopInv, InStop
    <2>2. QED
      BY <1>0, <1>1, <2>1 DEF ResetFinal
  <1>2. CASE StartPublish(t)
    <2>1. starting
      BY <1>2 DEF StartPublish, StartInv, Starting
    <2>2. QED
      BY <1>0, <1>2, <2>1 DEF StartPublish
  <1>3. CASE Initialize(t) \/ StartLock(t)
    BY <1>0, <1>3 DEF Initialize, StartLock
  <1>4. CASE StopLock(t) \/ StartFailed(t)
    BY <1>0, <1>4 DEF StopLock, StartFailed
  <1>5. CASE \/ ResetSkipsStop(t) \/ RegisterFails(t) \/ StartNative(t) \/ Register(t)
             \/ StopReturns(t) \/ StopPurge(t)
    BY <1>0, <1>5 DEF ResetSkipsStop, RegisterFails, StartNative, Register, StopReturns,
                      StopPurge
  <1>6. QED
    BY <1>1, <1>2, <1>3, <1>4, <1>5 DEF ThreadStep, ThreadFinishes

-----------------------------------------------------------------------------
(* Where a binding state may be *)

\* A call of the server only hands on what it finds: from the list to its copy,
\* and from its copy to the URI handlers.
LEMMA ListThread ==
    ASSUME TypeOK, NEW t \in ServerThreads, ThreadStep(t)
    PROVE  /\ bindings' \subseteq bindings
           /\ \A u \in ServerThreads : tsnap'[u] \subseteq tsnap[u] \union bindings
           /\ \A n \in Natives : \A b \in handlers'[n] :
                 b \in handlers[n] \/ \E u \in ServerThreads : b \in tsnap[u]
           /\ \A n \in Natives : handlers[n] \subseteq handlers'[n]
  <1> USE DEF TypeOK, ActiveBindings, serverVars, threadVars, nativeVars
  <1>1. CASE Register(t)
    BY <1>1 DEF Register
  <1>2. CASE StartLock(t)
    BY <1>2 DEF StartLock
  <1>3. CASE StartFailed(t)
    BY <1>3 DEF StartFailed
  <1>4. CASE StartPublish(t)
    BY <1>4 DEF StartPublish
  <1>5. CASE StopPurge(t)
    BY <1>5 DEF StopPurge
  <1>6. CASE ResetFinal(t)
    BY <1>6 DEF ResetFinal
  <1>7. CASE \/ Initialize(t) \/ StopLock(t) \/ ResetSkipsStop(t) \/ RegisterFails(t)
             \/ StartNative(t) \/ StopReturns(t)
    BY <1>7 DEF Initialize, StopLock, ResetSkipsStop, RegisterFails, StartNative,
                StopReturns
  <1>8. QED
    BY <1>1, <1>2, <1>3, <1>4, <1>5, <1>6, <1>7 DEF ThreadStep, ThreadFinishes

\* The endpoint adds nothing to the list but its current state, and moves on to
\* no state but a fresh one.
LEMMA ListEndpoint ==
    ASSUME TypeOK, EndpointStep
    PROVE  /\ bindings' \subseteq bindings \union {current}
           /\ \A b \in bindings' : b \in bindings \/ epc = "add"
           /\ \/ current' = current
              \/ epc = "fresh" /\ current' = allocated + 1
           /\ retired' \in {retired, current, None}
  <1> USE DEF TypeOK, ActiveBindings, serverVars, endpointVars
  <1>1. CASE BindAdd
    BY <1>1 DEF BindAdd
  <1>2. CASE ReleaseWebSocketBinding
    BY <1>2 DEF ReleaseWebSocketBinding
  <1>3. CASE BindActivate \/ BindUndo \/ UnbindCloseAll \/ UnbindDeactivate
    BY <1>3 DEF BindActivate, BindUndo, UnbindCloseAll, UnbindDeactivate
  <1>4. CASE UnbindFresh \/ UnbindThrows
    BY <1>4 DEF UnbindFresh, UnbindThrows
  <1>5. QED
    BY <1>1, <1>2, <1>3, <1>4 DEF EndpointStep

\* A call of the server uses no state that has not been allocated.
LEMMA AllocThread ==
    ASSUME TypeOK, AllocInv, NEW t \in ServerThreads, ThreadStep(t)
    PROVE  AllocInv'
  <1>1. UNCHANGED endpointVars
    BY ThreadFrame
  <1>2. QED
    BY <1>1, ListThread DEF AllocInv, endpointVars

\* A connection is made for the binding of a session, which is registered.
LEMMA AllocTask ==
    ASSUME TypeOK, AllocInv, TaskInv, NEW n \in Natives, TaskStep(n)
    PROVE  AllocInv'
  <1>1. UNCHANGED <<bindings, tsnap, handlers, current, retired, epc, allocated>>
    BY TaskFrame DEF serverVars, threadVars
  <1>2. \A b \in States : b > allocated => conns'[b] = {}
    <2>1. CASE EnsureConnection(n)
      <3> DEFINE s == task[n].socket
      <3>1. s \in Sockets /\ session[s].native = n /\ n # None
        BY <2>1 DEF EnsureConnection, TaskInv, Natives, None
      <3>2. session[s].binding <= allocated
        BY <3>1 DEF TaskInv, AllocInv
      <3>3. \A b \in States : b # session[s].binding => conns'[b] = conns[b]
        BY <2>1 DEF EnsureConnection, TypeOK
      <3>4. allocated \in Nat /\ \A b \in States : b \in Nat
        BY DEF TypeOK, States
      <3>5. QED
        BY <3>1, <3>2, <3>3, <3>4 DEF AllocInv, TypeOK, States
    <2>2. CASE OnHttpSessionClosed(n)
      BY <2>2 DEF OnHttpSessionClosed, TypeOK, AllocInv
    <2>3. CASE UNCHANGED conns
      BY <2>3 DEF AllocInv
    <2>4. QED
      BY <2>1, <2>2, <2>3 DEF TaskStep, Upgrade, Dispatch, BeginClose, EnsureFails,
           EndClose, NativeDrains, NativeEnds, NativeRefusesStop, endpointVars
  <1>3. QED
    BY <1>1, <1>2 DEF AllocInv

\* The endpoint numbers its states in order and works on the current one.
LEMMA AllocEndpoint ==
    ASSUME TypeOK, AllocInv, EndpointStep
    PROVE  AllocInv'
  <1> USE DEF TypeOK, AllocInv, endpointVars
  <1>1. UNCHANGED <<tsnap, handlers, conns>>
    BY EndpointFrame DEF threadVars
  <1>2. allocated \in Nat /\ current \in Nat /\ \A b \in States : b \in Nat
    BY DEF States
  <1>3. CASE UnbindFresh
    BY <1>1, <1>2, <1>3 DEF UnbindFresh, serverVars, States
  <1>4. CASE ~UnbindFresh
    <2>1. UNCHANGED <<current, allocated>>
      BY <1>4 DEF EndpointStep, BindActivate, BindAdd, BindUndo, UnbindCloseAll,
           UnbindDeactivate, ReleaseWebSocketBinding, UnbindThrows
    <2>2. \A b \in bindings' : b <= allocated
      BY ListEndpoint
    <2>3. /\ retired' \in {None, current}
          /\ epc' \in {"deactivate", "release", "fresh"}
                => retired' = current /\ allocated < MaxStates
      BY <1>4 DEF EndpointStep, BindActivate, BindAdd, BindUndo, UnbindCloseAll,
           UnbindDeactivate, ReleaseWebSocketBinding, UnbindThrows
    <2>4. QED
      BY <1>1, <2>1, <2>2, <2>3
  <1>5. QED
    BY <1>3, <1>4

-----------------------------------------------------------------------------
(* Tasks and sessions *)

\* A call of the server keeps every live native instance live, and registers a
\* handler only with an instance that has been started.
LEMMA ThreadNative ==
    ASSUME TypeOK, HandleInv, NEW t \in ServerThreads, ThreadStep(t), NEW n \in Natives
    PROVE  /\ Live(n) => Live(n)'
           /\ native'[n] = "absent" => native[n] = "absent" /\ handlers'[n] = handlers[n]
  <1> USE DEF TypeOK, HandleInv, Live, nativeVars
  <1>1. CASE Register(t)
    BY <1>1 DEF Register
  <1>2. CASE StopLock(t)
    BY <1>2 DEF StopLock
  <1>3. CASE RegisterFails(t)
    BY <1>3 DEF RegisterFails
  <1>4. CASE StartNative(t)
    BY <1>4 DEF StartNative
  <1>5. CASE UNCHANGED <<native, handlers>>
    BY <1>5
  <1>6. QED
    BY <1>1, <1>2, <1>3, <1>4, <1>5
       DEF ThreadStep, ThreadFinishes, Initialize, StartLock, ResetSkipsStop, StartFailed,
           StartPublish, StopReturns, StopPurge, ResetFinal

\* So the sessions and the tasks keep their native instance.
LEMMA TaskThread ==
    ASSUME TypeOK, HandleInv, TaskInv, NEW t \in ServerThreads, ThreadStep(t)
    PROVE  TaskInv'
  <1>1. UNCHANGED <<task, session>>
    BY ThreadFrame
  <1>2. \A s \in Sockets : session[s].native # None => session[s].native \in Natives
    BY DEF TypeOK
  <1>3. \A n \in Natives : handlers[n] \subseteq handlers'[n]
    BY ListThread
  <1>4. \A n \in Natives :
           /\ Live(n) => Live(n)'
           /\ native'[n] = "absent" => native[n] = "absent" /\ handlers'[n] = handlers[n]
    BY ThreadNative
  <1>5. \A s \in Sockets : session[s].native # None =>
          /\ Live(session[s].native)' /\ session[s].binding \in handlers'[session[s].native]
    BY <1>1, <1>2, <1>3, <1>4 DEF TaskInv, Live
  <1>6. QED
    BY <1>1, <1>4, <1>5 DEF TaskInv, Live

\* A task opens and closes sessions of its own, and ends when none is left.
LEMMA TaskTask ==
    ASSUME TypeOK, TaskInv, NEW n \in Natives, TaskStep(n)
    PROVE  TaskInv'
  <1>0. n # None /\ UNCHANGED handlers
    BY TaskFrame DEF Natives, None
  <1>00. \A s \in Sockets : session[s].native # None => session[s].native \in Natives
    BY DEF TypeOK
  <1> USE DEF TypeOK, TaskInv, Live
  <1>1. ASSUME NEW s \in Sockets, Upgrade(n, s) PROVE TaskInv'
    <2>1. PICK b \in handlers[n] :
             session' = [session EXCEPT ![s] = [native |-> n, binding |-> b]]
      BY <1>1 DEF Upgrade
    <2>2. session[s].native = None /\ UNCHANGED <<native, task>> /\ Live(n)
      BY <1>1 DEF Upgrade, NoSession
    <2>3. session'[s].native = n /\ session'[s].binding = b
      BY <2>1
    <2>4. \A r \in Sockets : r # s => session'[r] = session[r]
      BY <2>1
    <2>5. ASSUME NEW m \in Natives, task[m].pc # "idle"
          PROVE  task[m].socket \in Sockets /\ session'[task[m].socket].native = m
      <3>1. task[m].socket \in Sockets /\ session[task[m].socket].native = m
        BY <2>5
      <3>2. m # None
        BY DEF Natives, None
      <3>3. QED
        BY <2>2, <2>4, <3>1, <3>2
    <2>6. \A r \in Sockets : session'[r].native # None =>
             /\ native'[session'[r].native] \in {"running", "stopping", "draining"}
             /\ session'[r].binding \in handlers'[session'[r].native]
      BY <1>0, <2>2, <2>3, <2>4
    <2>7. \A r \in Sockets : session'[r].native = None => session'[r].binding = None
      BY <1>0, <2>3, <2>4
    <2>8. QED
      BY <1>0, <2>2, <2>5, <2>6, <2>7
  <1>2. ASSUME NEW s \in Sockets, Dispatch(n, s) PROVE TaskInv'
    BY <1>0, <1>2 DEF Dispatch
  <1>3. ASSUME NEW s \in Sockets, BeginClose(n, s) PROVE TaskInv'
    BY <1>0, <1>3 DEF BeginClose
  <1>4. CASE EnsureConnection(n)
    BY <1>0, <1>4 DEF EnsureConnection, Idle
  <1>5. CASE EnsureFails(n)
    BY <1>0, <1>5 DEF EnsureFails
  <1>6. CASE OnHttpSessionClosed(n)
    BY <1>0, <1>6 DEF OnHttpSessionClosed
  <1>7. CASE EndClose(n)
    BY <1>0, <1>7 DEF EndClose, Idle, NoSession
  <1>8. CASE NativeDrains(n)
    BY <1>0, <1>00, <1>8 DEF NativeDrains
  <1>9. CASE NativeEnds(n)
    BY <1>0, <1>00, <1>9 DEF NativeEnds
  <1>10. CASE NativeRefusesStop(n)
    BY <1>0, <1>00, <1>10 DEF NativeRefusesStop
  <1>11. QED
    BY <1>1, <1>2, <1>3, <1>4, <1>5, <1>6, <1>7, <1>8, <1>9, <1>10 DEF TaskStep

-----------------------------------------------------------------------------
(* Who owns a live native instance, and what keeps its user_ctx alive *)

\* A call of the server hands a live native instance on: from the Start to the
\* published server and from there to the Stop.
LEMMA OwnerThread ==
    ASSUME TypeOK, HandleInv, StartInv, OwnerInv, NEW t \in ServerThreads, ThreadStep(t)
    PROVE  OwnerInv'
  <1>0. Orderly' => Orderly
    BY ThreadFrame DEF Orderly
  <1> SUFFICES ASSUME Orderly, Orderly' PROVE OwnerInv'
    BY <1>0 DEF OwnerInv
  <1> USE DEF TypeOK, HandleInv, OwnerInv, HasHandle, InHttpdStop, Live, SetPc, serverVars,
              threadVars, nativeVars
  <1>1. CASE Initialize(t)
    BY <1>1 DEF Initialize
  <1>2. CASE StartLock(t)
    BY <1>2 DEF StartLock
  <1>3. CASE StopLock(t)
    <2>1. server \in Natives
      BY <1>3 DEF StopLock
    <2>2. \A n \in Natives : Live(n)' =>
             server' = n \/ \E u \in ServerThreads : thandle'[u] = n
      BY <1>3, <2>1 DEF StopLock
    <2>3. \A u \in ServerThreads : InHttpdStop(u)' => native'[thandle'[u]] # "running"
      BY <1>3, <2>1 DEF StopLock
    <2>4. QED
      BY <2>2, <2>3
  <1>4. CASE ResetSkipsStop(t)
    BY <1>4 DEF ResetSkipsStop
  <1>5. CASE RegisterFails(t)
    BY <1>5 DEF RegisterFails
  <1>6. CASE StartFailed(t)
    BY <1>6 DEF StartFailed
  <1>7. CASE StartNative(t)
    <2>1. PICK n \in Natives :
             /\ native[n] = "absent" /\ native' = [native EXCEPT ![n] = "running"]
             /\ thandle' = [thandle EXCEPT ![t] = n]
      BY <1>7 DEF StartNative
    <2>2. thandle[t] = None /\ tpc' = [tpc EXCEPT ![t] = "register"] /\ server' = server
      BY <1>7 DEF StartNative
    <2>3. \A m \in Natives : Live(m)' =>
             server' = m \/ \E u \in ServerThreads : thandle'[u] = m
      BY <2>1, <2>2 DEF Natives, None
    <2>4. \A u \in ServerThreads : InHttpdStop(u)' => native'[thandle'[u]] # "running"
      BY <2>1, <2>2
    <2>5. QED
      BY <2>3, <2>4
  <1>8. CASE Register(t)
    BY <1>8 DEF Register
  <1>9. CASE StartPublish(t)
    BY <1>9 DEF StartPublish, StartInv, Starting, Natives, None
  <1>10. CASE StopReturns(t)
    BY <1>10 DEF StopReturns
  <1>11. CASE StopPurge(t)
    BY <1>11 DEF StopPurge
  <1>12. CASE ResetFinal(t)
    BY <1>12 DEF ResetFinal
  <1>13. QED
    BY <1>1, <1>2, <1>3, <1>4, <1>5, <1>6, <1>7, <1>8, <1>9, <1>10, <1>11, <1>12
       DEF ThreadStep, ThreadFinishes

\* A native task leaves its owner alone.
LEMMA OwnerTask ==
    ASSUME TypeOK, HandleInv, OwnerInv, NEW n \in Natives, TaskStep(n)
    PROVE  OwnerInv'
  <1>1. UNCHANGED <<server, tpc, thandle, overlap>> /\ (stopFailed => stopFailed')
    BY TaskFrame DEF serverVars, threadVars
  <1>2. \A m \in Natives :
          /\ Live(m)' => Live(m)
          /\ ~stopFailed' /\ native'[m] = "running" => native[m] = "running"
    BY TaskNative
  <1>3. \A t \in ServerThreads : InHttpdStop(t) => thandle[t] \in Natives
    BY DEF TypeOK, InHttpdStop
  <1>4. QED
    BY <1>1, <1>2, <1>3 DEF OwnerInv, Orderly, InHttpdStop

\* At most one native instance is live.
LEMMA OneLive ==
    ASSUME TypeOK, HandleInv, StartInv, StopInv, OwnerInv
    PROVE  OneNative
  <1> SUFFICES ASSUME Orderly, NEW m \in Natives, NEW n \in Natives, Live(m), Live(n)
               PROVE  m = n
    BY DEF OneNative, Orderly
  <1> USE DEF HasHandle, HandleInv, InStop, Starting, StartInv, StopInv, Orderly
  <1>1. m # None /\ n # None
    BY DEF Natives, None
  <1>2. server = m \/ \E t \in ServerThreads : thandle[t] = m
    BY DEF OwnerInv
  <1>3. server = n \/ \E t \in ServerThreads : thandle[t] = n
    BY DEF OwnerInv
  <1>4. \A t \in ServerThreads : thandle[t] # None => server = None
    BY DEF TypeOK
  <1>5. \A t, u \in ServerThreads : thandle[t] # None /\ thandle[u] # None => t = u
    BY DEF TypeOK
  <1>6. QED
    BY <1>1, <1>2, <1>3, <1>4, <1>5

\* While no native instance is live or no call but this one is in progress, a
\* call may drop bindings from the list.
LEMMA CtxThread ==
    ASSUME TypeOK, TaskInv, HandleInv, StartInv, StopInv, OwnerInv, CtxInv,
           NEW t \in ServerThreads, ThreadStep(t)
    PROVE  CtxInv'
  <1>0. Orderly' => Orderly
    BY ThreadFrame DEF Orderly
  <1> SUFFICES ASSUME Orderly, Orderly' PROVE CtxInv'
    BY <1>0 DEF CtxInv
  <1>00. \A n \in Natives : Live(n) =>
            \/ server = n
            \/ \E u \in ServerThreads :
                  thandle[u] = n /\ (Starting(u) \/ tpc[u] \in {"stopping", "resetStopping"})
    <2>1. \A n \in Natives : n # None
      BY DEF Natives, None
    <2>2. QED
      BY <2>1 DEF OwnerInv, HandleInv, HasHandle, Starting
  <1> USE DEF TypeOK, CtxInv, Starting, Live, SetPc, ActiveBindings, Orderly, serverVars,
              threadVars, nativeVars
  <1>1. CASE Initialize(t)
    BY <1>1 DEF Initialize
  <1>2. CASE StartLock(t)
    <2>1. \A u \in ServerThreads : ~(u # t /\ InStop(u))
      BY <1>2 DEF StartLock, Overlapping, OtherInStop
    <2>2. \A n \in Natives : ~Live(n)
      BY <1>00, <1>2, <2>1 DEF StartLock, StartInv, InStop, Natives, None
    <2>3. \A u \in ServerThreads : ~Starting(u)
      BY <1>2 DEF StartLock, StartInv
    <2>4. QED
      BY <1>2, <2>2, <2>3 DEF StartLock
  <1>3. CASE StopLock(t)
    BY <1>3 DEF StopLock, HandleInv
  <1>4. CASE ResetSkipsStop(t)
    BY <1>4 DEF ResetSkipsStop
  <1>5. CASE RegisterFails(t)
    BY <1>5 DEF RegisterFails, HandleInv
  <1>6. CASE StartFailed(t)
    BY <1>6 DEF StartFailed
  <1>7. CASE StartNative(t)
    BY <1>7 DEF StartNative, TaskInv
  <1>8. CASE Register(t)
    BY <1>8 DEF Register
  <1>9. CASE StartPublish(t)
    BY <1>9 DEF StartPublish
  <1>10. CASE StopReturns(t)
    BY <1>10 DEF StopReturns
  <1>11. CASE StopPurge(t)
    <2>1. \A u \in ServerThreads : ~(u # t /\ InStop(u))
      BY <1>11 DEF StopPurge, Overlapping, OtherInStop
    <2>2. server = None /\ ~starting
      BY <1>11 DEF StopPurge, StopInv, InStop
    <2>3. \A n \in Natives : ~Live(n)
      BY <1>00, <1>11, <2>1, <2>2 DEF StopPurge, StartInv, InStop, Natives, None
    <2>4. \A u \in ServerThreads : ~Starting(u)
      BY <2>2 DEF StartInv
    <2>5. QED
      BY <1>11, <2>3, <2>4 DEF StopPurge
  <1>12. CASE ResetFinal(t)
    <2>1. CASE starting
      BY <1>12, <2>1 DEF ResetFinal
    <2>2. CASE ~starting
      <3>1. \A u \in ServerThreads : ~(u # t /\ InStop(u))
        BY <1>12 DEF ResetFinal, Overlapping, OtherInStop
      <3>2. server = None
        BY <1>12 DEF ResetFinal, StopInv, InStop
      <3>3. \A n \in Natives : ~Live(n)
        BY <1>00, <1>12, <2>2, <3>1, <3>2 DEF ResetFinal, StartInv, InStop, Natives, None
      <3>4. \A u \in ServerThreads : ~Starting(u)
        BY <2>2 DEF StartInv
      <3>5. QED
        BY <1>12, <3>3, <3>4 DEF ResetFinal
    <2>3. QED
      BY <2>1, <2>2
  <1>13. QED
    BY <1>1, <1>2, <1>3, <1>4, <1>5, <1>6, <1>7, <1>8, <1>9, <1>10, <1>11, <1>12
       DEF ThreadStep, ThreadFinishes

\* The endpoint drops a binding only while the server is neither running nor
\* starting, and then an instance can only be in the hands of a Stop.
LEMMA CtxEndpoint ==
    ASSUME TypeOK, HandleInv, StartInv, OwnerInv, CtxInv, EndpointStep
    PROVE  CtxInv'
  <1>1. UNCHANGED <<tpc, tsnap, native, handlers, stopFailed>> /\ (overlap => overlap')
    BY EndpointFrame DEF threadVars
  <1> SUFFICES ASSUME Orderly, Orderly' PROVE CtxInv'
    BY <1>1 DEF CtxInv, Orderly
  <1>2. CASE bindings \subseteq bindings'
    BY <1>1, <1>2 DEF CtxInv, Starting, Live
  <1>3. CASE ReleaseWebSocketBinding /\ server = None /\ ~starting
    <2>1. \A u \in ServerThreads : ~InStop(u)
      BY <1>3 DEF ReleaseWebSocketBinding, AnyInStop, Orderly
    <2>2. \A u \in ServerThreads : ~Starting(u)
      BY <1>3 DEF StartInv
    <2>3. \A u \in ServerThreads : thandle[u] = None
      BY <2>1, <2>2 DEF HandleInv, HasHandle, InStop, Starting
    <2>4. \A n \in Natives : ~Live(n)
      BY <1>3, <2>3 DEF OwnerInv, Natives, None
    <2>5. QED
      BY <1>1, <2>2, <2>4 DEF CtxInv, Starting, Live
  <1>4. QED
    BY <1>2, <1>3 DEF EndpointStep, BindActivate, BindAdd, BindUndo, UnbindCloseAll,
         UnbindDeactivate, ReleaseWebSocketBinding, UnbindFresh, UnbindThrows, serverVars

-----------------------------------------------------------------------------
(* Connections and their sessions *)

\* A call of the server, or a task, brings no binding state back to life.
LEMMA AliveThread ==
    ASSUME TypeOK, NEW t \in ServerThreads, ThreadStep(t), NEW b, Alive(b)'
    PROVE  Alive(b)
  <1>1. UNCHANGED <<task, current, retired>>
    BY ThreadFrame DEF endpointVars
  <1>2. QED
    BY <1>1, ListThread DEF Alive

LEMMA AliveTask ==
    ASSUME TypeOK, NEW n \in Natives, TaskStep(n), NEW b, Alive(b)'
    PROVE  Alive(b)
  <1>1. UNCHANGED <<bindings, tsnap, current, retired>>
    BY TaskFrame DEF serverVars, threadVars
  <1>2. \A m \in Natives : \A e \in task'[m].todo : e \in task[m].todo \/ e \in bindings
    BY DEF TaskStep, Upgrade, Dispatch, BeginClose, EnsureConnection, EnsureFails,
         OnHttpSessionClosed, EndClose, NativeDrains, NativeEnds, NativeRefusesStop,
         TypeOK, Idle
  <1>3. QED
    BY <1>1, <1>2 DEF Alive

\* The endpoint gives life to nothing but a fresh state.
LEMMA AliveEndpoint ==
    ASSUME TypeOK, EndpointStep, NEW b \in States, Alive(b)'
    PROVE  Alive(b) \/ b = allocated + 1
  <1>1. UNCHANGED <<task, tsnap>>
    BY EndpointFrame DEF threadVars
  <1>2. QED
    BY <1>1, ListEndpoint DEF Alive, States, None

\* A call of the server keeps the sessions, and their native instances live.
LEMMA ConnectionsThread ==
    ASSUME TypeOK, TaskInv, HandleInv, ConnectionsHaveSessions, ClosingInv,
           NEW t \in ServerThreads, ThreadStep(t)
    PROVE  ConnectionsHaveSessions' /\ ClosingInv'
  <1>1. /\ UNCHANGED <<task, session, conns, stopFailed>>
        /\ overlap => overlap'
    BY ThreadFrame DEF endpointVars
  <1> SUFFICES ASSUME Orderly, Orderly' PROVE ConnectionsHaveSessions' /\ ClosingInv'
    BY <1>1 DEF ConnectionsHaveSessions, ClosingInv, Orderly
  <1>2. ASSUME NEW b \in States, Alive(b)', NEW s \in conns[b]
        PROVE  session[s].binding = b /\ Live(session[s].native)'
    <2>1. session[s].binding = b /\ Live(session[s].native) /\ s \in Sockets
      BY <1>2, AliveThread DEF ConnectionsHaveSessions, Orderly, TypeOK
    <2>2. session[s].native \in Natives
      BY <2>1 DEF TaskInv, TypeOK, States, None
    <2>3. QED
      BY <1>1, <2>1, <2>2, ThreadNative DEF Live
  <1>3. ConnectionsHaveSessions'
    BY <1>1, <1>2 DEF ConnectionsHaveSessions, Live
  <1>4. ClosingInv'
    BY <1>1, AliveThread DEF ClosingInv
  <1>5. QED
    BY <1>3, <1>4

\* A connection is made for an open session; before a session ends, its close
\* has reached the binding that has the connection.
LEMMA ConnectionsTask ==
    ASSUME TypeOK, TaskInv, ConnectionsHaveSessions, ClosingInv,
           NEW n \in Natives, TaskStep(n)
    PROVE  ConnectionsHaveSessions'
  <1>0. Orderly' => Orderly
    BY TaskFrame DEF Orderly
  <1> SUFFICES ASSUME Orderly, Orderly', NEW b \in States, Alive(b)', NEW s \in conns'[b]
               PROVE  session'[s].binding = b /\ Live(session[s].native)'
    BY <1>0 DEF ConnectionsHaveSessions, Orderly
  <1>00. /\ Alive(b)
         /\ \A r \in conns[b] :
               session[r].binding = b /\ Live(session[r].native) /\ r \in Sockets
    BY AliveTask DEF ConnectionsHaveSessions, Orderly, TypeOK
  <1>01. b # None /\ n # None
    BY DEF States, Natives, None
  <1> USE DEF TypeOK, Live
  <1>1. ASSUME NEW r \in Sockets, Upgrade(n, r)
        PROVE  session'[s].binding = b /\ Live(session[s].native)'
    BY <1>00, <1>01, <1>1 DEF Upgrade, NoSession, endpointVars
  <1>2. ASSUME NEW r \in Sockets, Dispatch(n, r) \/ BeginClose(n, r)
        PROVE  session'[s].binding = b /\ Live(session[s].native)'
    BY <1>00, <1>2 DEF Dispatch, BeginClose, endpointVars
  <1>3. CASE EnsureConnection(n)
    <2>1. UNCHANGED <<session, native>>
      BY <1>3 DEF EnsureConnection
    <2>2. s \in conns[b] \/ (s = task[n].socket /\ session[s].binding = b)
      BY <1>3 DEF EnsureConnection
    <2>3. session[task[n].socket].native = n /\ Live(n)
      BY <1>01, <1>3 DEF EnsureConnection, TaskInv
    <2>4. QED
      BY <1>00, <2>1, <2>2, <2>3
  <1>4. CASE EnsureFails(n)
    BY <1>00, <1>4 DEF EnsureFails, endpointVars
  <1>5. CASE NativeDrains(n)
    BY <1>00, <1>5 DEF NativeDrains, endpointVars
  <1>6. CASE OnHttpSessionClosed(n)
    BY <1>00, <1>6 DEF OnHttpSessionClosed
  <1>7. CASE EndClose(n)
    <2>1. UNCHANGED <<conns, native>> /\ task[n].pc = "closing" /\ task[n].todo = {}
      BY <1>7 DEF EndClose, endpointVars
    <2>2. s # task[n].socket
      BY <1>00, <2>1 DEF ClosingInv
    <2>3. session'[s] = session[s]
      BY <1>00, <1>7, <2>1, <2>2 DEF EndClose
    <2>4. QED
      BY <1>00, <2>1, <2>3
  <1>8. CASE NativeEnds(n)
    BY <1>00, <1>8 DEF NativeEnds, endpointVars
  <1>9. CASE NativeRefusesStop(n)
    BY <1>9 DEF NativeRefusesStop, Orderly
  <1>10. QED
    BY <1>1, <1>2, <1>3, <1>4, <1>5, <1>6, <1>7, <1>8, <1>9 DEF TaskStep

\* HandleSessionClosed copies the whole list, which has every binding with a
\* session; and no connection is made on a socket that is being closed.
LEMMA ClosingTask ==
    ASSUME TypeOK, TaskInv, CtxInv, ConnectionsHaveSessions, ClosingInv,
           NEW n \in Natives, TaskStep(n)
    PROVE  ClosingInv'
  <1>0. Orderly' => Orderly
    BY TaskFrame DEF Orderly
  <1> SUFFICES ASSUME Orderly, Orderly', NEW m \in Natives, task'[m].pc = "closing",
                      NEW b \in States, Alive(b)', task'[m].socket \in conns'[b]
               PROVE  b \in task'[m].todo
    BY <1>0 DEF ClosingInv
  <1>00. Alive(b)
    BY AliveTask
  <1>01. \A k \in Natives : task[k].pc = "closing" /\ task[k].socket \in conns[b] =>
            b \in task[k].todo
    BY <1>00 DEF ClosingInv
  <1> USE DEF TypeOK
  <1>1. ASSUME NEW s \in Sockets, BeginClose(n, s) PROVE b \in task'[m].todo
    <2>1. CASE m # n
      BY <1>01, <1>1, <2>1 DEF BeginClose, endpointVars
    <2>2. CASE m = n
      <3>1. s \in conns[b] /\ session[s].native = n /\ Live(n) /\ task'[m].todo = bindings
        BY <1>1, <2>2 DEF BeginClose, endpointVars
      <3>2. session[s].binding = b
        BY <1>00, <3>1 DEF ConnectionsHaveSessions, Orderly
      <3>3. b \in handlers[n]
        BY <3>1, <3>2 DEF TaskInv, Natives, None
      <3>4. QED
        BY <3>1, <3>3 DEF CtxInv
    <2>3. QED
      BY <2>1, <2>2
  <1>2. CASE EnsureConnection(n)
    <2>1. m # n /\ task'[m] = task[m]
      BY <1>2 DEF EnsureConnection, Idle
    <2>2. task[m].socket # task[n].socket
      BY <1>2, <2>1 DEF EnsureConnection, TaskInv
    <2>3. task[m].socket \in conns[b]
      BY <1>2, <2>1, <2>2 DEF EnsureConnection
    <2>4. QED
      BY <1>01, <2>1, <2>3
  <1>3. CASE OnHttpSessionClosed(n)
    <2>1. PICK e \in task[n].todo :
             /\ conns' = [conns EXCEPT ![e] = @ \ {task[n].socket}]
             /\ task' = [task EXCEPT ![n].todo = @ \ {e}]
      BY <1>3 DEF OnHttpSessionClosed
    <2>2. task'[m].socket = task[m].socket /\ task[m].pc = "closing"
      BY <2>1
    <2>3. task[m].socket \in conns[b]
      BY <2>1, <2>2
    <2>4. b \in task[m].todo
      BY <1>01, <2>2, <2>3
    <2>5. CASE m = n /\ b = e
      BY <2>1, <2>2, <2>5
    <2>6. CASE ~(m = n /\ b = e)
      BY <2>1, <2>4, <2>6
    <2>7. QED
      BY <2>5, <2>6
  <1>4. ASSUME NEW s \in Sockets, Upgrade(n, s) \/ Dispatch(n, s) PROVE b \in task'[m].todo
    BY <1>01, <1>4 DEF Upgrade, Dispatch, endpointVars
  <1>5. CASE EndClose(n)
    BY <1>01, <1>5 DEF EndClose, Idle, endpointVars
  <1>6. CASE EnsureFails(n)
    BY <1>01, <1>6 DEF EnsureFails, endpointVars
  <1>7. CASE NativeDrains(n) \/ NativeEnds(n) \/ NativeRefusesStop(n)
    BY <1>01, <1>7 DEF NativeDrains, NativeEnds, NativeRefusesStop, endpointVars
  <1>8. QED
    BY <1>1, <1>2, <1>3, <1>4, <1>5, <1>6, <1>7 DEF TaskStep

\* The endpoint changes no connection, and its fresh state has none.
LEMMA ConnectionsEndpoint ==
    ASSUME TypeOK, AllocInv, ConnectionsHaveSessions, ClosingInv, EndpointStep
    PROVE  ConnectionsHaveSessions' /\ ClosingInv'
  <1>1. UNCHANGED <<task, session, native, conns, stopFailed>> /\ (overlap => overlap')
    BY EndpointFrame
  <1>2. \A b \in States : conns[b] # {} => b # allocated + 1
    BY DEF AllocInv, TypeOK, States
  <1>3. \A b \in States : Alive(b)' /\ conns[b] # {} => Alive(b)
    BY <1>2, AliveEndpoint
  <1>4. ConnectionsHaveSessions'
    BY <1>1, <1>3 DEF ConnectionsHaveSessions, Live
  <1>5. ClosingInv'
    BY <1>1, <1>3 DEF ClosingInv, Orderly
  <1>6. QED
    BY <1>4, <1>5

-----------------------------------------------------------------------------
(* A fresh state is registered nowhere *)

\* A call of the server hands the current state on only where it already is.
LEMMA FreshThread ==
    ASSUME TypeOK, FreshInv, NEW t \in ServerThreads, ThreadStep(t)
    PROVE  FreshInv'
  <1>1. UNCHANGED <<epc, active, current>>
    BY ThreadFrame DEF endpointVars
  <1>2. QED
    BY <1>1, ListThread DEF FreshInv

\* Only a state that Bind has activated is added to the list, and it leaves
\* the endpoint as it is deactivated.
LEMMA FreshEndpoint ==
    ASSUME TypeOK, AllocInv, FreshInv, EndpointStep
    PROVE  FreshInv'
  <1> SUFFICES ASSUME ~AllocMayFail PROVE FreshInv'
    BY DEF FreshInv
  <1>1. UNCHANGED <<tsnap, handlers>>
    BY EndpointFrame DEF threadVars
  <1> USE DEF TypeOK, FreshInv, endpointVars, serverVars
  <1>2. CASE BindActivate
    BY <1>1, <1>2 DEF BindActivate
  <1>3. CASE BindAdd
    BY <1>1, <1>3 DEF BindAdd
  <1>4. CASE BindUndo
    BY <1>1, <1>4 DEF BindUndo
  <1>5. CASE UnbindCloseAll \/ UnbindDeactivate
    BY <1>1, <1>5 DEF UnbindCloseAll, UnbindDeactivate
  <1>6. CASE ReleaseWebSocketBinding
    BY <1>1, <1>6 DEF ReleaseWebSocketBinding, ActiveBindings
  <1>7. CASE UnbindFresh
    <2>1. /\ allocated + 1 \notin bindings
          /\ \A t \in ServerThreads : allocated + 1 \notin tsnap[t]
          /\ \A n \in Natives : allocated + 1 \notin handlers[n]
      BY DEF AllocInv, States
    <2>2. QED
      BY <1>1, <1>7, <2>1 DEF UnbindFresh
  <1>8. CASE UnbindThrows
    BY <1>8 DEF UnbindThrows
  <1>9. QED
    BY <1>2, <1>3, <1>4, <1>5, <1>6, <1>7, <1>8 DEF EndpointStep

-----------------------------------------------------------------------------
(* The inductive invariant *)

\* A call of the server preserves the invariant.
LEMMA InvThread == ASSUME Inv, NEW t \in ServerThreads, ThreadStep(t) PROVE Inv'
  <1> USE DEF Inv
  <1>1. TypeOK' /\ AllocInv' /\ TaskInv' /\ HandleInv'
    BY TypeThread, AllocThread, TaskThread, HandleThread
  <1>2. StartInv' /\ StopInv' /\ DispatcherInv' /\ OwnerInv'
    BY StartThread, StopThread, DispatcherThread, OwnerThread
  <1>3. CtxInv' /\ ConnectionsHaveSessions' /\ ClosingInv' /\ FreshInv'
    BY CtxThread, ConnectionsThread, FreshThread
  <1>4. QED
    BY <1>1, <1>2, <1>3

\* So does a native task.
LEMMA InvTask == ASSUME Inv, NEW n \in Natives, TaskStep(n) PROVE Inv'
  <1>1. /\ UNCHANGED <<serverVars, threadVars, handlers, active, current, epc, overlap>>
        /\ stopFailed => stopFailed'
    BY TaskFrame
  <1>2. TypeOK' /\ AllocInv' /\ TaskInv' /\ HandleInv' /\ OwnerInv'
    BY TypeTask, AllocTask, TaskTask, HandleTask, OwnerTask DEF Inv
  <1>3. StartInv' /\ StopInv' /\ DispatcherInv' /\ FreshInv'
    BY <1>1 DEF Inv, StartInv, StopInv, DispatcherInv, FreshInv, Starting, InStop,
                serverVars, threadVars
  <1>4. CtxInv'
    <2>1. \A m \in Natives : Live(m)' => Live(m)
      BY TaskNative DEF Inv
    <2>2. QED
      BY <1>1, <2>1 DEF Inv, CtxInv, Orderly, Starting, serverVars, threadVars
  <1>5. ConnectionsHaveSessions' /\ ClosingInv'
    BY ConnectionsTask, ClosingTask DEF Inv
  <1>6. QED
    BY <1>2, <1>3, <1>4, <1>5 DEF Inv

\* And the endpoint.
LEMMA InvEndpoint == ASSUME Inv, EndpointStep PROVE Inv'
  <1>1. /\ UNCHANGED <<server, starting, dispatcher, threadVars, native, handlers, task,
                       session, stopFailed>>
        /\ overlap => overlap'
    BY EndpointFrame DEF Inv
  <1>2. TypeOK' /\ AllocInv'
    BY TypeEndpoint, AllocEndpoint DEF Inv
  <1>3. TaskInv' /\ HandleInv'
    BY <1>1 DEF Inv, TaskInv, HandleInv, HasHandle, InHttpdStop, Live, threadVars
  <1>4. StartInv' /\ StopInv' /\ DispatcherInv'
    BY <1>1 DEF Inv, StartInv, StopInv, DispatcherInv, Starting, InStop, threadVars
  <1>5. OwnerInv'
    BY <1>1 DEF Inv, OwnerInv, InHttpdStop, Live, Orderly, threadVars
  <1>6. CtxInv' /\ ConnectionsHaveSessions' /\ ClosingInv' /\ FreshInv'
    BY CtxEndpoint, ConnectionsEndpoint, FreshEndpoint DEF Inv
  <1>7. QED
    BY <1>2, <1>3, <1>4, <1>5, <1>6 DEF Inv

\* Nothing happens in a stuttering step.
LEMMA InvStutter == ASSUME Inv, UNCHANGED vars PROVE Inv'
  <1> USE DEF vars, serverVars, threadVars, nativeVars, endpointVars, historyVars
  <1>1. TypeOK' /\ AllocInv' /\ TaskInv' /\ HandleInv'
    BY DEF Inv, TypeOK, AllocInv, TaskInv, HandleInv, HasHandle, InHttpdStop, Live
  <1>2. StartInv' /\ StopInv' /\ DispatcherInv' /\ OwnerInv'
    BY DEF Inv, StartInv, StopInv, DispatcherInv, OwnerInv, Starting, InStop, InHttpdStop,
           Live, Orderly
  <1>3. CtxInv' /\ ConnectionsHaveSessions' /\ ClosingInv' /\ FreshInv'
    BY DEF Inv, CtxInv, ConnectionsHaveSessions, ClosingInv, FreshInv, Starting, Live,
           Alive, Orderly
  <1>4. QED
    BY <1>1, <1>2, <1>3 DEF Inv

\* Every reachable state satisfies the invariant.
THEOREM Invariant == Spec => []Inv
  <1>1. Inv /\ [Next]_vars => Inv'
    BY InvThread, InvTask, InvEndpoint, InvStutter DEF Next
  <1>2. QED
    BY InitInv, <1>1, PTL DEF Spec

-----------------------------------------------------------------------------
(* The properties *)

\* The state is well typed: no call hands HTTPD a handle it does not have.
THEOREM TypeCorrect == Spec => []TypeOK
  <1>1. Inv => TypeOK
    BY DEF Inv
  <1>2. QED
    BY Invariant, <1>1, PTL

\* There is at most one live native instance, unless calls overlapped or an
\* httpd_stop failed.
THEOREM AtMostOneNative == Spec => []OneNative
  <1>1. Inv => OneNative
    BY OneLive DEF Inv
  <1>2. QED
    BY Invariant, <1>1, PTL

\* The raw user_ctx of every URI handler of a live instance points at a binding
\* state that still exists, under the same provisos.
THEOREM UserCtxNeverDangles == Spec => []UserCtxAlive
  <1>1. Inv => UserCtxAlive
    BY DEF Inv, CtxInv, UserCtxAlive, Alive, Orderly
  <1>2. QED
    BY Invariant, <1>1, PTL

\* A published server has a dispatcher.
THEOREM DispatcherStays == Spec => []RunningHasDispatcher
  <1>1. Inv => RunningHasDispatcher
    BY DEF Inv, DispatcherInv, RunningHasDispatcher
  <1>2. QED
    BY Invariant, <1>1, PTL

\* No connection object outlives the session of its socket, so a reused
\* descriptor never finds the connection of an earlier client.
THEOREM NoStaleConnection == Spec => []ConnectionsHaveSessions
  <1>1. Inv => ConnectionsHaveSessions
    BY DEF Inv
  <1>2. QED
    BY Invariant, <1>1, PTL

\* As long as Unbind finds the memory for a fresh state, no state that a live
\* instance has as user_ctx is activated again.
THEOREM RoutesStayClosed == ASSUME ~AllocMayFail PROVE Spec => NoReactivation
  <1>1. ASSUME Inv, [Next]_vars, NEW n \in Natives, NEW b \in handlers[n], ~active[b]
        PROVE  ~active'[b]
    <2>1. CASE BindActivate
      <3>1. b # current /\ active' = [active EXCEPT ![current] = TRUE]
        BY <1>1, <2>1 DEF Inv, FreshInv, BindActivate
      <3>2. b \in States
        BY <1>1 DEF Inv, TypeOK
      <3>3. QED
        BY <1>1, <3>1, <3>2 DEF Inv, TypeOK
    <2>2. CASE BindUndo \/ UnbindDeactivate
      <3>1. b \in States
        BY <1>1 DEF Inv, TypeOK
      <3>2. QED
        BY <1>1, <2>2, <3>1 DEF Inv, TypeOK, BindUndo, UnbindDeactivate
    <2>3. CASE UNCHANGED active
      BY <1>1, <2>3
    <2>4. CASE \E t \in ServerThreads : ThreadStep(t)
      BY <1>1, <2>4, ThreadFrame DEF Inv, endpointVars
    <2>5. CASE \E m \in Natives : TaskStep(m)
      BY <1>1, <2>5, TaskFrame
    <2>6. CASE EndpointStep
      BY <2>1, <2>2, <2>3, <2>6 DEF EndpointStep, BindAdd, UnbindCloseAll,
         ReleaseWebSocketBinding, UnbindFresh, UnbindThrows
    <2>7. QED
      BY <1>1, <2>3, <2>4, <2>5, <2>6 DEF Next, vars, endpointVars
  <1>2. Inv /\ [Next]_vars =>
           \A n \in Natives : Live(n) => \A b \in handlers[n] : ~active[b] => ~active'[b]
    BY <1>1
  <1>3. QED
    BY Invariant, <1>2, PTL DEF Spec, NoReactivation

-----------------------------------------------------------------------------
(* What holds without a proviso *)

\* A call that is inside httpd_stop, from Stop or from failStart, stops a server
\* that is there, that is not published in _server and that no other call has a
\* handle of, however calls overlap and whichever of them have failed.
StopsOwnServer ==
    \A t \in ServerThreads : InHttpdStop(t) =>
        /\ native[thandle[t]] # "absent"
        /\ thandle[t] # server
        /\ \A u \in ServerThreads \ {t} : thandle[u] # thandle[t]

\* No native server is stopped by two calls, or while it is published.
THEOREM StoppedByOneCall == Spec => []StopsOwnServer
  <1>1. ASSUME Inv, NEW t \in ServerThreads, InHttpdStop(t)
        PROVE  /\ native[thandle[t]] # "absent"
               /\ thandle[t] # server
               /\ \A u \in ServerThreads \ {t} : thandle[u] # thandle[t]
    <2>1. thandle[t] # None
      BY <1>1 DEF Inv, HandleInv, HasHandle, InHttpdStop
    <2>2. QED
      BY <1>1, <2>1 DEF Inv, HandleInv
  <1>2. Inv => StopsOwnServer
    BY <1>1 DEF StopsOwnServer
  <1>3. QED
    BY Invariant, <1>2, PTL

=============================================================================
