----------------------- MODULE WebSocketClientProofs -----------------------
(***************************************************************************)
(* Proofs about WebSocketClient for any set of threads and any number of   *)
(* clients and links.                                                      *)
(*                                                                         *)
(* None of the invariants of WebSocketClient is inductive.  They rest on   *)
(* three facts: _disconnecting stands for the one thread that holds the    *)
(* handle of the one native client that exists (ClientInv); the native     *)
(* client runs as long as its task handles an event, so a Connect or the   *)
(* end of a Disconnect never comes in the middle of one (HandlerInv); and  *)
(* connected, _disconnectNotified and what the sink has heard move         *)
(* together, but for what is on its way to the sink (NotifiedInv,          *)
(* HeardInv).                                                              *)
(***************************************************************************)
EXTENDS WebSocketClient, TLAPS

Exists(c) == native[c] \in {"idle", "running", "stopped"}

\* The native client that exists is the published one; the one thread inside
\* Disconnect holds its handle and has destroyed it when it comes to its end.
ClientInv ==
    /\ \A c \in Clients : native[c] = "absent" <=> c > made
    /\ \A c \in Clients : Exists(c) => c = client
    /\ client # None => Exists(client) \/ \E t \in AppThreads : tpc[t] = "final"
    /\ disconnecting <=> \E t \in AppThreads : Stopping(t)
    /\ \A t, u \in AppThreads : Stopping(t) /\ Stopping(u) => t = u
    /\ \A t \in AppThreads : Stopping(t) => client # None /\ thandle[t] = client
    /\ \A t \in AppThreads : tpc[t] \in {"stop", "destroy"} => Exists(client)
    /\ \A t \in AppThreads : tpc[t] = "final" => native[client] = "destroyed"

\* An event is handled by the task of the running client, the only one that has
\* a link, and _eventTask is that task or not yet known.
HandlerInv ==
    /\ epc # "idle" \/ link # None => client # None /\ Running
    /\ eventTask \in {None, client}
    /\ epc \in {"handle", "notify", "callback"} => eventTask = client
    /\ epc = "notify" => event \in {"connected", "lost", "closed"}

\* An event is on its way to its handler.
Pending(events) == epc \in {"raised", "handle"} /\ event \in events

\* A close code that is kept was received on the present link, or on the link
\* whose end is being reported, from the time that link is known.
CloseInv ==
    /\ connection # None /\ link # None /\ ~Pending({"connected"})
          => peerClose \in {None, link}
    /\ connection # None /\ Pending({"closed"}) => peerClose \in {None, eventLink}
    /\ Pending({"closeFrame"}) => eventLink = link

\* The platform is connected as long as there is a link, until it hears of its
\* end; and then exactly as long as it has not taken note of a disconnection.
NotifiedInv ==
    /\ client = None => ~connected
    /\ connected /\ Running => link # None \/ Pending({"lost", "closed"})
    /\ Pending({"connected"}) => ~connected /\ link # None
    /\ ~late => /\ connected <=> ~notified
                /\ \A t \in AppThreads : Stopping(t) /\ ~twas[t] => ~connected

\* What the sink has heard agrees with _connected, but for one notification on
\* its way: from an event, or from the Disconnect that has just ended.
HeardInv ==
    /\ epc = "notify" /\ sink => tellSink
    /\ epc = "callback" => tellSink
    /\ ~crossed /\ ~late =>
          /\ \A t \in AppThreads : tpc[t] = "fallback" =>
                /\ client = None /\ ~connected /\ heard = "connected"
                /\ \A u \in AppThreads : tpc[u] = "fallback" => u = t
          /\ epc = "notify" /\ tellSink =>
                /\ heard = "connected" <=> event # "connected"
                /\ connected <=> event = "connected"
          /\ sink /\ epc # "notify" /\ (\A t \in AppThreads : tpc[t] # "fallback") =>
                (heard = "connected" <=> connected)

Inv ==
    /\ TypeOK /\ ClientInv /\ HandlerInv /\ CredentialsOutliveClient /\ CloseInv
    /\ NotifiedInv /\ HeardInv

-----------------------------------------------------------------------------
(* Types *)

\* The flags and the rest of the state, which are proved apart.
Flags ==
    /\ connected \in BOOLEAN /\ disconnecting \in BOOLEAN /\ notified \in BOOLEAN
    /\ sink \in BOOLEAN /\ stopAsked \in BOOLEAN /\ tellSink \in BOOLEAN
    /\ twas \in [AppThreads -> BOOLEAN] /\ treset \in [AppThreads -> BOOLEAN]
    /\ crossed \in BOOLEAN /\ late \in BOOLEAN /\ stripped \in BOOLEAN

Values ==
    /\ client \in Clients \union {None} /\ connection \in Clients \union {None}
    /\ eventTask \in Clients \union {None}
    /\ peerClose \in Links \union {None} /\ creds \in Clients \union {None}
    /\ native \in [Clients -> {"absent", "idle", "running", "stopped", "destroyed"}]
    /\ link \in Links \union {None} /\ links \in 0 .. MaxLinks
    /\ epc \in {"idle", "raised", "handle", "notify", "callback"}
    /\ event \in {"none", "connected", "lost", "closed", "closeFrame"}
    /\ eventLink \in Links \union {None}
    /\ tpc \in [AppThreads -> {"idle", "stop", "destroy", "final", "fallback",
                               "resetFinal", "send"}]
    /\ thandle \in [AppThreads -> Clients \union {None}]
    /\ \A t \in AppThreads : Stopping(t) \/ tpc[t] = "send" => thandle[t] # None
    /\ tconn \in [AppThreads -> Clients \union {None}]
    /\ made \in 0 .. MaxClients /\ heard \in {"none", "connected", "disconnected"}

LEMMA TypeParts == TypeOK <=> Flags /\ Values
  BY DEF TypeOK, Flags, Values

\* The initial state satisfies the whole invariant.
LEMMA InitInv == Init => Inv
  <1> SUFFICES ASSUME Init PROVE Inv
    OBVIOUS
  <1>1. Flags
    BY DEF Init, Flags
  <1>2. Values
    BY BoundsAssumption DEF Init, Values, Stopping
  <1>3. ClientInv /\ HandlerInv
    BY DEF Init, ClientInv, HandlerInv, Stopping, Exists, Clients, None
  <1>4. CredentialsOutliveClient /\ CloseInv /\ NotifiedInv /\ HeardInv
    BY DEF Init, CredentialsOutliveClient, CloseInv, NotifiedInv, HeardInv, Pending,
           Stopping
  <1>5. QED
    BY <1>1, <1>2, <1>3, <1>4, TypeParts DEF Inv

\* A step writes nothing but truth values to the flags.
LEMMA FlagsNext == Flags /\ Next => Flags'
  <1> USE DEF Flags, platform, nativeVars, handler, threadVars, ghosts
  <1>1. ASSUME Flags, NEW t \in AppThreads,
               \/ Connect(t) \/ ConnectStartFails(t) \/ ConnectThrows(t)
               \/ DisconnectLock(t) \/ ResetSkipsDisconnect(t) \/ SendLock(t)
        PROVE  Flags'
    BY <1>1 DEF Connect, ConnectStartFails, ConnectThrows, MakesClient, ResetsState,
         DisconnectLock, ResetSkipsDisconnect, SendLock
  <1>2. ASSUME Flags, NEW t \in AppThreads, ThreadFinishes(t)
        PROVE  Flags'
    BY <1>2 DEF ThreadFinishes, DisconnectStop, DisconnectDestroy, DisconnectFinal,
         DisconnectFallback, ResetFinal, ClearAll, SendReturns
  <1>3. ASSUME Flags, SetSink \/ Handles \/ CallbackResets PROVE Flags'
    <2>1. CASE HandleConnected
      BY <1>3, <2>1 DEF HandleConnected
    <2>2. CASE SetSink \/ CallbackResets
      BY <1>3, <2>2 DEF SetSink, CallbackResets, ClearAll
    <2>3. CASE \/ HandleNativeEvent \/ HandleDisconnected \/ RememberPeerClose
               \/ NotifySink \/ CallbackReturns
      BY <1>3, <2>3 DEF HandleNativeEvent, HandleDisconnected, RememberPeerClose,
           NotifySink, CallbackReturns
    <2>4. QED
      BY <1>3, <2>1, <2>2, <2>3 DEF Handles
  <1>4. ASSUME Flags, \/ NativeConnects \/ NativeLoses \/ NativeReceivesClose
                     \/ NativeCloses \/ NativeEnds
        PROVE  Flags'
    BY <1>4 DEF NativeConnects, NativeLoses, NativeReceivesClose, NativeCloses,
         NativeEnds, Raise
  <1>5. QED
    BY <1>1, <1>2, <1>3, <1>4 DEF Next, ThreadStep, TaskStep

\* A call of the platform keeps the other types.
LEMMA ValuesThread ==
    ASSUME Values, NEW t \in AppThreads, ThreadStep(t)
    PROVE  Values'
  <1> USE BoundsAssumption
      DEF Values, Stopping, platform, nativeVars, handler, threadVars, ghosts
  <1>1. CASE Connect(t)
    BY <1>1 DEF Connect, MakesClient, ResetsState, Clients, None
  <1>2. CASE ConnectStartFails(t)
    BY <1>2 DEF ConnectStartFails, MakesClient, ResetsState, Clients, None
  <1>3. CASE ConnectThrows(t)
    BY <1>3 DEF ConnectThrows, MakesClient, Clients, None
  <1>4. CASE DisconnectLock(t)
    BY <1>4 DEF DisconnectLock
  <1>5. CASE ResetSkipsDisconnect(t)
    BY <1>5 DEF ResetSkipsDisconnect
  <1>6. CASE SendLock(t)
    BY <1>6 DEF SendLock, Clients
  <1>7. CASE DisconnectStop(t)
    BY <1>7 DEF DisconnectStop
  <1>8. CASE DisconnectDestroy(t)
    BY <1>8 DEF DisconnectDestroy
  <1>9. CASE DisconnectFinal(t)
    BY <1>9 DEF DisconnectFinal, AfterDisconnect
  <1>10. CASE DisconnectFallback(t)
    BY <1>10 DEF DisconnectFallback, AfterDisconnect
  <1>11. CASE ResetFinal(t)
    BY <1>11 DEF ResetFinal, ClearAll
  <1>12. CASE SendReturns(t)
    BY <1>12 DEF SendReturns
  <1>13. QED
    BY <1>1, <1>2, <1>3, <1>4, <1>5, <1>6, <1>7, <1>8, <1>9, <1>10, <1>11, <1>12
       DEF ThreadStep, ThreadFinishes

\* So do the native task and the owner of the platform.
LEMMA ValuesTask ==
    ASSUME Values, SetSink \/ TaskStep
    PROVE  Values'
  <1> USE BoundsAssumption
      DEF Values, Stopping, platform, nativeVars, handler, threadVars, ghosts
  <1>1. CASE SetSink
    BY <1>1 DEF SetSink
  <1>2. CASE NativeConnects
    BY <1>2 DEF NativeConnects, Raise, Links
  <1>3. CASE NativeLoses
    BY <1>3 DEF NativeLoses, Raise
  <1>4. CASE NativeReceivesClose
    BY <1>4 DEF NativeReceivesClose, Raise
  <1>5. CASE NativeCloses
    BY <1>5 DEF NativeCloses, Raise
  <1>6. CASE NativeEnds
    BY <1>6 DEF NativeEnds
  <1>7. CASE HandleNativeEvent
    BY <1>7 DEF HandleNativeEvent
  <1>8. CASE HandleConnected
    BY <1>8 DEF HandleConnected
  <1>9. CASE HandleDisconnected
    BY <1>9 DEF HandleDisconnected
  <1>10. CASE RememberPeerClose
    BY <1>10 DEF RememberPeerClose
  <1>11. CASE NotifySink
    BY <1>11 DEF NotifySink
  <1>12. CASE CallbackReturns
    BY <1>12 DEF CallbackReturns
  <1>13. CASE CallbackResets
    BY <1>13 DEF CallbackResets, ClearAll
  <1>14. QED
    BY <1>1, <1>2, <1>3, <1>4, <1>5, <1>6, <1>7, <1>8, <1>9, <1>10, <1>11, <1>12, <1>13
       DEF TaskStep, Handles

-----------------------------------------------------------------------------
(* The native client and its handle *)

\* A call of the platform keeps one native client and one Disconnect.
LEMMA ClientThread ==
    ASSUME TypeOK, ClientInv, NEW t \in AppThreads, ThreadStep(t)
    PROVE  ClientInv'
  <1> USE BoundsAssumption
      DEF TypeOK, ClientInv, Stopping, Exists, platform, nativeVars, handler,
          threadVars, ghosts
  <1>1. CASE Connect(t)
    BY <1>1 DEF Connect, MakesClient, ResetsState, Clients, None
  <1>2. CASE ConnectStartFails(t)
    BY <1>2 DEF ConnectStartFails, MakesClient, ResetsState, Clients, None
  <1>3. CASE ConnectThrows(t)
    BY <1>3 DEF ConnectThrows, MakesClient, Clients, None
  <1>4. CASE DisconnectLock(t)
    BY <1>4 DEF DisconnectLock
  <1>5. CASE ResetSkipsDisconnect(t)
    BY <1>5 DEF ResetSkipsDisconnect
  <1>6. CASE SendLock(t)
    BY <1>6 DEF SendLock
  <1>7. CASE DisconnectStop(t)
    BY <1>7 DEF DisconnectStop
  <1>8. CASE DisconnectDestroy(t)
    BY <1>8 DEF DisconnectDestroy
  <1>9. CASE DisconnectFinal(t)
    BY <1>9 DEF DisconnectFinal, AfterDisconnect
  <1>10. CASE DisconnectFallback(t)
    BY <1>10 DEF DisconnectFallback, AfterDisconnect
  <1>11. CASE ResetFinal(t)
    BY <1>11 DEF ResetFinal, ClearAll
  <1>12. CASE SendReturns(t)
    BY <1>12 DEF SendReturns
  <1>13. QED
    BY <1>1, <1>2, <1>3, <1>4, <1>5, <1>6, <1>7, <1>8, <1>9, <1>10, <1>11, <1>12
       DEF ThreadStep, ThreadFinishes

\* A call of the platform leaves a running client running.
LEMMA HandlerThread ==
    ASSUME TypeOK, ClientInv, HandlerInv, NEW t \in AppThreads, ThreadStep(t)
    PROVE  HandlerInv'
  <1> USE DEF TypeOK, ClientInv, HandlerInv, Stopping, Running, platform, nativeVars,
              handler, threadVars, ghosts
  <1>1. CASE Connect(t)
    BY <1>1 DEF Connect, MakesClient, ResetsState, Clients, None
  <1>2. CASE ConnectStartFails(t)
    BY <1>2 DEF ConnectStartFails, MakesClient, ResetsState, Clients, None
  <1>3. CASE ConnectThrows(t)
    BY <1>3 DEF ConnectThrows, MakesClient, Clients, None
  <1>4. CASE DisconnectLock(t)
    BY <1>4 DEF DisconnectLock
  <1>5. CASE ResetSkipsDisconnect(t)
    BY <1>5 DEF ResetSkipsDisconnect
  <1>6. CASE SendLock(t)
    BY <1>6 DEF SendLock
  <1>7. CASE DisconnectStop(t)
    BY <1>7 DEF DisconnectStop
  <1>8. CASE DisconnectDestroy(t)
    BY <1>8 DEF DisconnectDestroy
  <1>9. CASE DisconnectFinal(t)
    BY <1>9 DEF DisconnectFinal, AfterDisconnect
  <1>10. CASE DisconnectFallback(t)
    BY <1>10 DEF DisconnectFallback, AfterDisconnect
  <1>11. CASE ResetFinal(t)
    BY <1>11 DEF ResetFinal, ClearAll
  <1>12. CASE SendReturns(t)
    BY <1>12 DEF SendReturns
  <1>13. QED
    BY <1>1, <1>2, <1>3, <1>4, <1>5, <1>6, <1>7, <1>8, <1>9, <1>10, <1>11, <1>12
       DEF ThreadStep, ThreadFinishes

\* An event is raised and handled on the task of the running client.
LEMMA HandlerTask ==
    ASSUME TypeOK, ClientInv, HandlerInv, SetSink \/ TaskStep
    PROVE  HandlerInv'
  <1> USE DEF TypeOK, HandlerInv, Running, platform, nativeVars, handler, threadVars,
              ghosts
  <1>1. CASE SetSink
    BY <1>1 DEF SetSink
  <1>2. CASE NativeConnects
    BY <1>2 DEF NativeConnects, Raise, Clients
  <1>3. CASE NativeLoses
    BY <1>3 DEF NativeLoses, Raise
  <1>4. CASE NativeReceivesClose
    BY <1>4 DEF NativeReceivesClose, Raise
  <1>5. CASE NativeCloses
    BY <1>5 DEF NativeCloses, Raise
  <1>6. CASE NativeEnds
    BY <1>6 DEF NativeEnds, Clients
  <1>7. CASE HandleNativeEvent
    BY <1>7 DEF HandleNativeEvent
  <1>8. CASE HandleConnected
    BY <1>8 DEF HandleConnected
  <1>9. CASE HandleDisconnected
    BY <1>9 DEF HandleDisconnected
  <1>10. CASE RememberPeerClose
    BY <1>10 DEF RememberPeerClose
  <1>11. CASE NotifySink
    BY <1>11 DEF NotifySink
  <1>12. CASE CallbackReturns
    BY <1>12 DEF CallbackReturns
  <1>13. CASE CallbackResets
    BY <1>13 DEF CallbackResets, ClearAll
  <1>14. QED
    BY <1>1, <1>2, <1>3, <1>4, <1>5, <1>6, <1>7, <1>8, <1>9, <1>10, <1>11, <1>12, <1>13
       DEF TaskStep, Handles

\* The native task ends when it is told to; nobody else touches its client.
LEMMA ClientTask ==
    ASSUME TypeOK, ClientInv, HandlerInv, SetSink \/ TaskStep
    PROVE  ClientInv'
  <1> USE DEF TypeOK, ClientInv, Exists, Stopping, Running, platform, nativeVars,
              threadVars, ghosts
  <1>1. CASE NativeEnds
    BY <1>1 DEF NativeEnds
  <1>2. CASE ~NativeEnds
    <2>1. UNCHANGED <<client, native, disconnecting, made, tpc, thandle>>
      BY <1>2 DEF SetSink, TaskStep, NativeConnects, NativeLoses, NativeReceivesClose,
           NativeCloses, Handles, HandleNativeEvent, HandleConnected, HandleDisconnected,
           RememberPeerClose, NotifySink, CallbackReturns, CallbackResets, ClearAll
    <2>2. QED
      BY <2>1
  <1>3. QED
    BY <1>1, <1>2

-----------------------------------------------------------------------------
(* The credentials and the close code *)

\* A call of the platform fills the credentials for the client it makes, and
\* clears them when that client is destroyed.
LEMMA CredentialsThread ==
    ASSUME TypeOK, ClientInv, CredentialsOutliveClient,
           NEW t \in AppThreads, ThreadStep(t)
    PROVE  CredentialsOutliveClient'
  <1> USE DEF TypeOK, ClientInv, CredentialsOutliveClient, Exists, Stopping, platform,
              nativeVars, handler, threadVars, ghosts
  <1>1. CASE Connect(t)
    BY <1>1 DEF Connect, MakesClient, ResetsState, Clients, None
  <1>2. CASE ConnectStartFails(t)
    BY <1>2 DEF ConnectStartFails, MakesClient, ResetsState, Clients, None
  <1>3. CASE ConnectThrows(t)
    BY <1>3 DEF ConnectThrows, MakesClient, Clients, None
  <1>4. CASE DisconnectLock(t)
    BY <1>4 DEF DisconnectLock
  <1>5. CASE ResetSkipsDisconnect(t)
    BY <1>5 DEF ResetSkipsDisconnect
  <1>6. CASE SendLock(t)
    BY <1>6 DEF SendLock
  <1>7. CASE DisconnectStop(t)
    BY <1>7 DEF DisconnectStop
  <1>8. CASE DisconnectDestroy(t)
    BY <1>8 DEF DisconnectDestroy
  <1>9. CASE DisconnectFinal(t)
    BY <1>9 DEF DisconnectFinal, AfterDisconnect
  <1>10. CASE DisconnectFallback(t)
    BY <1>10 DEF DisconnectFallback, AfterDisconnect
  <1>11. CASE ResetFinal(t)
    BY <1>11 DEF ResetFinal, ClearAll
  <1>12. CASE SendReturns(t)
    BY <1>12 DEF SendReturns
  <1>13. QED
    BY <1>1, <1>2, <1>3, <1>4, <1>5, <1>6, <1>7, <1>8, <1>9, <1>10, <1>11, <1>12
       DEF ThreadStep, ThreadFinishes

\* The native task leaves them alone; a Reset from a callback is one beside a
\* running client.
LEMMA CredentialsTask ==
    ASSUME TypeOK, ClientInv, HandlerInv, CredentialsOutliveClient, SetSink \/ TaskStep
    PROVE  CredentialsOutliveClient'
  <1> USE DEF TypeOK, HandlerInv, CredentialsOutliveClient, Running, platform,
              nativeVars, ghosts
  <1>1. CASE NativeEnds
    BY <1>1 DEF NativeEnds
  <1>2. CASE CallbackResets
    BY <1>2 DEF CallbackResets, ClearAll
  <1>3. CASE ~NativeEnds /\ ~CallbackResets
    <2>1. UNCHANGED <<native, creds, stripped>>
      BY <1>3 DEF SetSink, TaskStep, NativeConnects, NativeLoses, NativeReceivesClose,
           NativeCloses, Handles, HandleNativeEvent, HandleConnected, HandleDisconnected,
           RememberPeerClose, NotifySink, CallbackReturns
    <2>2. QED
      BY <2>1
  <1>4. QED
    BY <1>1, <1>2, <1>3

\* A Connect forgets the close code; no other call changes it or a link.
LEMMA CloseThread ==
    ASSUME TypeOK, ClientInv, HandlerInv, CloseInv, NEW t \in AppThreads, ThreadStep(t)
    PROVE  CloseInv'
  <1> USE DEF TypeOK, HandlerInv, CloseInv, Pending, Running, platform, nativeVars,
              handler, threadVars, ghosts
  <1>1. CASE Connect(t)
    BY <1>1 DEF Connect, MakesClient, ResetsState
  <1>2. CASE ConnectStartFails(t)
    BY <1>2 DEF ConnectStartFails, MakesClient, ResetsState
  <1>3. CASE ConnectThrows(t)
    BY <1>3 DEF ConnectThrows, MakesClient
  <1>4. CASE DisconnectLock(t)
    BY <1>4 DEF DisconnectLock
  <1>5. CASE ResetSkipsDisconnect(t)
    BY <1>5 DEF ResetSkipsDisconnect
  <1>6. CASE SendLock(t)
    BY <1>6 DEF SendLock
  <1>7. CASE DisconnectStop(t)
    BY <1>7 DEF DisconnectStop
  <1>8. CASE DisconnectDestroy(t)
    BY <1>8 DEF DisconnectDestroy
  <1>9. CASE DisconnectFinal(t)
    BY <1>9 DEF DisconnectFinal, AfterDisconnect
  <1>10. CASE DisconnectFallback(t)
    BY <1>10 DEF DisconnectFallback, AfterDisconnect
  <1>11. CASE ResetFinal(t)
    BY <1>11 DEF ResetFinal, ClearAll
  <1>12. CASE SendReturns(t)
    BY <1>12 DEF SendReturns
  <1>13. QED
    BY <1>1, <1>2, <1>3, <1>4, <1>5, <1>6, <1>7, <1>8, <1>9, <1>10, <1>11, <1>12
       DEF ThreadStep, ThreadFinishes

\* A close code is noted of the present link and forgotten with the next one.
LEMMA CloseTask ==
    ASSUME TypeOK, HandlerInv, CloseInv, SetSink \/ TaskStep
    PROVE  CloseInv'
  <1> USE DEF TypeOK, HandlerInv, CloseInv, Pending, Running, platform, nativeVars,
              handler, threadVars, ghosts
  <1>1. CASE SetSink
    BY <1>1 DEF SetSink
  <1>2. CASE NativeConnects
    BY <1>2 DEF NativeConnects, Raise
  <1>3. CASE NativeLoses
    BY <1>3 DEF NativeLoses, Raise
  <1>4. CASE NativeReceivesClose
    BY <1>4 DEF NativeReceivesClose, Raise
  <1>5. CASE NativeCloses
    BY <1>5 DEF NativeCloses, Raise
  <1>6. CASE NativeEnds
    BY <1>6 DEF NativeEnds
  <1>7. CASE HandleNativeEvent
    BY <1>7 DEF HandleNativeEvent
  <1>8. CASE HandleConnected
    BY <1>8 DEF HandleConnected
  <1>9. CASE HandleDisconnected
    BY <1>9 DEF HandleDisconnected
  <1>10. CASE RememberPeerClose
    BY <1>10 DEF RememberPeerClose
  <1>11. CASE NotifySink
    BY <1>11 DEF NotifySink
  <1>12. CASE CallbackReturns
    BY <1>12 DEF CallbackReturns
  <1>13. CASE CallbackResets
    BY <1>13 DEF CallbackResets, ClearAll
  <1>14. QED
    BY <1>1, <1>2, <1>3, <1>4, <1>5, <1>6, <1>7, <1>8, <1>9, <1>10, <1>11, <1>12, <1>13
       DEF TaskStep, Handles

-----------------------------------------------------------------------------
(* What the sink hears *)

\* A Disconnect leaves the platform disconnected and its owner notified.
LEMMA NotifiedThread ==
    ASSUME TypeOK, ClientInv, HandlerInv, NotifiedInv,
           NEW t \in AppThreads, ThreadStep(t)
    PROVE  NotifiedInv'
  <1> USE DEF TypeOK, ClientInv, HandlerInv, NotifiedInv, Exists, Pending, Stopping,
              Running, platform, nativeVars, handler, threadVars, ghosts
  <1>1. CASE Connect(t)
    BY <1>1 DEF Connect, MakesClient, ResetsState, None
  <1>2. CASE ConnectStartFails(t)
    BY <1>2 DEF ConnectStartFails, MakesClient, ResetsState, None
  <1>3. CASE ConnectThrows(t)
    BY <1>3 DEF ConnectThrows, MakesClient, None
  <1>4. CASE DisconnectLock(t)
    BY <1>4 DEF DisconnectLock
  <1>5. CASE ResetSkipsDisconnect(t)
    BY <1>5 DEF ResetSkipsDisconnect
  <1>6. CASE SendLock(t)
    BY <1>6 DEF SendLock
  <1>7. CASE DisconnectStop(t)
    BY <1>7 DEF DisconnectStop
  <1>8. CASE DisconnectDestroy(t)
    BY <1>8 DEF DisconnectDestroy
  <1>9. CASE DisconnectFinal(t)
    BY <1>9 DEF DisconnectFinal, AfterDisconnect
  <1>10. CASE DisconnectFallback(t)
    BY <1>10 DEF DisconnectFallback, AfterDisconnect
  <1>11. CASE ResetFinal(t)
    BY <1>11 DEF ResetFinal, ClearAll
  <1>12. CASE SendReturns(t)
    BY <1>12 DEF SendReturns
  <1>13. QED
    BY <1>1, <1>2, <1>3, <1>4, <1>5, <1>6, <1>7, <1>8, <1>9, <1>10, <1>11, <1>12
       DEF ThreadStep, ThreadFinishes

\* A Connected event undoes that, unless it comes in the middle of a Disconnect.
LEMMA NotifiedTask ==
    ASSUME TypeOK, ClientInv, HandlerInv, NotifiedInv, SetSink \/ TaskStep
    PROVE  NotifiedInv'
  <1> USE DEF TypeOK, HandlerInv, NotifiedInv, Pending, Stopping, Running, platform,
              nativeVars, handler, threadVars, ghosts
  <1>1. CASE SetSink
    BY <1>1 DEF SetSink
  <1>2. CASE NativeConnects
    BY <1>2 DEF NativeConnects, Raise, None
  <1>3. CASE NativeLoses
    BY <1>3 DEF NativeLoses, Raise
  <1>4. CASE NativeReceivesClose
    BY <1>4 DEF NativeReceivesClose, Raise
  <1>5. CASE NativeCloses
    BY <1>5 DEF NativeCloses, Raise
  <1>6. CASE NativeEnds
    BY <1>6 DEF NativeEnds
  <1>7. CASE HandleNativeEvent
    BY <1>7 DEF HandleNativeEvent
  <1>8. CASE HandleConnected
    <2>1. CASE client = None \/ connection = None
      BY <1>8, <2>1 DEF HandleConnected
    <2>2. CASE client # None /\ connection # None
      <3>1. /\ connected' = TRUE /\ notified' = FALSE /\ epc' = "notify"
            /\ UNCHANGED <<client, native, link, tpc, twas>>
            /\ late' = (late \/ \E t \in AppThreads : Stopping(t) /\ ~twas[t])
        BY <1>8, <2>2 DEF HandleConnected
      <3>2. ~late' => \A t \in AppThreads : ~(Stopping(t) /\ ~twas[t])
        BY <3>1
      <3>3. QED
        BY <1>8, <2>2, <3>1, <3>2 DEF HandleConnected
    <2>3. QED
      BY <2>1, <2>2
  <1>9. CASE HandleDisconnected
    BY <1>9 DEF HandleDisconnected
  <1>10. CASE RememberPeerClose
    BY <1>10 DEF RememberPeerClose
  <1>11. CASE NotifySink
    BY <1>11 DEF NotifySink
  <1>12. CASE CallbackReturns
    BY <1>12 DEF CallbackReturns
  <1>13. CASE CallbackResets
    BY <1>13 DEF CallbackResets, ClearAll
  <1>14. QED
    BY <1>1, <1>2, <1>3, <1>4, <1>5, <1>6, <1>7, <1>8, <1>9, <1>10, <1>11, <1>12, <1>13
       DEF TaskStep, Handles

\* A Disconnect that no event has announced tells the sink itself.
LEMMA HeardThread ==
    ASSUME TypeOK, ClientInv, HandlerInv, NotifiedInv, HeardInv,
           NEW t \in AppThreads, ThreadStep(t)
    PROVE  HeardInv'
  <1> USE DEF TypeOK, ClientInv, HandlerInv, NotifiedInv, HeardInv, Exists, Stopping,
              Running, platform, nativeVars, handler, threadVars, ghosts
  <1>1. CASE Connect(t)
    BY <1>1 DEF Connect, MakesClient, ResetsState
  <1>2. CASE ConnectStartFails(t)
    BY <1>2 DEF ConnectStartFails, MakesClient, ResetsState
  <1>3. CASE ConnectThrows(t)
    BY <1>3 DEF ConnectThrows, MakesClient
  <1>4. CASE DisconnectLock(t)
    BY <1>4 DEF DisconnectLock
  <1>5. CASE ResetSkipsDisconnect(t)
    BY <1>5 DEF ResetSkipsDisconnect
  <1>6. CASE SendLock(t)
    BY <1>6 DEF SendLock
  <1>7. CASE DisconnectStop(t)
    BY <1>7 DEF DisconnectStop
  <1>8. CASE DisconnectDestroy(t)
    BY <1>8 DEF DisconnectDestroy
  <1>9. CASE DisconnectFinal(t)
    BY <1>9 DEF DisconnectFinal, AfterDisconnect
  <1>10. CASE DisconnectFallback(t)
    BY <1>10 DEF DisconnectFallback, AfterDisconnect
  <1>11. CASE ResetFinal(t)
    BY <1>11 DEF ResetFinal, ClearAll
  <1>12. CASE SendReturns(t)
    BY <1>12 DEF SendReturns
  <1>13. QED
    BY <1>1, <1>2, <1>3, <1>4, <1>5, <1>6, <1>7, <1>8, <1>9, <1>10, <1>11, <1>12
       DEF ThreadStep, ThreadFinishes

\* An event tells the sink what it has not heard.
LEMMA HeardTask ==
    ASSUME TypeOK, HandlerInv, NotifiedInv, HeardInv, SetSink \/ TaskStep
    PROVE  HeardInv'
  <1> USE DEF TypeOK, HandlerInv, NotifiedInv, HeardInv, Pending, Running, platform,
              nativeVars, handler, threadVars, ghosts
  <1>1. CASE SetSink
    BY <1>1 DEF SetSink
  <1>2. CASE NativeConnects
    BY <1>2 DEF NativeConnects, Raise
  <1>3. CASE NativeLoses
    BY <1>3 DEF NativeLoses, Raise
  <1>4. CASE NativeReceivesClose
    BY <1>4 DEF NativeReceivesClose, Raise
  <1>5. CASE NativeCloses
    BY <1>5 DEF NativeCloses, Raise
  <1>6. CASE NativeEnds
    BY <1>6 DEF NativeEnds
  <1>7. CASE HandleNativeEvent
    BY <1>7 DEF HandleNativeEvent
  <1>8. CASE HandleConnected
    BY <1>8 DEF HandleConnected
  <1>9. CASE HandleDisconnected
    BY <1>9 DEF HandleDisconnected
  <1>10. CASE RememberPeerClose
    BY <1>10 DEF RememberPeerClose
  <1>11. CASE NotifySink
    BY <1>11 DEF NotifySink
  <1>12. CASE CallbackReturns
    BY <1>12 DEF CallbackReturns
  <1>13. CASE CallbackResets
    BY <1>13 DEF CallbackResets, ClearAll
  <1>14. QED
    BY <1>1, <1>2, <1>3, <1>4, <1>5, <1>6, <1>7, <1>8, <1>9, <1>10, <1>11, <1>12, <1>13
       DEF TaskStep, Handles

-----------------------------------------------------------------------------
(* The inductive invariant *)

\* Every step preserves the invariant.
LEMMA InvNext == Inv /\ Next => Inv'
  <1>1. ASSUME Inv, Next PROVE TypeOK'
    <2>1. Flags' /\ Values'
      BY <1>1, TypeParts, FlagsNext, ValuesThread, ValuesTask DEF Inv, Next
    <2>2. QED
      BY <2>1 DEF TypeOK, Flags, Values
  <1>2. ASSUME Inv, NEW t \in AppThreads, ThreadStep(t) PROVE Inv'
    <2>1. TypeOK'
      BY <1>1, <1>2 DEF Next
    <2>2. ClientInv' /\ HandlerInv' /\ CredentialsOutliveClient' /\ CloseInv'
      BY <1>2, ClientThread, HandlerThread, CredentialsThread, CloseThread DEF Inv
    <2>3. NotifiedInv' /\ HeardInv'
      BY <1>2, NotifiedThread, HeardThread DEF Inv
    <2>4. QED
      BY <2>1, <2>2, <2>3 DEF Inv
  <1>3. ASSUME Inv, SetSink \/ TaskStep PROVE Inv'
    <2>1. TypeOK'
      BY <1>1, <1>3 DEF Next
    <2>2. ClientInv' /\ HandlerInv' /\ CredentialsOutliveClient' /\ CloseInv'
      BY <1>3, ClientTask, HandlerTask, CredentialsTask, CloseTask DEF Inv
    <2>3. NotifiedInv' /\ HeardInv'
      BY <1>3, NotifiedTask, HeardTask DEF Inv
    <2>4. QED
      BY <2>1, <2>2, <2>3 DEF Inv
  <1>4. QED
    BY <1>2, <1>3 DEF Next

\* Nothing happens in a stuttering step.
LEMMA InvStutter == Inv /\ UNCHANGED vars => Inv'
  <1> SUFFICES ASSUME Inv, UNCHANGED vars PROVE Inv'
    OBVIOUS
  <1> USE DEF vars, platform, nativeVars, handler, threadVars, ghosts
  <1>1. Flags' /\ Values'
    BY TypeParts DEF Inv, Flags, Values, Stopping
  <1>2. TypeOK'
    BY <1>1 DEF TypeOK, Flags, Values
  <1>3. ClientInv' /\ HandlerInv' /\ CredentialsOutliveClient' /\ CloseInv'
    BY DEF Inv, ClientInv, HandlerInv, CredentialsOutliveClient, CloseInv, Exists,
           Pending, Stopping, Running
  <1>4. NotifiedInv' /\ HeardInv'
    BY DEF Inv, NotifiedInv, HeardInv, Pending, Stopping, Running
  <1>5. QED
    BY <1>2, <1>3, <1>4 DEF Inv

\* Every reachable state satisfies the invariant.
THEOREM Invariant == Spec => []Inv
  BY InitInv, InvNext, InvStutter, PTL DEF Spec

-----------------------------------------------------------------------------
(* The properties *)

\* The state is well typed: every handle a thread uses after the unlock is one
\* that Connect has stored.
THEOREM TypeCorrect == Spec => []TypeOK
  <1>1. Inv => TypeOK
    BY DEF Inv
  <1>2. QED
    BY Invariant, <1>1, PTL

\* However many threads call Disconnect, no native client is destroyed twice or
\* stopped after it has been destroyed.
THEOREM OneDestroy == Spec => []DestroyedOnce
  <1>1. Inv => DestroyedOnce
    BY DEF Inv, ClientInv, DestroyedOnce, Exists, Stopping
  <1>2. QED
    BY Invariant, <1>1, PTL

\* A Disconnect made in a callback of the sink is always recognised as made on
\* the native task, so the task never waits for its own end.
THEOREM NoSelfWait == Spec => []CallbackIsRecognised
  <1>1. Inv => CallbackIsRecognised
    BY DEF Inv, HandlerInv, CallbackIsRecognised
  <1>2. QED
    BY Invariant, <1>1, PTL

\* The native client's pointers into the credential buffers stay good, unless a
\* Reset ran to its end beside a running client.
THEOREM CredentialsStay == Spec => []CredentialsOutliveClient
  <1>1. Inv => CredentialsOutliveClient
    BY DEF Inv
  <1>2. QED
    BY Invariant, <1>1, PTL

\* No close code of an earlier link is reported for a later one.
THEOREM NoForeignCloseCode == Spec => []CloseCodeIsOwn
  <1>1. Inv => CloseCodeIsOwn
    BY DEF Inv, CloseInv, CloseCodeIsOwn, Pending
  <1>2. QED
    BY Invariant, <1>1, PTL

\* The sink's last notification agrees with IsConnected whenever none is on its
\* way, under the provisos of the property.
THEOREM SinkIsTold == Spec => []SinkAgrees
  <1>1. Inv => SinkAgrees
    <2>1. ASSUME Inv, sink, ~crossed, ~late, epc \in {"idle", "raised", "callback"},
                 \A t \in AppThreads : tpc[t] # "fallback"
          PROVE  heard = "connected" <=> connected
      BY <2>1 DEF Inv, HeardInv
    <2>2. Inv => connected \in BOOLEAN
      BY DEF Inv, TypeOK
    <2>3. QED
      BY <2>1, <2>2 DEF SinkAgrees
  <1>2. QED
    BY Invariant, <1>1, PTL

\* The sink hears Connected and Disconnected in turn, under the same provisos.
THEOREM SinkHearsInTurn == Spec => NotificationsAlternate
  <1>1. ASSUME Inv, NotifySink /\ tellSink
        PROVE  \/ crossed \/ late
               \/ heard' = "connected" /\ heard # "connected"
               \/ heard' = "disconnected" /\ heard = "connected"
    BY <1>1 DEF Inv, HeardInv, NotifySink
  <1>2. ASSUME Inv, NEW t \in AppThreads, DisconnectFallback(t)
        PROVE  \/ crossed \/ late
               \/ heard' = "disconnected" /\ heard = "connected"
    BY <1>2 DEF Inv, HeardInv, DisconnectFallback
  <1>3. Inv =>
          ((NotifySink /\ tellSink) \/ (\E t \in AppThreads : DisconnectFallback(t))
             => \/ crossed \/ late
                \/ heard' = "connected" /\ heard # "connected"
                \/ heard' = "disconnected" /\ heard = "connected")
    BY <1>1, <1>2
  <1>4. QED
    BY Invariant, <1>3, PTL DEF Spec, NotificationsAlternate

-----------------------------------------------------------------------------
(* What holds without a proviso *)

\* There is one native client at a time, the one in _client, and it runs as long
\* as an event of it is being handled: a Connect never makes a second client
\* beside one that is not yet destroyed, and a Disconnect that waits for the end
\* of the native task does not destroy the client under its handler.
OneClientAtATime ==
    /\ \A c, d \in Clients : Exists(c) /\ Exists(d) => c = d
    /\ epc # "idle" => client # None /\ native[client] = "running"

\* However Connect, Disconnect, Reset and the native task interleave.
THEOREM NoSecondClient == Spec => []OneClientAtATime
  <1>1. Inv => \A c, d \in Clients : Exists(c) /\ Exists(d) => c = d
    BY DEF Inv, ClientInv
  <1>2. Inv => (epc # "idle" => client # None /\ native[client] = "running")
    BY DEF Inv, HandlerInv, Running
  <1>3. Inv => OneClientAtATime
    BY <1>1, <1>2 DEF OneClientAtATime
  <1>4. QED
    BY Invariant, <1>3, PTL

=============================================================================
