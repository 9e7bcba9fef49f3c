------------------------ MODULE WebSocketConnection ------------------------
(***************************************************************************)
(* A connection of the WebSocket endpoint                                  *)
(* (ESPressio_WebSocketEndpointPlatform.hpp), seen from one descriptor of  *)
(* the HTTP server that several clients use in turn.  The HTTPD task       *)
(* accepts, upgrades, hands frames to the endpoint, runs queued work and   *)
(* ends sessions; application threads hold connection objects (Broadcast,  *)
(* CloseAll) and send or close through them.  The connection object has    *)
(* the number of the session it was made for.  Everything native finds its *)
(* session by the descriptor alone, so what was asked for one client can   *)
(* reach the next.                                                         *)
(*                                                                         *)
(* HTTPD runs one request, one work item or one end of session at a time.  *)
(* A frame carries `size` units of payload, each the number of the frame   *)
(* since the start; text and binary are not told apart.                    *)
(***************************************************************************)
EXTENDS Integers, Sequences

CONSTANTS
    MaxMessage,   \* ESPRESSIO_ESP32_WEBSOCKET_MAX_MESSAGE_BYTES, in units
    MaxSessions,  \* bound: clients that get the descriptor
    MaxFrames,    \* bound: frames that the endpoint handles
    MaxCalls      \* bound: calls of Broadcast and CloseAll, each free to be on a
                  \*   thread of its own

ASSUME MessageAssumption == MaxMessage \in Nat
ASSUME BoundsAssumption ==
    MaxSessions \in Nat /\ MaxFrames \in Nat /\ MaxCalls \in Nat

VARIABLES
    session,      \* the session that has the descriptor, 0 if none
    upgraded,     \* HTTPD says HTTPD_WS_CLIENT_WEBSOCKET of it
    work,         \* HTTPD's queue of work, each item bound to the descriptor
    table,        \* the connection in _connections, 0 if none
    ending,       \* the connection whose OnHttpSessionClosed is under way
    open,         \* _open of every connection
    code,         \* _closeCode: "none" (1006), "local" or "peer"
    fragmenting,  \* _fragmenting of the present connection
    buffer,       \* its _fragmentBuffer
    call,         \* where every call is, and to which connection
    accepted,     \* history: sessions so far
    handled,      \* history: frames so far
    calls,        \* history: calls so far
    message,      \* history: what the peer has sent of its present message
    composing,    \* history: the peer is inside a fragmented message
    garbled,      \* history: a payload was left in the stream of this session
    faithful,     \* history: so far the sink saw the peer's messages within the
                  \*   limit, each when its last frame had come, and nothing else
    written,      \* history: connections whose own close frame went out to them
    reports,      \* history: the reason each session was reported closed with
    stranded      \* history: a Close of this session ran out of memory, or HTTPD
                  \*   refused to end it

native  == <<session, upgraded, work>>
objects == <<table, ending, open, code>>
reading == <<fragmenting, buffer, message, composing, garbled, faithful>>
log     == <<accepted, handled, calls, written, reports>>
history == <<log, stranded>>
vars    == <<native, objects, reading, call, history>>

Connections == 1 .. MaxSessions
AppCalls    == 1 .. MaxCalls
Idle == [at |-> "idle", conn |-> 0, kind |-> "data", asked |-> 0]

DataFrames == [type : {"data", "continue"}, final : BOOLEAN, size : 0 .. MaxMessage + 1]
Item(kind, c, asked) == [kind |-> kind, conn |-> c, asked |-> asked]

\* The connection a frame is for: found by its descriptor, or recovered.
Found == IF table # 0 THEN table ELSE session

\* httpd_sess_trigger_close: queued as work when the descriptor has a session and
\* the queue takes it; no caller looks at the result.
Trigger(queue, c, asked) ==
    \/ /\ work' = IF session # 0 THEN Append(queue, Item("end", c, asked)) ELSE queue
       /\ UNCHANGED stranded
    \/ session # 0 /\ work' = queue /\ stranded' = (stranded \/ c = session)

\* The session is over, and what its connection had of a message is gone.
Over ==
    /\ session' = 0 /\ upgraded' = FALSE /\ stranded' = FALSE
    /\ fragmenting' = FALSE /\ buffer' = <<>>
    /\ message' = <<>> /\ composing' = FALSE /\ garbled' = FALSE /\ faithful' = TRUE

-----------------------------------------------------------------------------
(* Mutations: plausible mistakes in the code.  No specification uses them.    *)

\* The close code goes into the frame only.
CloseSetCodeNowhere(t) ==
    /\ call[t].at = "claimed"
    /\ call' = [call EXCEPT ![t].at = "lookup"]
    /\ UNCHANGED <<native, objects, reading, history>>

\* A close frame that cannot be queued is given up without closing the session.
QueueRejectedGivesUp(t) ==
    /\ call[t].at = "queue"
    /\ call' = [call EXCEPT ![t] = Idle]
    /\ UNCHANGED <<native, objects, reading, history>>

\* A session that ends forgets its connection without marking it closed.
ReportClosedKeepsOpen ==
    /\ ending # 0
    /\ reports' = [reports EXCEPT ![ending] = code[ending]]
    /\ ending' = 0 /\ Over
    /\ UNCHANGED <<work, table, open, code, call, accepted, handled, calls, written>>

\* The last fragment leaves _fragmenting set.
AccumulateKeepsFragmenting(f, payload) ==
    IF f.type = "data"
    THEN [ok |-> ~fragmenting, done |-> ~fragmenting /\ f.final,
          fragmenting |-> fragmenting \/ ~f.final,
          buffer |-> IF fragmenting \/ f.final THEN buffer ELSE payload, out |-> payload]
    ELSE [ok |-> fragmenting, done |-> fragmenting /\ f.final, fragmenting |-> fragmenting,
          buffer |-> IF f.final THEN <<>> ELSE buffer \o payload, out |-> buffer \o payload]

-----------------------------------------------------------------------------
Init ==
    /\ session = 0 /\ upgraded = FALSE /\ work = <<>>
    /\ table = 0 /\ ending = 0
    /\ open = [c \in Connections |-> TRUE]
    /\ code = [c \in Connections |-> "none"]
    /\ fragmenting = FALSE /\ buffer = <<>>
    /\ call = [t \in AppCalls |-> Idle]
    /\ accepted = 0 /\ handled = 0 /\ calls = 0
    /\ message = <<>> /\ composing = FALSE /\ garbled = FALSE
    /\ faithful = TRUE
    /\ written = {} /\ stranded = FALSE
    /\ reports = [c \in Connections |-> "no"]

-----------------------------------------------------------------------------
(* Sessions, on the HTTPD task *)

\* A client gets the descriptor.
Accept ==
    /\ session = 0 /\ accepted < MaxSessions
    /\ accepted' = accepted + 1 /\ session' = accepted + 1
    /\ UNCHANGED <<upgraded, work, objects, reading, call, handled, calls, written,
                   reports, stranded>>

\* The handshake; versions of ESP-IDF differ in whether the URI handler is
\* called for it, which is what makes the connection known (lines 521-539).
Upgrade ==
    /\ session # 0 /\ ending = 0 /\ ~upgraded
    /\ upgraded' = TRUE
    /\ table' \in {0, session}
    /\ UNCHANGED <<session, work, ending, open, code, reading, call, history>>

\* OnHttpSessionClosed takes the connection off the table ...
TakeOffTable ==
    IF table = 0 THEN Over /\ UNCHANGED <<table, ending>>
    ELSE ending' = table /\ table' = 0 /\ UNCHANGED <<session, upgraded, reading, stranded>>

SessionEnds ==
    /\ session # 0 /\ ending = 0
    /\ TakeOffTable
    /\ UNCHANGED <<work, open, code, call, log>>

\* ... then marks it closed and reports the reason; the descriptor is free.
ReportClosed ==
    /\ ending # 0
    /\ open' = [open EXCEPT ![ending] = FALSE]
    /\ reports' = [reports EXCEPT ![ending] = code[ending]]
    /\ ending' = 0 /\ Over
    /\ UNCHANGED <<work, table, code, call, accepted, handled, calls, written>>

-----------------------------------------------------------------------------
(* HandleWebSocketRequest, on the HTTPD task *)

\* A frame of the present session reaches the endpoint.
FrameArrives ==
    /\ session # 0 /\ upgraded /\ ending = 0 /\ handled < MaxFrames
    /\ handled' = handled + 1
    /\ table' = Found

\* Close, called by the handler: only the first one queues a close frame, and
\* when that is refused asks for the end of the session.
CloseOnTask(c) ==
    IF open[c]
    THEN /\ open' = [open EXCEPT ![c] = FALSE]
         /\ code' = [code EXCEPT ![c] = "local"]
         /\ \/ work' = Append(work, Item("close", c, session)) /\ UNCHANGED stranded
            \/ Trigger(work, c, session)
    ELSE UNCHANGED <<open, code, work, stranded>>

\* The connection cannot be made: the handler fails and HTTPD ends the session.
RecoveryFails ==
    /\ session # 0 /\ upgraded /\ ending = 0 /\ table = 0
    /\ Over
    /\ UNCHANGED <<work, objects, call, log>>

\* A payload over the limit is refused unread and stays in the stream.
HandleOversized ==
    /\ FrameArrives
    /\ garbled' = TRUE
    /\ CloseOnTask(Found)
    /\ UNCHANGED <<session, upgraded, ending, fragmenting, buffer, message, composing,
                   faithful, call, accepted, calls, written, reports>>

\* A ping is answered within the handler; a pong is only noted.
HandlePing ==
    /\ FrameArrives
    /\ UNCHANGED <<native, ending, open, code, reading, call, accepted, calls, written,
                   stranded, reports>>

\* RememberPeerClose, the echo, and the request to end the session.
HandlePeerClose ==
    /\ FrameArrives
    /\ open' = [open EXCEPT ![Found] = FALSE]
    /\ code' = [code EXCEPT ![Found] = "peer"]
    /\ Trigger(work, Found, session)
    /\ UNCHANGED <<session, upgraded, ending, reading, call, accepted, calls, written,
                   reports>>

\* AccumulateFragment: what becomes of the buffer, and the message if it is done.
AccumulateFragment(f, payload) ==
    IF f.type = "data"
    THEN [ok |-> ~fragmenting, done |-> ~fragmenting /\ f.final,
          fragmenting |-> fragmenting \/ ~f.final,
          buffer |-> IF fragmenting \/ f.final THEN buffer ELSE payload, out |-> payload]
    ELSE LET fits == Len(buffer) + Len(payload) <= MaxMessage
             good == fragmenting /\ fits
         IN  [ok |-> good, done |-> good /\ f.final,
              fragmenting |-> good /\ ~f.final,
              buffer |-> IF good /\ ~f.final THEN buffer \o payload
                         ELSE IF fragmenting THEN <<>> ELSE buffer,
              out |-> buffer \o payload]

\* A data frame is accumulated; a completed message goes to the sink, also when
\* the connection has been closed meanwhile; a refused one closes it.  Any frame
\* may follow any other.  For the reference, a new message inside one that is
\* within the limit is a stray frame, and a continuation outside a message an
\* orphan: both are dropped and leave the peer's message as it was.
HandleData(f) ==
    /\ FrameArrives
    /\ f.size <= MaxMessage
    /\ LET stray   == f.type = "data" /\ composing /\ Len(message) <= MaxMessage
           orphan  == f.type = "continue" /\ ~composing
           units   == [i \in 1 .. f.size |-> handled]
           whole   == IF f.type = "data" THEN units ELSE message \o units
           due     == ~stray /\ ~orphan /\ f.final /\ Len(whole) <= MaxMessage
           result  == AccumulateFragment(f, units)
       IN  /\ fragmenting' = result.fragmenting /\ buffer' = result.buffer
           /\ faithful' = (faithful /\ result.done = due /\ (due => result.out = whole))
           /\ IF stray \/ orphan THEN UNCHANGED <<message, composing>>
              ELSE /\ composing' = ~f.final
                   /\ message' = IF f.final THEN <<>> ELSE whole
           /\ IF result.ok THEN UNCHANGED <<open, code, work, stranded>>
              ELSE CloseOnTask(Found)
    /\ UNCHANGED <<session, upgraded, ending, garbled, call, accepted, calls, written,
                   reports>>

-----------------------------------------------------------------------------
(* HTTPD's queue of work *)

\* The frame is written to whoever has the descriptor; SendCompleted asks for
\* the end of that session after a close frame.
RunSend ==
    /\ ending = 0 /\ work # <<>> /\ Head(work).kind # "end"
    /\ LET item == Head(work)
           mine == item.kind = "close" /\ session = item.conn /\ upgraded
       IN  /\ IF item.kind = "close" THEN Trigger(Tail(work), item.conn, item.asked)
              ELSE work' = Tail(work) /\ UNCHANGED stranded
           /\ written' = IF mine THEN written \cup {item.conn} ELSE written
    /\ UNCHANGED <<session, upgraded, objects, reading, call, accepted, handled, calls,
                   reports>>

RunEnd ==
    /\ ending = 0 /\ work # <<>> /\ Head(work).kind = "end"
    /\ work' = Tail(work)
    /\ IF session # 0 THEN TakeOffTable
       ELSE UNCHANGED <<session, upgraded, table, ending, reading, stranded>>
    /\ UNCHANGED <<open, code, call, log>>

-----------------------------------------------------------------------------
(* Broadcast and CloseAll, on application threads *)

\* SnapshotConnections: the call now holds the connection, however long.
Snapshot(t) ==
    /\ t = calls + 1 /\ table # 0
    /\ calls' = t
    /\ call' = [call EXCEPT ![t] = [Idle EXCEPT !.at = "held", !.conn = table]]
    /\ UNCHANGED <<native, objects, reading, accepted, handled, written, stranded, reports>>

\* SendBinary, SendText: past both checks of _open.
SendCheck(t) ==
    /\ call[t].at = "held" /\ open[call[t].conn]
    /\ call' = [call EXCEPT ![t].at = "lookup", ![t].asked = session]
    /\ UNCHANGED <<native, objects, reading, history>>

\* A send to a closed connection, and every Close after the first.
FindsClosed(t) ==
    /\ call[t].at = "held" /\ ~open[call[t].conn]
    /\ call' = [call EXCEPT ![t] = Idle]
    /\ UNCHANGED <<native, objects, reading, history>>

\* Close: the call that turns _open off is the one that closes.
CloseClaim(t) ==
    /\ call[t].at = "held" /\ open[call[t].conn]
    /\ open' = [open EXCEPT ![call[t].conn] = FALSE]
    /\ call' = [call EXCEPT ![t].at = "claimed", ![t].kind = "close", ![t].asked = session]
    /\ UNCHANGED <<native, table, ending, code, reading, history>>

CloseSetCode(t) ==
    /\ call[t].at = "claimed"
    /\ code' = [code EXCEPT ![call[t].conn] = "local"]
    /\ call' = [call EXCEPT ![t].at = "lookup"]
    /\ UNCHANGED <<native, table, ending, open, reading, history>>

\* The reason or the frame cannot be allocated: the exception leaves Close with
\* the connection marked closed and nothing queued.
CloseThrows(t) ==
    /\ call[t].at = "lookup" /\ call[t].kind = "close"
    /\ stranded' = (stranded \/ call[t].conn = session)
    /\ call' = [call EXCEPT ![t] = Idle]
    /\ UNCHANGED <<native, objects, reading, accepted, handled, calls, written, reports>>

\* QueueOwnedFrame asks HTTPD about the descriptor ...
LookUp(t) ==
    /\ call[t].at = "lookup"
    /\ call' = [call EXCEPT ![t] =
                   IF session # 0 /\ upgraded THEN [@ EXCEPT !.at = "queue"]
                   ELSE IF @.kind = "close" THEN [@ EXCEPT !.at = "trigger"] ELSE Idle]
    /\ UNCHANGED <<native, objects, reading, history>>

\* ... and queues the frame for it.
QueueFrame(t) ==
    /\ call[t].at = "queue"
    /\ work' = Append(work, Item(call[t].kind, call[t].conn, call[t].asked))
    /\ call' = [call EXCEPT ![t] = Idle]
    /\ UNCHANGED <<session, upgraded, objects, reading, history>>

\* No memory for the operation, or HTTPD does not take it.
QueueRejected(t) ==
    /\ call[t].at = "queue"
    /\ call' = [call EXCEPT ![t] =
                   IF @.kind = "close" THEN [@ EXCEPT !.at = "trigger"] ELSE Idle]
    /\ UNCHANGED <<native, objects, reading, history>>

\* Close falls back on ending the session.
TriggerClose(t) ==
    /\ call[t].at = "trigger"
    /\ Trigger(work, call[t].conn, call[t].asked)
    /\ call' = [call EXCEPT ![t] = Idle]
    /\ UNCHANGED <<session, upgraded, objects, reading, accepted, handled, calls, written,
                   reports>>

-----------------------------------------------------------------------------
HttpdStep ==
    \/ Accept \/ Upgrade \/ SessionEnds \/ ReportClosed
    \/ RecoveryFails \/ HandleOversized \/ HandlePing \/ HandlePeerClose
    \/ \E f \in DataFrames : HandleData(f)
    \/ RunSend \/ RunEnd

CallGoesOn(t) ==
    \/ CloseSetCode(t) \/ CloseThrows(t) \/ LookUp(t)
    \/ QueueFrame(t) \/ QueueRejected(t) \/ TriggerClose(t)

AppStep(t) ==
    \/ Snapshot(t) \/ SendCheck(t) \/ FindsClosed(t) \/ CloseClaim(t)
    \/ CallGoesOn(t)

Next == HttpdStep \/ \E t \in AppCalls : AppStep(t)

Spec == Init /\ [][Next]_vars

\* A call inside the endpoint goes on, and HTTPD, a running task, gets round to
\* its queue of work and finishes the end of a session.
FairSpec ==
    /\ Spec
    /\ WF_vars(ReportClosed) /\ WF_vars(RunSend \/ RunEnd)
    /\ \A t \in AppCalls : WF_vars(CallGoesOn(t))

-----------------------------------------------------------------------------
(* Properties *)

\* Type invariant.
TypeOK ==
    /\ session \in 0 .. MaxSessions /\ upgraded \in BOOLEAN
    /\ work \in Seq([kind : {"data", "close", "end"}, conn : Connections,
                     asked : 0 .. MaxSessions])
    /\ table \in {0, session} /\ ending \in {0, session}
    /\ open \in [Connections -> BOOLEAN]
    /\ code \in [Connections -> {"none", "local", "peer"}]
    /\ fragmenting \in BOOLEAN /\ Len(buffer) <= MaxMessage
    /\ call \in [AppCalls ->
           [at : {"idle", "held", "claimed", "lookup", "queue", "trigger"},
            conn : 0 .. MaxSessions, kind : {"data", "close"}, asked : 0 .. MaxSessions]]
    /\ accepted \in 0 .. MaxSessions /\ handled \in 0 .. MaxFrames /\ calls \in 0 .. MaxCalls
    /\ composing \in BOOLEAN /\ garbled \in BOOLEAN
    /\ written \subseteq Connections /\ stranded \in BOOLEAN
    /\ reports \in [Connections -> {"no", "none", "local", "peer"}]

\* Everything in HTTPD's queue was asked for while its own session had the
\* descriptor: a connection whose end was reported (line 769) lets nothing
\* through, so only what was under way when the session ended can reach the
\* next client (lines 346-404, 299).
AskedOfOwnSession ==
    \A i \in DOMAIN work : work[i].asked = work[i].conn

\* A session that was sent this side's close frame is never reported as lost
\* without a reason (1006): the reason is stored before the frame is queued,
\* and whoever stores one later stores a real one (lines 144-166, 192-195, 772).
CloseReasonKnown ==
    \A c \in written : reports[c] # "none"

\* Until a frame over the limit has upset the stream, the sink sees exactly the
\* peer's messages within the limit, each whole and once, in order, in whatever
\* order the peer sends its frames: a stray data frame or an orphan continuation
\* is dropped and disturbs no message, and after a message over the limit the
\* next one is delivered (lines 206-261, 541-557, 673-746).
DeliversMessages ==
    garbled \/ faithful

\* A connection that is closed, by either side, loses its session: a close frame
\* that cannot be queued is replaced by a request to end the session (lines
\* 168-176, 299, 670).  The two ways in which it stays are a Close that ran out
\* of memory and a request that HTTPD refused, which nobody repeats.
CloseTakesEffect ==
    (session # 0 /\ ~open[session]) ~> (session = 0 \/ stranded)
=============================================================================
