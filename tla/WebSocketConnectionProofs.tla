--------------------- MODULE WebSocketConnectionProofs ---------------------
(***************************************************************************)
(* Proofs about WebSocketConnection for any limit on messages and any      *)
(* number of sessions, frames and concurrent calls.                        *)
(*                                                                         *)
(* A call that found a connection open holds it while that connection's    *)
(* session has the descriptor (HeldInv): the connection leaves the table   *)
(* only on the way to being marked closed.  The reason of a close is       *)
(* stored before its frame is queued (ReasonInv), and the fragment buffer  *)
(* holds what the peer has sent of its message, until that is over the     *)
(* limit (ReadingInv).                                                     *)
(***************************************************************************)
EXTENDS WebSocketConnection, TLAPS

\* The type invariant, without the queue: the flags apart from the rest.
Flags ==
    /\ upgraded \in BOOLEAN /\ fragmenting \in BOOLEAN /\ composing \in BOOLEAN
    /\ garbled \in BOOLEAN /\ stranded \in BOOLEAN /\ open \in [Connections -> BOOLEAN]

Calls ==
    [at : {"idle", "held", "claimed", "lookup", "queue", "trigger"},
     conn : 0 .. MaxSessions, kind : {"data", "close"}, asked : 0 .. MaxSessions]

Values ==
    /\ session \in 0 .. MaxSessions /\ accepted \in 0 .. MaxSessions
    /\ handled \in 0 .. MaxFrames /\ calls \in 0 .. MaxCalls
    /\ table \in {0, session} /\ ending \in {0, session}
    /\ code \in [Connections -> {"none", "local", "peer"}]
    /\ call \in [AppCalls -> Calls]
    /\ written \subseteq Connections
    /\ reports \in [Connections -> {"no", "none", "local", "peer"}]

\* A connection is in the table or on its way to its end, not both; both belong
\* to the upgraded session that has the descriptor, the last one accepted.
TableInv ==
    /\ ending # 0 => table = 0
    /\ ~upgraded => table = 0 /\ ending = 0
    /\ session \in {0, accepted}

\* What a call holds and still finds open is the connection of the present
\* session; from then on it knows for whom it asked.
HeldInv ==
    /\ \A t \in AppCalls : call[t].at # "idle" => call[t].conn # 0
    /\ \A t \in AppCalls : call[t].at = "held" => call[t].kind = "data"
    /\ \A t \in AppCalls : call[t].at = "held" /\ open[call[t].conn] =>
          call[t].conn = session /\ call[t].conn \in {table, ending}
    /\ \A t \in AppCalls : call[t].at \in {"claimed", "lookup", "queue", "trigger"} =>
          call[t].asked = call[t].conn

\* Everything queued was asked for by its own connection, and a queued close
\* frame has its reason stored.
Items == [kind : {"data", "close", "end"}, conn : Connections, asked : 0 .. MaxSessions]

QueueOK(queue, codes) ==
    /\ queue \in Seq(Items)
    /\ \A i \in DOMAIN queue :
          /\ queue[i].asked = queue[i].conn
          /\ queue[i].kind = "close" => codes[queue[i].conn] # "none"

\* A close frame on its way, or written, has its reason stored; a report is made
\* once, at the end of the session.
ReasonInv ==
    /\ \A t \in AppCalls :
          call[t].at \in {"lookup", "queue", "trigger"} /\ call[t].kind = "close"
             => code[call[t].conn] # "none"
    /\ \A c \in written : code[c] # "none"
    /\ \A c \in Connections : reports[c] # "no" => c <= accepted /\ c # session

\* The fragment buffer holds the peer's message as far as it has come, as long
\* as that is within the limit.
ReadingInv ==
    /\ buffer \in Seq(Nat) /\ Len(buffer) <= MaxMessage /\ message \in Seq(Nat)
    /\ faithful = TRUE
    /\ fragmenting => composing /\ buffer = message
    /\ composing /\ ~fragmenting => Len(message) > MaxMessage

Inv ==
    /\ Flags /\ Values /\ TableInv /\ HeldInv
    /\ QueueOK(work, code) /\ ReasonInv /\ CloseReasonKnown /\ ReadingInv

-----------------------------------------------------------------------------
(* The queue *)

\* Queueing what has been asked for rightly keeps the queue right.
LEMMA QueueAppend ==
    ASSUME NEW queue, NEW codes, QueueOK(queue, codes), NEW item \in Items,
           item.asked = item.conn, item.kind = "close" => codes[item.conn] # "none"
    PROVE  QueueOK(Append(queue, item), codes)
  <1>1. queue \in Seq(Items)
    BY DEF QueueOK
  <1>2. /\ Append(queue, item) \in Seq(Items)
        /\ \A i \in DOMAIN Append(queue, item) :
              \/ i \in DOMAIN queue /\ Append(queue, item)[i] = queue[i]
              \/ Append(queue, item)[i] = item
    BY <1>1
  <1>3. QED
    BY <1>2 DEF QueueOK

\* So does running its first item.
LEMMA QueueTail ==
    ASSUME NEW queue, NEW codes, QueueOK(queue, codes), queue # <<>>
    PROVE  /\ QueueOK(Tail(queue), codes) /\ Head(queue) \in Items
           /\ Head(queue).asked = Head(queue).conn
           /\ Head(queue).kind = "close" => codes[Head(queue).conn] # "none"
  <1>1. queue \in Seq(Items) /\ Len(queue) \in Nat \ {0}
    BY DEF QueueOK
  <1>2. /\ Tail(queue) \in Seq(Items)
        /\ \A i \in DOMAIN Tail(queue) : i + 1 \in DOMAIN queue /\ Tail(queue)[i] = queue[i + 1]
    BY <1>1
  <1>3. Head(queue) = queue[1] /\ 1 \in DOMAIN queue
    BY <1>1
  <1>4. QED
    BY <1>1, <1>2, <1>3 DEF QueueOK

\* Asking HTTPD to end the session asks for the connection's own.
LEMMA QueueTrigger ==
    ASSUME NEW queue, NEW codes, QueueOK(queue, codes), NEW c \in Connections,
           stranded \in BOOLEAN, Trigger(queue, c, c)
    PROVE  QueueOK(work', codes) /\ stranded' \in BOOLEAN
  <1>1. Item("end", c, c) \in Items /\ Item("end", c, c).asked = Item("end", c, c).conn
        /\ Item("end", c, c).kind # "close"
    BY BoundsAssumption DEF Item, Items, Connections
  <1>2. QueueOK(Append(queue, Item("end", c, c)), codes)
    BY <1>1, QueueAppend
  <1>3. QueueOK(work', codes)
    BY <1>2 DEF Trigger
  <1>4. QED
    BY <1>3 DEF Trigger

\* A stored reason is replaced by a real one.
LEMMA QueueCodes ==
    ASSUME NEW queue, NEW codes \in [Connections -> {"none", "local", "peer"}],
           QueueOK(queue, codes), NEW c, NEW new \in {"local", "peer"}
    PROVE  QueueOK(queue, [codes EXCEPT ![c] = new])
  <1>1. \A i \in DOMAIN queue : queue[i] \in Items
    BY DEF QueueOK
  <1>2. QED
    BY <1>1 DEF QueueOK, Items

-----------------------------------------------------------------------------
(* Sessions *)

\* The initial state satisfies the invariant.
LEMMA InitInv == Init => Inv
  <1> SUFFICES ASSUME Init PROVE Inv
    OBVIOUS
  <1>1. Flags /\ Values
    <2>1. Idle \in Calls
      BY BoundsAssumption DEF Idle, Calls
    <2>2. Flags
      BY DEF Init, Flags
    <2>3. QED
      BY <2>1, <2>2, BoundsAssumption DEF Init, Values
  <1>2. TableInv /\ HeldInv /\ ReasonInv /\ CloseReasonKnown
    BY DEF Init, TableInv, HeldInv, ReasonInv, CloseReasonKnown, Idle
  <1>3. QueueOK(work, code) /\ ReadingInv
    BY MessageAssumption DEF Init, QueueOK, ReadingInv
  <1>4. QED
    BY <1>1, <1>2, <1>3 DEF Inv

\* A call inside the endpoint has a connection.
LEMMA CallType ==
    ASSUME Values, HeldInv, NEW t \in AppCalls
    PROVE  call[t] \in Calls /\ (call[t].at # "idle" => call[t].conn \in Connections)
  <1>1. call[t] \in Calls
    BY DEF Values
  <1>2. call[t].conn \in 0 .. MaxSessions
    BY <1>1 DEF Calls
  <1>3. QED
    BY <1>1, <1>2, BoundsAssumption DEF HeldInv, Connections

\* A client gets the descriptor.
LEMMA AcceptStep ==
    ASSUME Inv, Accept
    PROVE  Inv'
  <1> USE DEF Inv
  <1>1. /\ session = 0 /\ accepted < MaxSessions
        /\ accepted' = accepted + 1 /\ session' = accepted + 1
        /\ UNCHANGED <<upgraded, work, objects, reading, call, handled, calls, written,
                       reports, stranded>>
    BY DEF Accept
  <1>2. table = 0 /\ ending = 0
    BY <1>1 DEF Values
  <1>3. accepted' \in 0 .. MaxSessions
    BY <1>1, BoundsAssumption DEF Values
  <1>4. Flags' /\ Values'
    <2>1. Flags'
      BY <1>1 DEF Flags, objects, reading
    <2>2. QED
      BY <1>1, <1>2, <1>3, <2>1 DEF Values, objects
  <1>5. TableInv' /\ QueueOK(work, code)' /\ CloseReasonKnown'
    BY <1>1, <1>2 DEF TableInv, QueueOK, CloseReasonKnown, objects
  <1>6. HeldInv'
    BY <1>1, <1>2 DEF HeldInv, objects
  <1>7. ReasonInv'
    BY <1>1 DEF ReasonInv, objects, Values, Connections
  <1>8. ReadingInv'
    BY <1>1 DEF ReadingInv, reading
  <1>9. QED
    BY <1>4, <1>5, <1>6, <1>7, <1>8

\* A session that is over leaves nothing of a message.
LEMMA OverReading ==
    ASSUME Over
    PROVE  /\ session' = 0 /\ upgraded' = FALSE /\ ReadingInv'
           /\ fragmenting' \in BOOLEAN /\ composing' \in BOOLEAN /\ garbled' \in BOOLEAN
           /\ stranded' \in BOOLEAN
  <1>1. buffer' = <<>> /\ message' = <<>> /\ fragmenting' = FALSE /\ composing' = FALSE
        /\ faithful' = TRUE /\ garbled' = FALSE /\ stranded' = FALSE
    BY DEF Over
  <1>2. buffer' \in Seq(Nat) /\ Len(buffer') = 0 /\ message' \in Seq(Nat)
    BY <1>1
  <1>3. ReadingInv'
    BY <1>1, <1>2, MessageAssumption DEF ReadingInv
  <1>4. QED
    BY <1>1, <1>3 DEF Over

\* The handshake, and the end of a session, in one step or in two.
LEMMA SessionStep ==
    ASSUME Inv, Upgrade \/ SessionEnds \/ RecoveryFails
    PROVE  Inv'
  <1> USE DEF Inv
  <1>1. /\ UNCHANGED <<work, open, code, call, log>>
        /\ session # 0 /\ ending = 0
    BY DEF Upgrade, SessionEnds, RecoveryFails, objects, history
  <1>2. \/ /\ upgraded' = TRUE /\ ~upgraded /\ table' \in {0, session}
           /\ UNCHANGED <<session, ending, reading, stranded>>
        \/ /\ Over /\ table = 0 /\ UNCHANGED <<table, ending>>
        \/ /\ table # 0 /\ ending' = table /\ table' = 0
           /\ UNCHANGED <<session, upgraded, reading, stranded>>
    BY DEF Upgrade, SessionEnds, TakeOffTable, RecoveryFails, objects, history
  <1>3. \/ /\ upgraded' = TRUE /\ ~upgraded /\ table' \in {0, session}
           /\ UNCHANGED <<session, ending>>
        \/ /\ session' = 0 /\ upgraded' = FALSE /\ table = 0 /\ UNCHANGED <<table, ending>>
        \/ /\ table # 0 /\ ending' = table /\ table' = 0 /\ UNCHANGED <<session, upgraded>>
    BY <1>2, OverReading
  <1>4. Flags' /\ ReadingInv'
    <2>1. CASE UNCHANGED <<reading, stranded>>
      BY <1>1, <1>3, <2>1 DEF Flags, ReadingInv, reading
    <2>2. CASE Over
      BY <1>1, <2>2, OverReading DEF Flags
    <2>3. QED
      BY <1>2, <2>1, <2>2
  <1>5. Values'
    BY <1>1, <1>3, BoundsAssumption DEF Values, log
  <1>6. TableInv' /\ HeldInv' /\ QueueOK(work, code)' /\ CloseReasonKnown'
    BY <1>1, <1>3 DEF Values, TableInv, HeldInv, QueueOK, CloseReasonKnown, log
  <1>7. ReasonInv'
    BY <1>1, <1>3 DEF ReasonInv, Values, log, Connections
  <1>8. QED
    BY <1>4, <1>5, <1>6, <1>7

\* The end is reported with the stored reason.
LEMMA ReportStep ==
    ASSUME Inv, ReportClosed
    PROVE  Inv'
  <1> USE DEF Inv
  <1>1. /\ ending # 0 /\ open' = [open EXCEPT ![ending] = FALSE]
        /\ reports' = [reports EXCEPT ![ending] = code[ending]]
        /\ ending' = 0 /\ session' = 0 /\ upgraded' = FALSE
        /\ UNCHANGED <<work, table, code, call, accepted, handled, calls, written>>
    BY OverReading DEF ReportClosed
  <1>2. table = 0 /\ ending = session /\ session = accepted /\ ending \in Connections
    BY <1>1 DEF Values, TableInv, Connections
  <1>3. Flags' /\ Values' /\ ReadingInv'
    <2>1. Flags' /\ ReadingInv'
      BY <1>1, <1>2, OverReading DEF Flags, ReportClosed
    <2>2. reports' \in [Connections -> {"no", "none", "local", "peer"}]
      BY <1>1, <1>2 DEF Values
    <2>3. QED
      BY <1>1, <1>2, <2>1, <2>2, BoundsAssumption DEF Values
  <1>4. TableInv' /\ QueueOK(work, code)'
    BY <1>1, <1>2 DEF TableInv, QueueOK
  <1>5. HeldInv'
    <2>1. \A t \in AppCalls : call[t].at # "idle" => call[t].conn \in Connections
      BY CallType
    <2>2. \A c \in Connections : open'[c] => open[c] /\ c # ending
      BY <1>1, <1>2 DEF Flags
    <2>3. \A t \in AppCalls : ~(call[t].at = "held" /\ open'[call[t].conn])
      BY <1>1, <1>2, <2>1, <2>2 DEF HeldInv
    <2>4. QED
      BY <1>1, <2>3 DEF HeldInv
  <1>6. ReasonInv' /\ CloseReasonKnown'
    BY <1>1, <1>2 DEF ReasonInv, CloseReasonKnown, Values, Connections
  <1>7. QED
    BY <1>3, <1>4, <1>5, <1>6

-----------------------------------------------------------------------------
(* Frames *)

\* A frame is for the connection of the present session, which it makes known.
LEMMA Arrival ==
    ASSUME Inv, FrameArrives
    PROVE  /\ Found = session /\ session \in Connections /\ session = accepted
           /\ table' = session /\ upgraded /\ ending = 0
           /\ handled \in Nat /\ handled' \in 0 .. MaxFrames /\ table \in {0, session}
  <1>1. session # 0 /\ upgraded /\ ending = 0 /\ handled < MaxFrames
        /\ handled' = handled + 1 /\ table' = Found
    BY DEF FrameArrives
  <1>2. QED
    BY <1>1, BoundsAssumption DEF Inv, Values, TableInv, Found, Connections

\* Closing the present connection, by either side, keeps what is said of the
\* connections and the queue; the rest of the frame is the fragments' affair.
LEMMA FrameStep ==
    ASSUME Inv, FrameArrives,
           UNCHANGED <<session, upgraded, ending, call, accepted, calls, written, reports>>,
           \/ UNCHANGED <<open, code>> /\ UNCHANGED work
           \/ /\ open' = [open EXCEPT ![session] = FALSE]
              /\ \E new \in {"local", "peer"} : code' = [code EXCEPT ![session] = new]
              /\ \/ UNCHANGED work
                 \/ \E kind \in {"close", "end"} :
                       work' = Append(work, Item(kind, session, session))
    PROVE  /\ open' \in [Connections -> BOOLEAN]
           /\ Values' /\ TableInv' /\ HeldInv' /\ QueueOK(work, code)' /\ ReasonInv'
           /\ CloseReasonKnown'
  <1> USE DEF Inv
  <1>1. /\ session \in Connections /\ session = accepted /\ table' = session
        /\ upgraded /\ ending = 0 /\ handled' \in 0 .. MaxFrames /\ table \in {0, session}
    BY Arrival
  <1>2. \/ UNCHANGED <<open, code, work>>
        \/ /\ open' = [open EXCEPT ![session] = FALSE]
           /\ \E new \in {"local", "peer"} : code' = [code EXCEPT ![session] = new]
    OBVIOUS
  <1>3. open' \in [Connections -> BOOLEAN]
    BY <1>2 DEF Flags
  <1>4. code' \in [Connections -> {"none", "local", "peer"}]
        /\ \A c \in Connections : code[c] # "none" => code'[c] # "none"
    BY <1>2 DEF Values
  <1>5. Values'
    BY <1>1, <1>4 DEF Values
  <1>6. TableInv'
    BY <1>1 DEF TableInv
  <1>7. HeldInv'
    <2>1. \A t \in AppCalls : call[t].at # "idle" => call[t].conn \in Connections
      BY CallType
    <2>2. \A c \in Connections : open'[c] => open[c]
      BY <1>2 DEF Flags
    <2>3. \A t \in AppCalls : call'[t].at = "held" /\ open'[call'[t].conn] =>
             call'[t].conn = session' /\ call'[t].conn \in {table', ending'}
      BY <1>1, <2>1, <2>2 DEF HeldInv
    <2>4. QED
      BY <2>3 DEF HeldInv
  <1>8. QueueOK(work, code)'
    <2>1. CASE UNCHANGED <<open, code, work>>
      BY <2>1
    <2>2. CASE \E new \in {"local", "peer"} : code' = [code EXCEPT ![session] = new]
      <3>1. QueueOK(work, code') /\ code'[session] # "none"
        <4>1. PICK new \in {"local", "peer"} : code' = [code EXCEPT ![session] = new]
          BY <2>2
        <4>2. code \in [Connections -> {"none", "local", "peer"}]
          BY DEF Values
        <4>3. QED
          BY <1>1, <4>1, <4>2, QueueCodes
      <3>2. CASE UNCHANGED work
        BY <3>1, <3>2
      <3>3. CASE \E kind \in {"close", "end"} : work' = Append(work, Item(kind, session, session))
        <4>1. \A kind \in {"close", "end"} :
                 /\ Item(kind, session, session) \in Items
                 /\ Item(kind, session, session).conn = session
                 /\ Item(kind, session, session).asked = session
          BY <1>1, BoundsAssumption DEF Item, Items, Connections
        <4>2. QED
          BY <3>1, <3>3, <4>1, QueueAppend
      <3>4. QED
        BY <3>2, <3>3
    <2>3. QED
      BY <1>2, <2>1, <2>2
  <1>9. ReasonInv' /\ CloseReasonKnown'
    <2>1. \A t \in AppCalls : call[t].at # "idle" => call[t].conn \in Connections
      BY CallType
    <2>2. written \subseteq Connections
      BY DEF Values
    <2>3. QED
      BY <1>4, <2>1, <2>2 DEF ReasonInv, CloseReasonKnown
  <1>10. QED
    BY <1>3, <1>5, <1>6, <1>7, <1>8, <1>9

\* Close, called by the handler, queues a close frame, the end of the session, or
\* nothing.
LEMMA CloseOnTaskQueues ==
    ASSUME Inv, FrameArrives, CloseOnTask(session)
    PROVE  /\ \/ UNCHANGED <<open, code>> /\ UNCHANGED work
              \/ /\ open' = [open EXCEPT ![session] = FALSE]
                 /\ \E new \in {"local", "peer"} : code' = [code EXCEPT ![session] = new]
                 /\ \/ UNCHANGED work
                    \/ \E kind \in {"close", "end"} :
                          work' = Append(work, Item(kind, session, session))
           /\ stranded' \in BOOLEAN
  <1>1. stranded \in BOOLEAN /\ session # 0
    BY DEF Inv, Flags, FrameArrives
  <1>2. stranded' \in BOOLEAN
    BY <1>1 DEF CloseOnTask, Trigger
  <1>3. QED
    BY <1>1, <1>2 DEF CloseOnTask, Trigger

\* Control frames, and a payload that is refused unread, leave the fragments alone.
LEMMA ControlStep ==
    ASSUME Inv, HandleOversized \/ HandlePing \/ HandlePeerClose
    PROVE  Inv'
  <1> USE DEF Inv
  <1>1. FrameArrives
        /\ UNCHANGED <<session, upgraded, ending, call, accepted, calls, written, reports,
                       fragmenting, buffer, message, composing, faithful>>
        /\ garbled' \in BOOLEAN
    BY DEF HandleOversized, HandlePing, HandlePeerClose, native, reading, Flags
  <1>2. Found = session
    BY <1>1, Arrival
  <1>3. \/ UNCHANGED <<open, code>> /\ UNCHANGED work
        \/ /\ open' = [open EXCEPT ![session] = FALSE]
           /\ \E new \in {"local", "peer"} : code' = [code EXCEPT ![session] = new]
           /\ \/ UNCHANGED work
              \/ \E kind \in {"close", "end"} :
                    work' = Append(work, Item(kind, session, session))
    <2>1. CASE HandlePing
      BY <2>1 DEF HandlePing, native
    <2>2. CASE HandleOversized
      BY <1>1, <1>2, <2>2, CloseOnTaskQueues DEF HandleOversized
    <2>3. CASE HandlePeerClose
      BY <1>1, <1>2, <2>3 DEF HandlePeerClose, Trigger, FrameArrives
    <2>4. QED
      BY <2>1, <2>2, <2>3
  <1>4. /\ open' \in [Connections -> BOOLEAN]
        /\ Values' /\ TableInv' /\ HeldInv' /\ QueueOK(work, code)' /\ ReasonInv'
        /\ CloseReasonKnown'
    BY <1>1, <1>3, FrameStep
  <1>5. stranded' \in BOOLEAN
    <2>1. stranded \in BOOLEAN
      BY DEF Flags
    <2>2. CASE HandlePing
      BY <2>1, <2>2 DEF HandlePing
    <2>3. CASE HandleOversized
      BY <1>1, <1>2, <2>3, CloseOnTaskQueues DEF HandleOversized
    <2>4. CASE HandlePeerClose
      BY <2>1, <2>4 DEF HandlePeerClose, Trigger
    <2>5. QED
      BY <2>2, <2>3, <2>4
  <1>6. Flags' /\ ReadingInv'
    BY <1>1, <1>4, <1>5 DEF Flags, ReadingInv
  <1>7. QED
    BY <1>4, <1>6

\* A data frame is accumulated: the fragments follow the peer's message, and a
\* message goes to the sink when, and only when, its last frame has come.
LEMMA DataStep ==
    ASSUME Inv, NEW f \in DataFrames, HandleData(f)
    PROVE  Inv'
  <1> USE DEF Inv
  <1> DEFINE stray  == f.type = "data" /\ composing /\ Len(message) <= MaxMessage
             orphan == f.type = "continue" /\ ~composing
             units  == [i \in 1 .. f.size |-> handled]
             whole  == IF f.type = "data" THEN units ELSE message \o units
             due    == ~stray /\ ~orphan /\ f.final /\ Len(whole) <= MaxMessage
             result == AccumulateFragment(f, units)
  <1>1. /\ FrameArrives /\ f.size <= MaxMessage
        /\ UNCHANGED <<session, upgraded, ending, garbled, call, accepted, calls, written,
                       reports>>
    BY DEF HandleData
  <1>2. /\ fragmenting' = result.fragmenting /\ buffer' = result.buffer
        /\ faithful' = (faithful /\ result.done = due /\ (due => result.out = whole))
        /\ IF stray \/ orphan THEN UNCHANGED <<message, composing>>
           ELSE /\ composing' = ~f.final
                /\ message' = IF f.final THEN <<>> ELSE whole
        /\ IF result.ok THEN UNCHANGED <<open, code, work, stranded>> ELSE CloseOnTask(Found)
    BY DEF HandleData
  <1>3. f.type \in {"data", "continue"} /\ f.final \in BOOLEAN /\ f.size \in Nat
    BY MessageAssumption DEF DataFrames
  <1>4. Found = session /\ handled \in Nat
    BY <1>1, Arrival
  <1>5. units \in Seq(Nat) /\ Len(units) = f.size
    BY <1>3, <1>4
  <1>6. buffer \in Seq(Nat) /\ message \in Seq(Nat) /\ Len(buffer) <= MaxMessage
        /\ (fragmenting => composing /\ buffer = message)
        /\ (composing /\ ~fragmenting => Len(message) > MaxMessage)
        /\ fragmenting \in BOOLEAN /\ composing \in BOOLEAN /\ faithful = TRUE
        /\ MaxMessage \in Nat
    BY MessageAssumption DEF ReadingInv, Flags
  <1>7. \/ UNCHANGED <<open, code>> /\ UNCHANGED work
        \/ /\ open' = [open EXCEPT ![session] = FALSE]
           /\ \E new \in {"local", "peer"} : code' = [code EXCEPT ![session] = new]
           /\ \/ UNCHANGED work
              \/ \E kind \in {"close", "end"} :
                    work' = Append(work, Item(kind, session, session))
    BY <1>1, <1>2, <1>4, CloseOnTaskQueues
  <1>8. /\ open' \in [Connections -> BOOLEAN]
        /\ Values' /\ TableInv' /\ HeldInv' /\ QueueOK(work, code)' /\ ReasonInv'
        /\ CloseReasonKnown'
    BY <1>1, <1>7, FrameStep
  <1>9. stranded' \in BOOLEAN
    BY <1>1, <1>2, <1>4, CloseOnTaskQueues DEF Flags
  <1>10. Flags' /\ ReadingInv'
    <2> HIDE DEF stray, orphan, units, whole, due, result
    <2>1. ASSUME result.done = due, due => result.out = whole
          PROVE  faithful' = TRUE
      BY <1>2, <1>6, <2>1
    <2>2. CASE stray
      <3>1. /\ due = FALSE /\ composing /\ fragmenting = TRUE /\ f.type = "data"
        BY <1>6, <2>2 DEF stray, due
      <3>2. result.done = FALSE /\ result.fragmenting = TRUE /\ result.buffer = buffer
        BY <3>1 DEF result, AccumulateFragment
      <3>3. faithful' = TRUE
        BY <2>1, <3>1, <3>2
      <3>4. fragmenting' = TRUE /\ buffer' = buffer /\ UNCHANGED <<message, composing>>
        BY <1>2, <2>2, <3>2
      <3>5. QED
        BY <1>1, <1>6, <1>8, <1>9, <3>1, <3>3, <3>4 DEF Flags, ReadingInv
    <2>3. CASE f.type = "data" /\ ~stray
      <3>1. /\ stray = FALSE /\ orphan = FALSE /\ whole = units /\ fragmenting = FALSE
            /\ due = f.final
        BY <1>1, <1>3, <1>5, <1>6, <2>3 DEF stray, orphan, due, whole
      <3>2. /\ result.done = f.final /\ result.out = units /\ result.fragmenting = ~f.final
            /\ result.buffer = IF f.final THEN buffer ELSE units
        BY <1>3, <2>3, <3>1 DEF result, AccumulateFragment
      <3>3. faithful' = TRUE
        BY <2>1, <3>1, <3>2
      <3>4. /\ fragmenting' = ~f.final /\ buffer' = IF f.final THEN buffer ELSE units
            /\ composing' = ~f.final /\ message' = IF f.final THEN <<>> ELSE units
        BY <1>2, <3>1, <3>2
      <3>5. Flags'
        BY <1>1, <1>3, <1>8, <1>9, <3>4 DEF Flags
      <3>6. /\ buffer' \in Seq(Nat) /\ Len(buffer') <= MaxMessage /\ message' \in Seq(Nat)
        BY <1>1, <1>5, <1>6, <3>4
      <3>7. /\ fragmenting' => composing' /\ buffer' = message'
            /\ composing' => fragmenting'
        BY <1>3, <3>4
      <3>8. QED
        BY <3>3, <3>5, <3>6, <3>7 DEF ReadingInv
    <2>4. CASE orphan
      <3>1. /\ due = FALSE /\ fragmenting = FALSE /\ f.type = "continue"
        BY <1>6, <2>4 DEF orphan, due
      <3>2. result.done = FALSE /\ result.fragmenting = FALSE /\ result.buffer = buffer
        BY <3>1 DEF result, AccumulateFragment
      <3>3. faithful' = TRUE
        BY <2>1, <3>1, <3>2
      <3>4. fragmenting' = FALSE /\ buffer' = buffer /\ UNCHANGED <<message, composing>>
        BY <1>2, <2>4, <3>2
      <3>5. QED
        BY <1>1, <1>6, <1>8, <1>9, <3>1, <3>3, <3>4 DEF Flags, ReadingInv
    <2>5. CASE f.type = "continue" /\ ~orphan
      <3>1. /\ stray = FALSE /\ orphan = FALSE /\ whole = message \o units /\ composing
        BY <1>1, <2>5 DEF stray, orphan, whole
      <3>2. /\ whole \in Seq(Nat) /\ Len(whole) = Len(message) + Len(units)
            /\ Len(message) \in Nat /\ Len(units) \in Nat /\ Len(buffer) \in Nat
        BY <1>5, <1>6, <3>1
      <3>3. /\ composing' = ~f.final /\ message' = IF f.final THEN <<>> ELSE whole
        BY <1>2, <3>1
      <3>4. CASE fragmenting /\ Len(buffer) + Len(units) <= MaxMessage
        <4>1. buffer = message /\ buffer \o units = whole
          BY <1>6, <3>1, <3>4
        <4>2. due = f.final
          BY <1>3, <1>6, <3>1, <3>2, <3>4, <4>1 DEF due
        <4>3. /\ result.done = f.final /\ result.out = whole /\ result.fragmenting = ~f.final
              /\ result.buffer = IF f.final THEN <<>> ELSE whole
          BY <1>3, <2>5, <3>4, <4>1 DEF result, AccumulateFragment
        <4>4. faithful' = TRUE
          BY <2>1, <4>2, <4>3
        <4>5. fragmenting' = ~f.final /\ buffer' = IF f.final THEN <<>> ELSE whole
          BY <1>2, <4>3
        <4>6. QED
          BY <1>1, <1>3, <1>6, <1>8, <1>9, <3>2, <3>3, <3>4, <4>1, <4>4, <4>5 DEF Flags, ReadingInv
      <3>5. CASE ~(fragmenting /\ Len(buffer) + Len(units) <= MaxMessage)
        <4>1. Len(whole) > MaxMessage
          BY <1>6, <3>1, <3>2, <3>5
        <4>2. due = FALSE
          BY <1>6, <3>2, <4>1 DEF due
        <4>3. /\ result.done = FALSE /\ result.fragmenting = FALSE
              /\ result.buffer \in {<<>>, buffer}
          BY <2>5, <3>5 DEF result, AccumulateFragment
        <4>4. faithful' = TRUE
          BY <2>1, <4>2, <4>3
        <4>5. fragmenting' = FALSE /\ buffer' \in {<<>>, buffer}
          BY <1>2, <4>3
        <4>6. Flags'
          BY <1>1, <1>3, <1>8, <1>9, <3>3, <4>5 DEF Flags
        <4>7. buffer' \in Seq(Nat) /\ Len(buffer') <= MaxMessage /\ message' \in Seq(Nat)
          <5>1. <<>> \in Seq(Nat) /\ Len(<<>>) = 0
            OBVIOUS
          <5>2. buffer' = <<>> => buffer' \in Seq(Nat) /\ Len(buffer') <= MaxMessage
            BY <1>6, <5>1
          <5>3. buffer' = buffer => buffer' \in Seq(Nat) /\ Len(buffer') <= MaxMessage
            BY <1>6
          <5>4. message' \in Seq(Nat)
            BY <3>2, <3>3, <5>1
          <5>5. QED
            BY <4>5, <5>2, <5>3, <5>4
        <4>8. composing' => Len(message') > MaxMessage
          BY <1>3, <3>3, <4>1
        <4>9. QED
          BY <4>4, <4>5, <4>6, <4>7, <4>8 DEF ReadingInv
      <3>6. QED
        BY <3>4, <3>5
    <2>6. QED
      BY <1>3, <2>2, <2>3, <2>4, <2>5 DEF orphan
  <1>11. QED
    BY <1>8, <1>10

-----------------------------------------------------------------------------
(* HTTPD's queue of work *)

\* A queued frame is run: what follows a close frame was asked for by the same
\* connection, and a close frame that reaches its own client has its reason.
LEMMA RunSendStep ==
    ASSUME Inv, RunSend
    PROVE  Inv'
  <1> USE DEF Inv
  <1> DEFINE item == Head(work)
             mine == item.kind = "close" /\ session = item.conn /\ upgraded
  <1>1. /\ work # <<>>
        /\ IF item.kind = "close" THEN Trigger(Tail(work), item.conn, item.asked)
           ELSE work' = Tail(work) /\ UNCHANGED stranded
        /\ written' = IF mine THEN written \cup {item.conn} ELSE written
        /\ UNCHANGED <<session, upgraded, objects, reading, call, accepted, handled, calls,
                       reports>>
    BY DEF RunSend
  <1>2. /\ QueueOK(Tail(work), code) /\ item \in Items /\ item.asked = item.conn
        /\ item.kind = "close" => code[item.conn] # "none"
    BY <1>1, QueueTail
  <1>3. item.conn \in Connections
    BY <1>2 DEF Items
  <1>4. QueueOK(work', code) /\ stranded' \in BOOLEAN
    BY <1>1, <1>2, <1>3, QueueTrigger DEF Flags
  <1>5. Flags' /\ TableInv' /\ HeldInv' /\ ReadingInv' /\ QueueOK(work, code)'
    BY <1>1, <1>4 DEF Flags, TableInv, HeldInv, ReadingInv, objects, reading
  <1>6. written' \subseteq Connections
        /\ \A c \in written' : c \in written \/ (c = session /\ code[c] # "none")
    BY <1>1, <1>2, <1>3 DEF Values
  <1>7. Values'
    BY <1>1, <1>6 DEF Values, objects
  <1>8. ReasonInv' /\ CloseReasonKnown'
    BY <1>1, <1>6 DEF ReasonInv, CloseReasonKnown, objects
  <1>9. QED
    BY <1>5, <1>7, <1>8

\* A queued end of session is run against whoever has the descriptor.
LEMMA RunEndStep ==
    ASSUME Inv, RunEnd
    PROVE  Inv'
  <1> USE DEF Inv
  <1>1. /\ ending = 0 /\ work # <<>> /\ work' = Tail(work)
        /\ UNCHANGED <<open, code, call, log>>
    BY DEF RunEnd
  <1>2. \/ UNCHANGED <<session, upgraded, table, ending>>
        \/ /\ session' = 0 /\ upgraded' = FALSE /\ table = 0 /\ UNCHANGED <<table, ending>>
        \/ /\ session # 0 /\ table # 0 /\ ending' = table /\ table' = 0
           /\ UNCHANGED <<session, upgraded>>
    BY OverReading DEF RunEnd, TakeOffTable
  <1>3. Flags' /\ ReadingInv'
    <2>1. CASE UNCHANGED <<reading, stranded>>
      BY <1>1, <1>2, <2>1 DEF Flags, ReadingInv, reading
    <2>2. CASE Over
      BY <1>1, <2>2, OverReading DEF Flags
    <2>3. QED
      BY <2>1, <2>2 DEF RunEnd, TakeOffTable
  <1>4. Values'
    BY <1>1, <1>2, BoundsAssumption DEF Values, log
  <1>5. TableInv' /\ HeldInv'
    BY <1>1, <1>2 DEF Values, TableInv, HeldInv, log
  <1>6. QueueOK(work, code)'
    BY <1>1, QueueTail
  <1>7. ReasonInv' /\ CloseReasonKnown'
    BY <1>1, <1>2 DEF ReasonInv, CloseReasonKnown, Values, log, Connections
  <1>8. QED
    BY <1>3, <1>4, <1>5, <1>6, <1>7

-----------------------------------------------------------------------------
(* Calls *)

\* A step that only moves one call: it holds an open
\* connection of the present session, or knows what it asked for.
LEMMA CallMoves ==
    ASSUME Inv, NEW t \in AppCalls, NEW new \in Calls, call' = [call EXCEPT ![t] = new],
           new.at # "idle" => new.conn # 0,
           new.at = "held" => new.kind = "data",
           new.at = "held" /\ open[new.conn] =>
              new.conn = session /\ new.conn \in {table, ending},
           new.at \in {"claimed", "lookup", "queue", "trigger"} => new.asked = new.conn,
           new.at \in {"lookup", "queue", "trigger"} /\ new.kind = "close"
              => code'[new.conn] # "none",
           \A c \in Connections : (open'[c] => open[c]) /\ (code[c] # "none" => code'[c] # "none"),
           open' \in [Connections -> BOOLEAN],
           code' \in [Connections -> {"none", "local", "peer"}],
           QueueOK(work', code'), calls' \in 0 .. MaxCalls, stranded' \in BOOLEAN,
           UNCHANGED <<session, upgraded, table, ending, reading, accepted, handled, written,
                       reports>>
    PROVE  Inv'
  <1> USE DEF Inv
  <1>1. \A u \in AppCalls : call'[u] = IF u = t THEN new ELSE call[u]
    BY DEF Values
  <1>2. \A u \in AppCalls : call[u].at # "idle" => call[u].conn \in Connections
    BY CallType
  <1>3. new.at # "idle" => new.conn \in Connections
    BY BoundsAssumption DEF Calls, Connections
  <1>4. Flags' /\ TableInv' /\ ReadingInv' /\ QueueOK(work, code)'
    BY DEF Flags, TableInv, ReadingInv, reading
  <1>5. Values'
    BY DEF Values
  <1>6. HeldInv'
    <2>1. \A u \in AppCalls : /\ call'[u].at # "idle" => call'[u].conn # 0
                              /\ call'[u].at = "held" => call'[u].kind = "data"
      BY <1>1 DEF HeldInv
    <2>2. ASSUME NEW u \in AppCalls, call'[u].at = "held", open'[call'[u].conn]
          PROVE  call'[u].conn = session /\ call'[u].conn \in {table, ending}
      BY <1>1, <1>2, <1>3, <2>2 DEF HeldInv
    <2>3. \A u \in AppCalls : call'[u].at \in {"claimed", "lookup", "queue", "trigger"} =>
             call'[u].asked = call'[u].conn
      BY <1>1 DEF HeldInv
    <2>4. QED
      BY <2>1, <2>2, <2>3 DEF HeldInv
  <1>7. ReasonInv' /\ CloseReasonKnown'
    <2>1. ASSUME NEW u \in AppCalls, call'[u].at \in {"lookup", "queue", "trigger"},
                 call'[u].kind = "close"
          PROVE  code'[call'[u].conn] # "none"
      BY <1>1, <1>2, <2>1 DEF ReasonInv
    <2>2. written \subseteq Connections
      BY DEF Values
    <2>3. QED
      BY <2>1, <2>2 DEF ReasonInv, CloseReasonKnown
  <1>8. QED
    BY <1>4, <1>5, <1>6, <1>7

\* A call takes a connection, checks it, or begins to close it.
LEMMA AppBeginStep ==
    ASSUME Inv, NEW t \in AppCalls,
           Snapshot(t) \/ SendCheck(t) \/ FindsClosed(t) \/ CloseClaim(t)
    PROVE  Inv'
  <1> USE DEF Inv
  <1>1. call[t] \in Calls /\ session \in 0 .. MaxSessions /\ calls \in 0 .. MaxCalls
        /\ Idle \in Calls
    BY CallType, BoundsAssumption DEF Values, Idle, Calls
  <1>2. /\ UNCHANGED <<native, table, ending, code, reading, accepted, handled, written,
                       stranded, reports>>
    BY DEF Snapshot, SendCheck, FindsClosed, CloseClaim, objects, log, history
  <1>3. /\ code \in [Connections -> {"none", "local", "peer"}]
        /\ stranded \in BOOLEAN /\ open \in [Connections -> BOOLEAN]
        /\ QueueOK(work', code')
    BY <1>2 DEF Values, Flags, native
  <1>4. CASE Snapshot(t)
    <2> DEFINE new == [Idle EXCEPT !.at = "held", !.conn = table]
    <2>1. table = session /\ table # 0 /\ calls' = t
          /\ call' = [call EXCEPT ![t] = new] /\ UNCHANGED open
      BY <1>4 DEF Snapshot, Values, objects
    <2>2. new \in Calls /\ new.at = "held" /\ new.conn = table /\ new.kind = "data"
      BY <1>1, <2>1 DEF Idle, Calls
    <2>3. calls' \in 0 .. MaxCalls
      BY <2>1, BoundsAssumption DEF AppCalls
    <2> HIDE DEF new
    <2>4. QED
      BY <1>2, <1>3, <2>1, <2>2, <2>3, CallMoves DEF native
  <1>5. CASE SendCheck(t)
    <2> DEFINE new == [call[t] EXCEPT !.at = "lookup", !.asked = session]
    <2>1. /\ call' = [call EXCEPT ![t] = new] /\ UNCHANGED <<open, calls>>
          /\ call[t].at = "held" /\ open[call[t].conn]
      BY <1>1, <1>5 DEF SendCheck, objects, history, log, Values
    <2>2. call[t].conn = session /\ call[t].conn # 0 /\ call[t].kind = "data"
      BY <2>1 DEF HeldInv
    <2>3. /\ new \in Calls /\ new.at = "lookup" /\ new.kind = "data" /\ new.conn = session
          /\ new.asked = session
      BY <1>1, <2>2 DEF Calls
    <2> HIDE DEF new
    <2>4. QED
      BY <1>1, <1>2, <1>3, <2>1, <2>2, <2>3, CallMoves DEF native
  <1>6. CASE FindsClosed(t)
    <2>1. call' = [call EXCEPT ![t] = Idle] /\ UNCHANGED <<open, calls>>
      BY <1>6 DEF FindsClosed, objects, history, log
    <2>2. QED
      BY <1>1, <1>2, <1>3, <2>1, CallMoves DEF native, Idle
  <1>7. CASE CloseClaim(t)
    <2> DEFINE new == [call[t] EXCEPT !.at = "claimed", !.kind = "close", !.asked = session]
    <2>1. /\ call' = [call EXCEPT ![t] = new] /\ UNCHANGED calls
          /\ open' = [open EXCEPT ![call[t].conn] = FALSE]
          /\ call[t].at = "held" /\ open[call[t].conn]
      BY <1>1, <1>7 DEF CloseClaim, history, log, Values
    <2>2. call[t].conn = session /\ call[t].conn # 0
      BY <2>1 DEF HeldInv
    <2>3. /\ new \in Calls /\ new.at = "claimed" /\ new.conn = session
          /\ new.asked = session
      BY <1>1, <2>2 DEF Calls
    <2>4. open' \in [Connections -> BOOLEAN] /\ \A c \in Connections : open'[c] => open[c]
      BY <1>3, <2>1
    <2> HIDE DEF new
    <2>5. QED
      BY <1>1, <1>2, <1>3, <2>1, <2>2, <2>3, <2>4, CallMoves DEF native
  <1>8. QED
    BY <1>4, <1>5, <1>6, <1>7

\* A call goes on: what it queues, it asked for by its own connection, and the
\* reason of a close is stored first.
LEMMA AppGoesOnStep ==
    ASSUME Inv, NEW t \in AppCalls, CallGoesOn(t)
    PROVE  Inv'
  <1> USE DEF Inv
  <1>1. /\ UNCHANGED <<session, upgraded, table, ending, open, reading, accepted, handled,
                       calls, written, reports>>
        /\ call[t].at \in {"claimed", "lookup", "queue", "trigger"}
    BY DEF CallGoesOn, CloseSetCode, CloseThrows, LookUp, QueueFrame, QueueRejected,
           TriggerClose, native, objects, history, log
  <1>2. /\ call[t] \in Calls /\ call[t].conn \in Connections /\ call[t].asked = call[t].conn
        /\ calls \in 0 .. MaxCalls
        /\ code \in [Connections -> {"none", "local", "peer"}] /\ call[t].conn # 0
    BY <1>1, CallType DEF Values, HeldInv
  <1>3. open \in [Connections -> BOOLEAN] /\ stranded \in BOOLEAN /\ Idle \in Calls /\ Idle.at = "idle"
    BY BoundsAssumption DEF Flags, Idle, Calls
  <1>4. CASE CloseSetCode(t)
    <2> DEFINE new == [call[t] EXCEPT !.at = "lookup"]
    <2>1. /\ call' = [call EXCEPT ![t] = new] /\ UNCHANGED <<work, stranded>>
          /\ code' = [code EXCEPT ![call[t].conn] = "local"]
      BY <1>2, <1>4 DEF CloseSetCode, native, history, Values
    <2>2. new \in Calls /\ new.at = "lookup" /\ new.conn = call[t].conn
          /\ new.asked = call[t].asked
      BY <1>2 DEF Calls
    <2>3. /\ code' \in [Connections -> {"none", "local", "peer"}]
          /\ code'[call[t].conn] # "none"
          /\ \A c \in Connections : code[c] # "none" => code'[c] # "none"
      BY <1>2, <2>1
    <2>4. QueueOK(work', code')
      BY <1>2, <2>1, QueueCodes
    <2> HIDE DEF new
    <2>5. QED
      BY <1>1, <1>2, <1>3, <2>1, <2>2, <2>3, <2>4, CallMoves
  <1>5. CASE CloseThrows(t)
    <2>1. /\ call' = [call EXCEPT ![t] = Idle] /\ UNCHANGED <<work, code>>
          /\ stranded' = (stranded \/ call[t].conn = session)
      BY <1>5 DEF CloseThrows, native, objects
    <2>2. stranded' \in BOOLEAN /\ QueueOK(work', code')
      BY <1>3, <2>1
    <2>3. QED
      BY <1>1, <1>2, <1>3, <2>1, <2>2, CallMoves
  <1>6. CASE LookUp(t) \/ QueueRejected(t)
    <2>1. UNCHANGED <<work, code, stranded>> /\ call[t].at \in {"lookup", "queue"}
      BY <1>6 DEF LookUp, QueueRejected, native, objects, history
    <2>2. call[t].kind = "close" => code[call[t].conn] # "none"
      BY <2>1 DEF ReasonInv
    <2>3. QueueOK(work', code')
      BY <2>1
    <2>4. \/ call' = [call EXCEPT ![t] = Idle]
          \/ \E at \in {"queue", "trigger"} :
                call' = [call EXCEPT ![t] = [call[t] EXCEPT !.at = at]]
      BY <1>2, <1>6 DEF LookUp, QueueRejected, Values
    <2>5. CASE call' = [call EXCEPT ![t] = Idle]
      BY <1>1, <1>2, <1>3, <2>1, <2>3, <2>5, CallMoves
    <2>6. ASSUME NEW at \in {"queue", "trigger"},
                 call' = [call EXCEPT ![t] = [call[t] EXCEPT !.at = at]]
          PROVE  Inv'
      <3> DEFINE new == [call[t] EXCEPT !.at = at]
      <3>1. /\ new \in Calls /\ new.at = at /\ new.conn = call[t].conn
            /\ new.asked = call[t].asked /\ new.kind = call[t].kind
        BY <1>2 DEF Calls
      <3> HIDE DEF new
      <3>2. call' = [call EXCEPT ![t] = new]
        BY <2>6 DEF new
      <3>3. QED
        BY <1>1, <1>2, <1>3, <2>1, <2>2, <2>3, <3>1, <3>2, CallMoves
    <2>7. QED
      BY <2>4, <2>5, <2>6
  <1>7. CASE QueueFrame(t) \/ TriggerClose(t)
    <2>1. /\ call' = [call EXCEPT ![t] = Idle] /\ UNCHANGED code
          /\ call[t].at \in {"queue", "trigger"}
      BY <1>7 DEF QueueFrame, TriggerClose, objects
    <2>2. call[t].kind = "close" => code[call[t].conn] # "none"
      BY <2>1 DEF ReasonInv
    <2>3. LET item == Item(call[t].kind, call[t].conn, call[t].asked)
          IN  /\ item \in Items /\ item.asked = item.conn
              /\ item.kind = "close" => code[item.conn] # "none"
      BY <1>2, <2>2, BoundsAssumption DEF Item, Items, Calls, Connections
    <2>4. QueueOK(work', code') /\ stranded' \in BOOLEAN
      <3>1. CASE QueueFrame(t)
        BY <1>3, <2>1, <2>3, <3>1, QueueAppend DEF QueueFrame, history
      <3>2. CASE TriggerClose(t)
        BY <1>2, <1>3, <2>1, <3>2, QueueTrigger DEF TriggerClose
      <3>3. QED
        BY <1>7, <3>1, <3>2
    <2>5. QED
      BY <1>1, <1>2, <1>3, <2>1, <2>4, CallMoves
  <1>8. QED
    BY <1>4, <1>5, <1>6, <1>7 DEF CallGoesOn

-----------------------------------------------------------------------------
(* The properties *)

\* Every reachable state satisfies the invariant.
THEOREM Invariant == Spec => []Inv
  <1>1. Inv /\ HttpdStep => Inv'
    BY AcceptStep, SessionStep, ReportStep, ControlStep, DataStep, RunSendStep, RunEndStep
       DEF HttpdStep
  <1>2. ASSUME Inv, NEW t \in AppCalls, AppStep(t) PROVE Inv'
    BY <1>2, AppBeginStep, AppGoesOnStep DEF AppStep
  <1>3. Inv /\ Next => Inv'
    BY <1>1, <1>2 DEF Next
  <1>4. Inv /\ UNCHANGED vars => Inv'
    BY DEF Inv, Flags, Values, TableInv, HeldInv, QueueOK, ReasonInv, CloseReasonKnown,
           ReadingInv, vars, native, objects, reading, history, log
  <1>5. QED
    BY InitInv, <1>3, <1>4, PTL DEF Spec

\* The state is well typed.
THEOREM TypeCorrect == Spec => []TypeOK
  <1>1. Inv => TypeOK
    BY DEF Inv, Flags, Values, QueueOK, Items, Calls, ReadingInv, TypeOK
  <1>2. QED
    BY Invariant, <1>1, PTL

\* Everything in HTTPD's queue was asked for while its own session had the
\* descriptor, however long a call held the connection before it asked.
THEOREM AsksForOwnSession == Spec => []AskedOfOwnSession
  <1>1. Inv => AskedOfOwnSession
    BY DEF Inv, QueueOK, AskedOfOwnSession
  <1>2. QED
    BY Invariant, <1>1, PTL

\* A session that was sent this side's close frame is reported with a reason.
THEOREM ReasonIsKnown == Spec => []CloseReasonKnown
  <1>1. Inv => CloseReasonKnown
    BY DEF Inv
  <1>2. QED
    BY Invariant, <1>1, PTL

\* The sink sees the peer's messages within the limit, each whole and once,
\* in whatever order its frames come.
THEOREM MessagesDelivered == Spec => []DeliversMessages
  <1>1. Inv => DeliversMessages
    BY DEF Inv, ReadingInv, DeliversMessages
  <1>2. QED
    BY Invariant, <1>1, PTL

=============================================================================
