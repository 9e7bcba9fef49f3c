---------------------------- MODULE HttpExchange ----------------------------
(***************************************************************************)
(* One request and its response on the HTTP server                         *)
(* (ESPressio_HttpServerPlatform.hpp, ESP32HttpRequestPlatform and         *)
(* ESP32HttpResponsePlatform): what the dispatcher may read and write, in  *)
(* any order it likes, against a socket that takes or gives a part, or     *)
(* fails.  A response is framed by a length announced before the first     *)
(* byte or, if that is unknown, in chunks; the platform sends the first    *)
(* kind itself and leaves the second to ESP-IDF.                           *)
(*                                                                         *)
(* A body is a number of units.  Header names are told apart by word and   *)
(* by case; status and values are left out.                                *)
(***************************************************************************)
EXTENDS Integers, Sequences

CONSTANTS
    MaxLength,    \* bound: length of a body, or of a header's value
    MaxFields,    \* header fields that ESP-IDF has room for in a response
    MaxWrites     \* bound: calls of Write

ASSUME BoundsAssumption == MaxLength \in Nat /\ MaxFields \in Nat /\ MaxWrites \in Nat

VARIABLES
    head,         \* the request's method is HEAD
    contentLen,   \* httpd_req_t::content_len
    bodyRead,     \* _bodyRead
    keepAlive,    \* _keepAlive
    begun,        \* _begun
    completed,    \* _completed
    expected,     \* _expectedLength, Unknown without one (also _knownLengthFraming)
    bytesWritten, \* _bytesWritten
    fields,       \* _headers, in order
    native,       \* header fields that ESP-IDF holds for the first chunk
    wire,         \* what the client has received of the response
    got,          \* history: units of the request's body handed out
    told,         \* history: ReadBody has said that the body is complete
    header,       \* history: the last ReadHeader
    offered,      \* history: units in successful calls of Write
    writes,       \* history: calls of Write
    failed,       \* history: a native call has failed
    aborted       \* history: Abort was called

request  == <<head, contentLen, bodyRead, got, told, header>>
control  == <<begun, completed, expected, bytesWritten, fields, native>>
history  == <<offered, writes, failed, aborted>>
vars     == <<request, keepAlive, control, wire, history>>

Lengths == 0 .. MaxLength
Unknown == -1

\* Header names: a word, and whether this spelling has capitals.
Framing   == {"Content-Length", "Transfer-Encoding", "Connection"}
Words     == Framing \union {"ETag", "Location"}
Names     == [word : Words, capitals : BOOLEAN]
HeaderNameEquals(a, b) == a.word = b.word

\* The fields that the platform and ESP-IDF write themselves.
Own(word)       == [word |-> word, capitals |-> TRUE]
ConnectionClose == IF keepAlive THEN <<>> ELSE <<Own("Connection")>>

Lesser(a, b) == IF a < b THEN a ELSE b

-----------------------------------------------------------------------------
(* Mutations: plausible mistakes in the code.  No specification uses them.    *)

\* A peer that closes early is taken for the end of the body.
ReadBodyClosedIsEnd(capacity) ==
    /\ \E received \in 0 .. Lesser(capacity, contentLen - bodyRead) :
          /\ bodyRead' = bodyRead + received /\ got' = got + received
          /\ told' = (told \/ received = 0 \/ bodyRead + received >= contentLen)
    /\ UNCHANGED <<head, contentLen, header, keepAlive, control, wire, history>>

\* Framing headers are recognised in their usual spelling only.
IsFramingHeaderAsSpelt(name) == name.word \in Framing /\ name.capitals

-----------------------------------------------------------------------------
Init ==
    /\ head \in BOOLEAN /\ contentLen \in Lengths /\ keepAlive \in BOOLEAN
    /\ bodyRead = 0 /\ got = 0 /\ told = FALSE
    /\ header = [ok |-> FALSE, length |-> 0, capacity |-> 0, written |-> 0]
    /\ begun = FALSE /\ completed = FALSE
    /\ expected = Unknown /\ bytesWritten = 0
    /\ fields = <<>> /\ native = <<>>
    /\ wire = [blocks |-> 0, length |-> Unknown, fields |-> <<>>, body |-> 0, ends |-> 0,
               torn |-> FALSE]
    /\ offered = 0 /\ writes = 0 /\ failed = FALSE /\ aborted = FALSE

-----------------------------------------------------------------------------
(* The request *)

\* ESP-IDF copies a value, if there is one (length 0 stands for a field that is
\* not there), only into room for it and a final NUL.
NativeCopies(length, room) == length > 0 /\ length < room

\* A value that fits exactly goes through a scratch buffer one byte longer.
ReadHeader(length, capacity) ==
    LET room == IF capacity > length THEN capacity ELSE length + 1
        ok   == length <= capacity /\ NativeCopies(length, room)
    IN  /\ header' = [ok |-> ok, length |-> length, capacity |-> capacity,
                      written |-> IF ok THEN length ELSE 0]
        /\ UNCHANGED <<head, contentLen, bodyRead, got, told, keepAlive, control, wire, history>>

\* As much as the caller has room for and the body still has, or less; 0 stands
\* for a timeout, a closed connection or an error.
ReadBody(capacity) ==
    /\ IF bodyRead >= contentLen
       THEN told' = TRUE /\ UNCHANGED <<bodyRead, got>>
       ELSE \E received \in 0 .. Lesser(capacity, contentLen - bodyRead) :
               /\ bodyRead' = bodyRead + received /\ got' = got + received
               /\ told' = (told \/ bodyRead + received >= contentLen)
    /\ UNCHANGED <<head, contentLen, header, keepAlive, control, wire, history>>

-----------------------------------------------------------------------------
(* The response *)

IsFramingHeader(name) == name.word \in Framing

\* Framing headers belong to the platform; a name that is there already, in
\* whatever spelling, gets the new value.
SetHeader(name) ==
    /\ ~begun /\ ~IsFramingHeader(name)
    /\ ~\E i \in DOMAIN fields : HeaderNameEquals(fields[i], name)
    /\ fields' = Append(fields, name)
    /\ UNCHANGED <<request, keepAlive, begun, completed, expected, bytesWritten, native,
                   wire, history>>

\* With a known length the whole block goes out at once, part by part; a part
\* that is not taken leaves a torn block behind.
BeginKnown(length) ==
    /\ ~begun
    /\ expected' = length
    /\ \/ /\ begun' = TRUE /\ UNCHANGED failed
          /\ wire' = [wire EXCEPT !.blocks = @ + 1, !.length = length,
                       !.fields = <<Own("Content-Length")>> \o (fields \o ConnectionClose)]
       \/ /\ failed' = TRUE /\ UNCHANGED begun
          /\ wire' = [wire EXCEPT !.torn = TRUE]
    /\ UNCHANGED <<request, keepAlive, completed, bytesWritten, fields, native, offered,
                   writes, aborted>>

\* Without one the fields are handed to ESP-IDF one by one; a Begin that finds
\* no room leaves there what it has handed over.
BeginChunked ==
    /\ ~begun
    /\ expected' = Unknown
    /\ LET given == native \o fields \o ConnectionClose
       IN  /\ begun' = (Len(given) <= MaxFields)
           /\ native' = SubSeq(given, 1, Lesser(Len(given), MaxFields))
    /\ UNCHANGED <<request, keepAlive, completed, bytesWritten, fields, wire, history>>

\* ESP-IDF sends the block with the first chunk; an empty chunk is the last one.
SentChunk(size) ==
    [wire EXCEPT !.blocks = 1, !.fields = <<Own("Transfer-Encoding")>> \o native,
                 !.body = @ + size, !.ends = IF size = 0 THEN @ + 1 ELSE @]

\* Nothing goes out in answer to HEAD, and never more than announced.
Write(size) ==
    /\ begun /\ ~completed /\ writes < MaxWrites
    /\ expected # Unknown => bytesWritten + size <= expected
    /\ writes' = writes + 1
    /\ \/ /\ bytesWritten' = bytesWritten + size /\ offered' = offered + size
          /\ wire' = IF head THEN wire
                     ELSE IF expected = Unknown THEN SentChunk(size)
                     ELSE [wire EXCEPT !.body = @ + size]
          /\ UNCHANGED failed
       \/ /\ ~head /\ failed' = TRUE
          /\ \E sent \in 0 .. size - 1 : wire' = [wire EXCEPT !.body = @ + sent, !.torn = TRUE]
          /\ UNCHANGED <<bytesWritten, offered>>
    /\ UNCHANGED <<request, keepAlive, begun, completed, expected, fields, native, aborted>>

MayComplete == begun /\ ~completed /\ (expected = Unknown \/ bytesWritten = expected)

Complete ==
    /\ MayComplete
    /\ \/ /\ completed' = TRUE /\ UNCHANGED failed
          /\ wire' = IF expected = Unknown THEN SentChunk(0) ELSE wire
       \/ /\ expected = Unknown
          /\ failed' = TRUE /\ wire' = [wire EXCEPT !.torn = TRUE]
          /\ UNCHANGED completed
    /\ UNCHANGED <<request, keepAlive, begun, expected, bytesWritten, fields, native, offered,
                   writes, aborted>>

Abort ==
    /\ ~completed
    /\ completed' = TRUE /\ aborted' = TRUE
    /\ UNCHANGED <<request, keepAlive, begun, expected, bytesWritten, fields, native, wire,
                   offered, writes, failed>>

-----------------------------------------------------------------------------
\* HandleRequest hands both objects to the dispatcher, which calls what it likes.
Next ==
    \/ \E length, capacity \in 0 .. MaxLength : capacity > 0 /\ ReadHeader(length, capacity)
    \/ \E capacity \in 1 .. MaxLength : ReadBody(capacity)
    \/ \E name \in Names : SetHeader(name)
    \/ \E length \in Lengths : BeginKnown(length)
    \/ BeginChunked
    \/ \E size \in 1 .. MaxLength : Write(size)
    \/ Complete \/ Abort

Spec == Init /\ [][Next]_vars

-----------------------------------------------------------------------------
(* Properties *)

\* What the dispatcher reads is the request and nothing else: a body is called
\* complete when all of it, and no more, was handed out; a header value that
\* fits is delivered whole, also into a buffer without a byte to spare, and one
\* that does not is refused (lines 210-244, 251-276).
RequestIsWhole ==
    /\ got <= contentLen /\ (told => got = contentLen)
    /\ header.length \in 1 .. header.capacity => header.ok
    /\ header.ok => header.written = header.length /\ header.length <= header.capacity

\* The words of the framing fields in the block that the client has received.
FramedBy == {wire.fields[i].word : i \in DOMAIN wire.fields} \cap Framing

\* As long as nothing has failed, the client can tell where the response ends:
\* it gets one block of headers, no field twice, in it Content-Length or
\* Transfer-Encoding, whichever the platform frames the body with, and Connection
\* if it closes, so none of the application's; no body for HEAD, never more than
\* was announced, and from a response that was completed exactly the bytes
\* written and one last chunk if it is chunked (lines 310-333, 341-346, 377-394,
\* 408-425).  How a chunked answer to HEAD ends is left out: Complete sends the
\* last chunk there as well (line 420), which its client does not expect.
ResponseIsFramed ==
    ~failed =>
        /\ wire.blocks <= 1 /\ ~wire.torn /\ wire.ends <= 1
        /\ \A i, j \in DOMAIN wire.fields :
              HeaderNameEquals(wire.fields[i], wire.fields[j]) => i = j
        /\ wire.blocks = 1 =>
              FramedBy = {IF wire.length = Unknown THEN "Transfer-Encoding" ELSE "Content-Length"}
                         \cup (IF keepAlive THEN {} ELSE {"Connection"})
        /\ head => wire.body = 0
        /\ wire.length # Unknown => wire.body <= wire.length
        /\ completed /\ ~aborted =>
              /\ wire.blocks = 1
              /\ ~head => wire.body = offered
              /\ wire.length # Unknown => wire.ends = 0 /\ (~head => wire.body = wire.length)
              /\ wire.length = Unknown /\ ~head => wire.ends = 1
=============================================================================
