----------------------------- MODULE DnsServer -----------------------------
(***************************************************************************)
(* The DNS server (ESPressio_DnsServerPlatform.hpp): application threads   *)
(* that initialize, start, stop and reset it, and the TCP/IP thread, on    *)
(* which the socket is opened and closed and every packet is received,     *)
(* decoded and answered - one thing at a time.                             *)
(*                                                                         *)
(* A packet is a sequence of bytes, at positions counted from 0.  Its      *)
(* header of 12 bytes and the 4 bytes of type and class are shortened to   *)
(* HeaderSize and SuffixSize bytes, of which only "a query with one        *)
(* question" is told apart: the first byte is 0.  The contents of labels,  *)
(* addresses, flags and times to live are left out.                        *)
(***************************************************************************)
EXTENDS Integers, Sequences, FiniteSetsExt

CONSTANTS
    AppThreads,   \* threads that call the platform
    Packets,      \* packets that may arrive
    HeaderSize,   \* 12 in the code
    SuffixSize,   \* 4: type and class behind a name
    AnswerSizes,  \* 16 and 28: an A and an AAAA record
    MaxPacket,    \* ESPRESSIO_ESP32_DNS_MAX_PACKET_BYTES
    NameLimit,    \* 253: characters of a name, dots included
    JumpLimit     \* 8: compression pointers in a name

Byte == 0 .. 255

ASSUME SizeAssumption ==
    /\ HeaderSize \in Nat \ {0} /\ SuffixSize \in Nat
    /\ MaxPacket \in Nat /\ NameLimit \in Nat /\ JumpLimit \in Nat
    /\ AnswerSizes \subseteq Nat \ {0}

ASSUME PacketAssumption == Packets \subseteq Seq(Byte)

VARIABLES
    listening,    \* _listening
    dispatcher,   \* _dispatcher is not null
    pcb,          \* _pcb is not null: the socket is bound and has its callback
    tpc,          \* a thread's position
    resetting,    \* the thread's Stop is part of a Reset
    rpc,          \* the TCP/IP thread's position
    packet,       \* the packet it works on
    cursor, outputLength, encodedEnd, jumps, jumped,  \* of DecodeDnsName
    size,         \* _buffer.size() of the response
    counted,      \* the answer count in the buffer (_answerCount)
    completed,    \* _completed of the response
    path,         \* history: positions the decoder has visited
    given,        \* history: the answers accepted, each by its size
    replies,      \* history: replies to this packet, each [size, answers]
    quiet,        \* history: a Stop came to its end with no other call in
                  \*   progress, and no Start was called since
    unstopped     \* history: the TCP/IP thread could not be asked to close

threadVars   == <<tpc, resetting>>
serverVars   == <<listening, dispatcher, pcb>>
decoderVars  == <<cursor, outputLength, encodedEnd, jumps, jumped, path>>
responseVars == <<size, counted, completed, given>>
receiveVars  == <<rpc, packet, decoderVars, responseVars, replies>>
vars == <<threadVars, serverVars, receiveVars, quiet, unstopped>>

ThreadPcs == {"idle", "initialize", "started", "start", "listen", "stop", "clear"}

At(position) == packet[position + 1]

-----------------------------------------------------------------------------
(* Mutations: plausible mistakes in the code.  No specification uses them.    *)

\* The socket is closed on the calling thread.
OnTcpipThreadAnywhere(t, from) == tpc[t] = from

\* Nothing counts the compression pointers.
MayJumpEndlessly ==
    /\ At(cursor) \div 64 = 3
    /\ cursor + 1 < Len(packet)
    /\ (At(cursor) % 64) * 256 + At(cursor + 1) < Len(packet)

\* Every pointer moves the end of the question.
FollowPointerMovesEnd ==
    /\ (At(cursor) % 64) * 256 + At(cursor + 1) < Len(packet)
    /\ jumps' = jumps + 1 /\ jumped' = TRUE
    /\ encodedEnd' = cursor + 2
    /\ cursor' = (At(cursor) % 64) * 256 + At(cursor + 1)
    /\ UNCHANGED outputLength

-----------------------------------------------------------------------------
Init ==
    /\ listening = FALSE /\ dispatcher = FALSE /\ pcb = FALSE
    /\ tpc = [t \in AppThreads |-> "idle"]
    /\ resetting = [t \in AppThreads |-> FALSE]
    /\ rpc = "idle" /\ packet = <<>>
    /\ cursor = 0 /\ outputLength = 0 /\ encodedEnd = 0 /\ jumps = 0 /\ jumped = FALSE
    /\ path = <<>>
    /\ size = 0 /\ counted = 0 /\ completed = FALSE
    /\ given = <<>> /\ replies = <<>>
    /\ quiet = FALSE /\ unstopped = FALSE

-----------------------------------------------------------------------------
(* The calls of the application *)

Goto(t, pc) == tpc' = [tpc EXCEPT ![t] = pc]

\* Back from Stop: to the caller or into Reset.
LeaveStop(t, reset) ==
    /\ Goto(t, IF reset THEN "clear" ELSE "idle")
    /\ quiet' = (quiet \/ \A u \in AppThreads \ {t} : tpc[u] = "idle")

InitializeCheck(t) ==
    /\ tpc[t] = "idle" /\ ~listening
    /\ Goto(t, "initialize")
    /\ UNCHANGED <<resetting, serverVars, receiveVars, quiet, unstopped>>

InitializeStore(t) ==
    /\ tpc[t] = "initialize"
    /\ dispatcher' = TRUE
    /\ Goto(t, "idle")
    /\ UNCHANGED <<resetting, listening, pcb, receiveVars, quiet, unstopped>>

StartCheck(t) ==
    /\ tpc[t] = "idle" /\ ~listening
    /\ Goto(t, "started")
    /\ quiet' = FALSE
    /\ UNCHANGED <<resetting, serverVars, receiveVars, unstopped>>

StartDispatcher(t) ==
    /\ tpc[t] = "started"
    /\ Goto(t, IF dispatcher THEN "start" ELSE "idle")
    /\ UNCHANGED <<resetting, serverVars, receiveVars, quiet, unstopped>>

\* tcpip_api_call: the function runs when the TCP/IP thread is between packets.
OnTcpipThread(t, from) == tpc[t] = from /\ rpc = "idle"

\* An old socket goes first; the new one may not be had, or not be bound.
StartOnTcpipThread(t) ==
    /\ OnTcpipThread(t, "start")
    /\ unstopped' = FALSE
    /\ \/ pcb' = TRUE /\ Goto(t, "listen")
       \/ pcb' = FALSE /\ Goto(t, "idle")
    /\ UNCHANGED <<resetting, listening, dispatcher, receiveVars, quiet>>

StartListens(t) ==
    /\ tpc[t] = "listen"
    /\ listening' = TRUE
    /\ Goto(t, "idle")
    /\ UNCHANGED <<resetting, dispatcher, pcb, receiveVars, quiet, unstopped>>

\* Stop, by itself or in a Reset.
Stop(t, reset) ==
    /\ tpc[t] = "idle"
    /\ resetting' = [resetting EXCEPT ![t] = reset]
    /\ listening' = FALSE
    /\ IF listening
       THEN Goto(t, "stop") /\ UNCHANGED quiet
       ELSE LeaveStop(t, reset)
    /\ UNCHANGED <<dispatcher, pcb, receiveVars, unstopped>>

StopOnTcpipThread(t) ==
    /\ OnTcpipThread(t, "stop")
    /\ pcb' = FALSE /\ unstopped' = FALSE
    /\ LeaveStop(t, resetting[t])
    /\ UNCHANGED <<resetting, listening, dispatcher, receiveVars>>

\* tcpip_api_call itself fails: nothing was done.
ApiCallFails(t) ==
    /\ \/ tpc[t] = "start" /\ Goto(t, "idle") /\ UNCHANGED <<unstopped, quiet>>
       \/ tpc[t] = "stop" /\ unstopped' = TRUE /\ LeaveStop(t, resetting[t])
    /\ UNCHANGED <<resetting, serverVars, receiveVars>>

ResetClears(t) ==
    /\ tpc[t] = "clear"
    /\ dispatcher' = FALSE
    /\ Goto(t, "idle")
    /\ UNCHANGED <<resetting, listening, pcb, receiveVars, quiet, unstopped>>

-----------------------------------------------------------------------------
(* A packet on the TCP/IP thread *)

appVars == <<threadVars, serverVars, quiet, unstopped>>

\* The thread is done with the packet.
Release ==
    /\ rpc' = "idle" /\ packet' = <<>>
    /\ cursor' = 0 /\ outputLength' = 0 /\ encodedEnd' = 0 /\ jumps' = 0 /\ jumped' = FALSE
    /\ path' = <<>>
    /\ size' = 0 /\ counted' = 0 /\ completed' = FALSE
    /\ given' = <<>> /\ replies' = <<>>

\* A bare header goes back, if it can be sent; nobody waits for it.
SendFormatError == Release

ReceivePacket(p) ==
    /\ rpc = "idle" /\ pcb /\ listening
    /\ rpc' = "received" /\ packet' = p
    /\ UNCHANGED <<appVars, decoderVars, responseVars, replies>>

IsPlausible == Len(packet) \in HeaderSize .. MaxPacket
IsQuery     == At(0) = 0

LoadDispatcher ==
    /\ rpc = "received"
    /\ dispatcher /\ IsPlausible /\ IsQuery
    /\ rpc' = "decode"
    /\ cursor' = HeaderSize /\ encodedEnd' = HeaderSize
    /\ UNCHANGED <<appVars, packet, outputLength, jumps, jumped, path, responseVars, replies>>

\* Nobody to ask, a size out of bounds, no memory for a copy; or no query.
DropPacket ==
    /\ rpc = "received"
    /\ Release
    /\ UNCHANGED appVars

\* DecodeDnsName, one round of its loop per action.
IsLabel   == At(cursor) \in 1 .. 63
IsPointer == At(cursor) \div 64 = 3
Pointer   == (At(cursor) % 64) * 256 + At(cursor + 1)

MayJump ==
    /\ IsPointer
    /\ cursor + 1 < Len(packet) /\ jumps < JumpLimit
    /\ Pointer < Len(packet)

FollowPointer ==
    /\ jumps' = jumps + 1 /\ jumped' = TRUE
    /\ encodedEnd' = IF jumped THEN encodedEnd ELSE cursor + 2
    /\ cursor' = Pointer
    /\ UNCHANGED outputLength

\* Where the next label goes: behind a dot, but for the first one.
LabelStart == IF outputLength = 0 THEN 0 ELSE outputLength + 1

MayCopy ==
    /\ IsLabel
    /\ cursor + 1 + At(cursor) <= Len(packet)
    /\ LabelStart + At(cursor) <= NameLimit

CopyLabel ==
    /\ outputLength' = LabelStart + At(cursor)
    /\ cursor' = cursor + 1 + At(cursor)
    /\ encodedEnd' = IF jumped THEN encodedEnd ELSE cursor'
    /\ UNCHANGED <<jumps, jumped>>

NameEnd == IF jumped THEN encodedEnd ELSE cursor + 1
IsNamed == At(cursor) = 0 /\ NameEnd + SuffixSize <= Len(packet)

DecodeLabel ==
    /\ rpc = "decode" /\ cursor < Len(packet)
    /\ \/ MayJump /\ FollowPointer
       \/ MayCopy /\ CopyLabel
    /\ path' = Append(path, cursor)
    /\ UNCHANGED <<appVars, rpc, packet, responseVars, replies>>

\* The response starts as a copy of the request up to the end of the question.
DecodeDone ==
    /\ rpc = "decode" /\ cursor < Len(packet)
    /\ IsNamed /\ NameEnd + SuffixSize <= MaxPacket
    /\ encodedEnd' = NameEnd
    /\ path' = Append(path, cursor)
    /\ size' = NameEnd + SuffixSize
    /\ rpc' = "dispatch"
    /\ UNCHANGED <<appVars, packet, cursor, outputLength, jumps, jumped, counted, completed,
                   given, replies>>

\* No name, or no memory for the response.
DecodeFails ==
    /\ rpc = "decode"
    /\ cursor < Len(packet) => ~MayJump /\ ~MayCopy
    /\ SendFormatError
    /\ UNCHANGED appVars

\* What the dispatcher does with the response, in any order.
AddAddressAnswer(required) ==
    /\ rpc = "dispatch" /\ ~completed
    /\ size + required <= MaxPacket
    /\ size' = size + required /\ counted' = counted + 1
    /\ given' = Append(given, required)
    /\ UNCHANGED <<appVars, rpc, packet, decoderVars, completed, replies>>

\* A Complete that fails may be called again.
Complete ==
    /\ rpc = "dispatch" /\ ~completed
    /\ completed' = TRUE
    /\ replies' = Append(replies, [size |-> size, answers |-> counted])
    /\ UNCHANGED <<appVars, rpc, packet, decoderVars, size, counted, given>>

Abort ==
    /\ rpc = "dispatch"
    /\ completed' = TRUE
    /\ UNCHANGED <<appVars, rpc, packet, decoderVars, size, counted, given, replies>>

DispatchReturns ==
    /\ rpc = "dispatch"
    /\ Release
    /\ UNCHANGED appVars

-----------------------------------------------------------------------------
Call(t) ==
    \/ InitializeCheck(t) \/ InitializeStore(t)
    \/ StartCheck(t) \/ StartDispatcher(t) \/ StartOnTcpipThread(t) \/ StartListens(t)
    \/ \E reset \in BOOLEAN : Stop(t, reset)
    \/ StopOnTcpipThread(t) \/ ApiCallFails(t) \/ ResetClears(t)

Receive ==
    \/ \E p \in Packets : ReceivePacket(p)
    \/ LoadDispatcher \/ DropPacket
    \/ DecodeLabel \/ DecodeDone \/ DecodeFails
    \/ \E required \in AnswerSizes : AddAddressAnswer(required)
    \/ Complete \/ Abort \/ DispatchReturns

Next == (\E t \in AppThreads : Call(t)) \/ Receive

Spec == Init /\ [][Next]_vars

-----------------------------------------------------------------------------
(* Properties *)

TypeOK ==
    /\ listening \in BOOLEAN /\ dispatcher \in BOOLEAN /\ pcb \in BOOLEAN
    /\ tpc \in [AppThreads -> ThreadPcs]
    /\ resetting \in [AppThreads -> BOOLEAN]
    /\ rpc \in {"idle", "received", "decode", "dispatch"}
    /\ packet \in Seq(Byte)
    /\ cursor \in Nat /\ outputLength \in Nat /\ encodedEnd \in Nat
    /\ jumps \in Nat /\ jumped \in BOOLEAN
    /\ path \in Seq(Nat)
    /\ size \in Nat /\ counted \in Nat /\ completed \in BOOLEAN
    /\ given \in Seq(AnswerSizes)
    /\ replies \in Seq([size : Nat, answers : Nat])
    /\ quiet \in BOOLEAN /\ unstopped \in BOOLEAN

\* When a Stop or a Reset has returned, by whichever of its ways, with no other
\* call in progress, the socket is closed and the dispatcher is not running:
\* until the next Start its owner may destroy it.  Excepted is a Stop whose call
\* of the TCP/IP thread failed (lines 316-334, 365-376, 410-423).
QuietAfterStop == quiet /\ ~unstopped => ~pcb /\ rpc = "idle"

\* Whatever the packet holds - labels that run past its end, pointers in a
\* circle - the decoder reads inside it, writes inside the name's buffer and
\* comes to an end (lines 75-110).
NameIsBounded ==
    rpc \in {"decode", "dispatch"} =>
        /\ outputLength <= NameLimit
        /\ cursor <= Len(packet) /\ encodedEnd <= Len(packet)
        /\ Len(path) <= (JumpLimit + 1) * Len(packet)

\* The dispatcher is asked for the name that the question holds: the labels on
\* the way to the end of the name, with dots between them; and the question ends
\* where its own bytes leave off, at that end or at the first pointer (lines
\* 77-107, 467-475).  The reply is the question with every answer that was
\* accepted, no more than a packet, counted, and sent once (lines 161-176,
\* 189-245).
Labels == {i \in DOMAIN path : At(path[i]) \in 1 .. 63}
Leaves == DOMAIN path \ Labels
Shares == [i \in DOMAIN path |-> IF i \in Labels THEN At(path[i]) + 1 ELSE 0]
InlineEnd ==
    LET leaf == path[Min(Leaves)]
    IN  IF At(leaf) = 0 THEN leaf + 1 ELSE leaf + 2

\* The sum of a sequence of numbers.
Total(s) ==
    LET sum[i \in 0 .. Len(s)] == IF i = 0 THEN 0 ELSE sum[i - 1] + s[i]
    IN  sum[Len(s)]

AnswersTheQuestion ==
    rpc = "dispatch" =>
        /\ (Labels = {}) = (outputLength = 0)
        /\ Labels # {} => outputLength + 1 = Total(Shares)
        /\ encodedEnd = InlineEnd
        /\ counted = Len(given)
        /\ size = encodedEnd + SuffixSize + Total(given)
        /\ size <= MaxPacket
        /\ replies \in {<<>>, <<[size |-> size, answers |-> counted]>>}
=============================================================================
