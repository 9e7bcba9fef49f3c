----------------------------- MODULE PacketFifo -----------------------------
(***************************************************************************)
(* What the receive path of Raw80211Radio promises to its user, without    *)
(* indices, slots or tasks: a bounded FIFO of whole packets.  A packet     *)
(* enters in one step, complete and newer than every packet that waits;    *)
(* packets leave oldest first; a Stop throws all of them away.  RawRadio   *)
(* implements it (RawRadio!ImplementsFifo).                                *)
(***************************************************************************)
EXTENDS Integers, Sequences

CONSTANTS
    Capacity,     \* packets that may wait at a time
    Frames        \* frame numbers, in order of arrival

VARIABLE queue    \* the waiting packets, oldest first

Init == queue = <<>>

Put ==
    \E f \in Frames :
        /\ Len(queue) < Capacity
        /\ \A i \in DOMAIN queue : queue[i].head < f
        /\ queue' = Append(queue, [head |-> f, body |-> f])

Take ==
    /\ queue # <<>>
    /\ queue' = Tail(queue)

Flush == queue' = <<>>

Next == Put \/ Take \/ Flush

Spec == Init /\ [][Next]_queue
=============================================================================
