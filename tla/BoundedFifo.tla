---------------------------- MODULE BoundedFifo -----------------------------
(***************************************************************************)
(* What a message port promises (abi/ABI.md section 1): a bounded mailbox, *)
(* first in first out.  Module PortRing implements it with a ring until a  *)
(* kill drains the ring.                                                   *)
(***************************************************************************)
EXTENDS Naturals, Sequences

CONSTANTS
    Capacity,   \* messages the mailbox holds
    Senders     \* who may send

VARIABLES
    queue,      \* the queued datagrams, oldest first
    sent,       \* number of the last datagram each sender queued
    got         \* number of the last datagram of each sender received

vars == <<queue, sent, got>>

Init ==
    /\ queue = <<>>
    /\ sent = [s \in Senders |-> 0]
    /\ got = [s \in Senders |-> 0]

Send(s) ==
    /\ Len(queue) < Capacity
    /\ sent' = [sent EXCEPT ![s] = @ + 1]
    /\ queue' = Append(queue, [from |-> s, n |-> sent[s] + 1])
    /\ UNCHANGED got

Recv ==
    /\ queue # <<>>
    /\ got' = [got EXCEPT ![Head(queue).from] = Head(queue).n]
    /\ queue' = Tail(queue)
    /\ UNCHANGED sent

Next ==
    \/ \E s \in Senders : Send(s)
    \/ Recv

Spec == Init /\ [][Next]_vars
=============================================================================
