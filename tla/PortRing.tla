------------------------------ MODULE PortRing ------------------------------
(***************************************************************************)
(* The life of one port's ring (core/ports.cc): sessions send to it, its   *)
(* owner polls it, and killing a session drains that session's messages.   *)
(* Each operation runs under the port's spinlock with interrupts off, so   *)
(* each is one step; the lock itself is module TicketLock.                 *)
(***************************************************************************)
EXTENDS PortQueue

CONSTANTS
    Senders,    \* sessions that send to the port
    Killable,   \* the senders that may be killed (and so drained)
    MaxSends    \* bound: datagrams each sender may send

ASSUME SendersAssumption == IsFiniteSet(Senders) /\ Killable \subseteq Senders
ASSUME MaxSendsAssumption == MaxSends \in Nat

\* The datagrams of a sender are numbered in the order it sends them.
Msg == [from : Senders, n : Nat]

ASSUME NullAssumption == Null \notin Msg

VARIABLES
    port,   \* the ring
    sent,   \* sent[s]: number of the last datagram s got into the ring
    got,    \* got[s]: number of the last datagram of s the owner received
    calm    \* history: no kill has drained the ring yet

ringVars == <<port, sent, got, calm>>

RingInit ==
    /\ port = EmptyRing
    /\ sent = [s \in Senders |-> 0]
    /\ got = [s \in Senders |-> 0]
    /\ calm = TRUE

\* A send into a full ring answers -2 and changes nothing, so only the
\* successful send is a step.
Send(s) ==
    /\ sent[s] < MaxSends
    /\ ~Full(port)
    /\ sent' = [sent EXCEPT ![s] = @ + 1]
    /\ port' = Enqueue(port, [from |-> s, n |-> sent[s] + 1])
    /\ UNCHANGED <<got, calm>>

Recv ==
    /\ ~NothingToRecv(port)
    /\ LET m == port.slot[port.qh]
       IN  got' = [got EXCEPT ![m.from] = m.n]
    /\ port' = Dequeue(port)
    /\ UNCHANGED <<sent, calm>>

\* sched_kill(s).  The slot may be reused by a session that sends again.
KillSender(s) ==
    /\ SlotsOf(port, s) # {}
    /\ port' = Drain(port, s)
    /\ calm' = FALSE
    /\ UNCHANGED <<sent, got>>

RingNext ==
    \/ \E s \in Senders : Send(s)
    \/ Recv
    \/ \E s \in Killable : KillSender(s)

RingSpec == RingInit /\ [][RingNext]_ringVars

\* The owner of the port polls it (recv never blocks; poll with sched_yield).
RingFairSpec == RingSpec /\ WF_ringVars(Recv)
-----------------------------------------------------------------------------
(* Properties *)

RingType ==
    [qn : 0 .. MaxQ, qh : Slot, qt : Slot, slot : [Slot -> Msg \cup {Null}]]

\* Type invariant of the ring: the count never leaves 0 .. MAX_Q (qn is
\* unsigned in the code, so a drain that subtracted too much would wrap) and
\* the cursors never leave the ring.
RingTypeOK ==
    /\ port \in RingType
    /\ sent \in [Senders -> Nat]
    /\ got \in [Senders -> Nat]
    /\ calm \in BOOLEAN

\* The count covers the ring: port_recv and ports_drain_session subtract one
\* per message they remove, and however kills, sends and receives interleave
\* there are never more messages in the ring than qn counts.
CountCoversRing == Cardinality(Occupied(port)) <= port.qn

\* The queue the ring stands for, oldest datagram first.
Queue ==
    [i \in 1 .. port.qn |->
        LET j == port.qh + i - 1
        IN  port.slot[IF j < MaxQ THEN j ELSE j - MaxQ]]

Mailbox == INSTANCE BoundedFifo WITH queue <- Queue, Capacity <- MaxQ

\* "FIFO per sender->receiver pair" (abi/ABI.md section 1): until a kill drains
\* it, the ring implements the bounded mailbox.  Every enqueue appends, every
\* dequeue takes the oldest datagram, nothing is lost, duplicated or
\* overwritten when qh and qt wrap.
ImplementsMailbox ==
    Mailbox!Init /\ [][calm' => Mailbox!Next]_<<Queue, sent, got>>

\* Every datagram that enters the ring is received if the owner keeps polling
\* and no kill drains the ring: the head never points at an empty slot while
\* something is queued.  (The sends are bounded, so the owner catches up.)
QueuedIsReceived ==
    []calm => \A s \in Senders : got[s] < sent[s] ~> got[s] = sent[s]

\* abi/ABI.md section 1: a send answers 0, "-2 would-block" or -1.  Blocking
\* ends: while the owner keeps polling, a full ring gets a free place again.
WouldBlockEnds == Full(port) ~> ~Full(port)
=============================================================================
