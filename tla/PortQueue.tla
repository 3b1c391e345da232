----------------------------- MODULE PortQueue ------------------------------
(***************************************************************************)
(* The message ring inside a kernel port (struct port of core/ports.cc),   *)
(* as operators on a ring record.                                          *)
(*                                                                         *)
(* A port owns MAX_Q slots, a count qn, a head qh and a tail qt.  Three    *)
(* functions enqueue (port_send, ports_enqueue_by_name and                 *)
(* ports_kernel_enqueue share the same tail), port_recv dequeues and       *)
(* ports_drain_session, called when a session is killed, removes the       *)
(* queued messages of that session wherever they sit in the ring.          *)
(***************************************************************************)
EXTENDS Naturals, FiniteSets

CONSTANTS
    MaxQ,       \* MAX_Q: slots of the ring (32 in the code)
    Null        \* the null msg pointer

ASSUME MaxQAssumption == MaxQ \in Nat \ {0}

Slot == 0 .. MaxQ - 1

EmptyRing == [qn |-> 0, qh |-> 0, qt |-> 0, slot |-> [i \in Slot |-> Null]]

\* (q + 1) % MAX_Q
NextSlot(q) == IF q = MaxQ - 1 THEN 0 ELSE q + 1

\* Fault: off by one.
FullTooLate(r) == r.qn > MaxQ

Full(r) == r.qn >= MaxQ

\* The enqueue shared by port_send and the kernel-side enqueues, once the
\* full test has passed.
Enqueue(r, m) ==
    [qn   |-> r.qn + 1,
     qh   |-> r.qh,
     qt   |-> NextSlot(r.qt),
     slot |-> [r.slot EXCEPT ![r.qt] = m]]

\* Fault: off by one, the last message is never handed out.
NothingToRecvEarly(r) == r.qn <= 1 \/ r.slot[r.qh] = Null

\* port_recv answers 0 ("none") when the count is zero or the head is null.
NothingToRecv(r) == r.qn = 0 \/ r.slot[r.qh] = Null

\* Fault: the slot is not cleared before the message is freed.
DequeueNoClear(r) ==
    [qn   |-> r.qn - 1,
     qh   |-> NextSlot(r.qh),
     qt   |-> r.qt,
     slot |-> r.slot]

\* port_recv clears the head slot, counts down and advances the head.
Dequeue(r) ==
    [qn   |-> r.qn - 1,
     qh   |-> NextSlot(r.qh),
     qt   |-> r.qt,
     slot |-> [r.slot EXCEPT ![r.qh] = Null]]

Occupied(r) == {i \in Slot : r.slot[i] # Null}

\* The slots ports_drain_session(sid) empties.
SlotsOf(r, sid) == {i \in Occupied(r) : r.slot[i].from = sid}

\* The drain nulls the slots in place: neither qh nor qt moves.
Drain(r, sid) ==
    [qn   |-> r.qn - Cardinality(SlotsOf(r, sid)),
     qh   |-> r.qh,
     qt   |-> r.qt,
     slot |-> [i \in Slot |-> IF i \in SlotsOf(r, sid) THEN Null
                                                       ELSE r.slot[i]]]
=============================================================================
