----------------------------- MODULE WindowRing -----------------------------
(***************************************************************************)
(* A packet window (services/net/packet.go): a ring of slots in memory that *)
(* the net service shares with the kernel's network shim, one producer and *)
(* one consumer, each on its own side.  A send fills a slot and then moves *)
(* the tail, a receive copies a slot and then moves the head; the other    *)
(* side may run in between.  The indices are 32-bit counters that wrap.    *)
(***************************************************************************)
EXTENDS Integers, Sequences

CONSTANTS
    WinSlots,   \* slots of a window (256 in the code)
    CountMod,   \* the counters are modulo this (2^32 in the code)
    FirstCount, \* where the counters stand at first
    MaxFrames   \* bound on the frames sent

VARIABLES
    head, tail,     \* the two counters
    slots,          \* the frames in the slots
    producer,       \* "idle" or "filled": the slot is written, the tail not yet moved
    consumer,       \* the frame copied out of its slot, 0 for none
    put, taken      \* ghost: frames sent and received, the last number of each

windowVars == <<head, tail, slots, producer, consumer, put, taken>>

\* The slots divide the counters, as 256 divides 2^32: a slot number does not
\* jump where a counter wraps.
WindowSizes ==
    /\ WinSlots \in Nat \ {0} /\ CountMod \in Nat /\ CountMod > WinSlots
    /\ CountMod % WinSlots = 0
    /\ FirstCount \in 0 .. CountMod - 1

ASSUME WindowAssumption == WindowSizes

Slot(n) == n % WinSlots

WindowInit ==
    /\ head = FirstCount /\ tail = FirstCount /\ slots = [i \in 0 .. WinSlots - 1 |-> 0]
    /\ producer = "idle" /\ consumer = 0
    /\ put = [w \in {"w"} |-> 0] /\ taken = [w \in {"w"} |-> 0]

\* Fault: one slot too many.
IsFullLate(h, t) == (t - h) % CountMod > WinSlots

\* The difference of the counters, unsigned.
IsFull(h, t) == (t - h) % CountMod >= WinSlots

\* Send: a frame that finds the ring full is dropped.
Fill ==
    /\ producer = "idle" /\ put["w"] < MaxFrames /\ ~IsFull(head, tail)
    /\ slots' = [slots EXCEPT ![Slot(tail)] = put["w"] + 1]
    /\ producer' = "filled"
    /\ UNCHANGED <<head, tail, consumer, put, taken>>

Publish ==
    /\ producer = "filled"
    /\ tail' = (tail + 1) % CountMod
    /\ put' = [put EXCEPT !["w"] = @ + 1]
    /\ producer' = "idle"
    /\ UNCHANGED <<head, slots, consumer, taken>>

\* Recv.
Copy ==
    /\ consumer = 0 /\ head # tail
    /\ consumer' = slots[Slot(head)]
    /\ UNCHANGED <<head, tail, slots, producer, put, taken>>

Release ==
    /\ consumer # 0
    /\ head' = (head + 1) % CountMod
    /\ taken' = [taken EXCEPT !["w"] = consumer]
    /\ consumer' = 0
    /\ UNCHANGED <<tail, slots, producer, put>>

WindowNext == Fill \/ Publish \/ Copy \/ Release
WindowSpec == WindowInit /\ [][WindowNext]_windowVars

-----------------------------------------------------------------------------
\* The frames between the counters.
Frames == [i \in 1 .. (tail - head) % CountMod |->
             [from |-> "w", n |-> slots[Slot((head + i - 1) % CountMod)]]]

Wire == INSTANCE BoundedFifo WITH
    queue <- Frames, Capacity <- WinSlots, Senders <- {"w"}, sent <- put, got <- taken

\* The window is a bounded first-in first-out wire, wherever the counters
\* stand when they wrap and wherever one side overtakes the other's steps.
WindowIsFifo == Wire!Spec
=============================================================================
