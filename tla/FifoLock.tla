------------------------------ MODULE FifoLock ------------------------------
(***************************************************************************)
(* What the spinlock promises (core/arch_lock.h: "fair (FIFO acquisition   *)
(* order, no starvation)"): at most one holder, served in arrival order.   *)
(***************************************************************************)
EXTENDS Sequences

CONSTANT CPU

VARIABLES
    line,       \* the CPUs that asked for the lock, the first one is served
    holding     \* is the first of the line inside?

vars == <<line, holding>>

Init == line = <<>> /\ holding = FALSE

InLine(c) == \E i \in DOMAIN line : line[i] = c

Arrive(c) ==
    /\ ~InLine(c)
    /\ line' = Append(line, c)
    /\ UNCHANGED holding

Enter(c) ==
    /\ line # <<>> /\ Head(line) = c
    /\ ~holding
    /\ holding' = TRUE
    /\ UNCHANGED line

Leave(c) ==
    /\ line # <<>> /\ Head(line) = c
    /\ holding
    /\ line' = Tail(line)
    /\ holding' = FALSE

\* A try succeeds only when nobody holds the lock or waits for it.
Try(c) ==
    /\ line = <<>>
    /\ line' = <<c>>
    /\ holding' = TRUE

Next == \E c \in CPU : Arrive(c) \/ Enter(c) \/ Leave(c) \/ Try(c)

Spec == Init /\ [][Next]_vars
=============================================================================
