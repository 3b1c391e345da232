----------------------------- MODULE TicketLock -----------------------------
(***************************************************************************)
(* The ticket spinlock of arch/x86_64/lock.cc, the lock of the console and *)
(* of every port ring.  acquire takes a ticket with LOCK XADD and spins    *)
(* until owner reaches it; release advances owner by one; try_acquire      *)
(* reads owner, reads next, and takes a ticket with LOCK CMPXCHG if the    *)
(* two were equal.  Every memory access of these is a step of its own.     *)
(*                                                                         *)
(* The counters are 32-bit in the code: they wrap at Mod.                  *)
(***************************************************************************)
EXTENDS Naturals, FiniteSets

CONSTANTS
    CPU,    \* the cores that use the lock
    Mod     \* 2^32 in the code

ASSUME CPUAssumption == IsFiniteSet(CPU)
ASSUME ModAssumption == Mod \in Nat /\ Cardinality(CPU) < Mod

VARIABLES
    next,       \* lk->next: the next ticket
    owner,      \* lk->owner: the ticket being served
    pc,         \* where each CPU is
    ticket,     \* `my` of acquire, `expected` of a successful try
    seen,       \* `cur` of try_acquire: the owner it read
    lead        \* ghost: tickets issued past `seen` since that read

lockVars == <<next, owner, pc, ticket, seen, lead>>

Ticket == 0 .. Mod - 1

\* Unsigned 32-bit increment.
Inc(x) == IF x = Mod - 1 THEN 0 ELSE x + 1

PC == {"idle", "spin", "held", "try_next", "try_cas"}

Trying(c) == pc[c] \in {"try_next", "try_cas"}

Waiting(c) == pc[c] \in {"spin", "held"}

\* Tickets between a and b, counting upwards modulo Mod.
Dist(a, b) == IF b >= a THEN b - a ELSE b + Mod - a

\* arch_spinlock_init
LockInit ==
    /\ next = 0
    /\ owner = 0
    /\ pc = [c \in CPU |-> "idle"]
    /\ ticket = [c \in CPU |-> 0]
    /\ seen = [c \in CPU |-> 0]
    /\ lead = [c \in CPU |-> 0]

\* Environment assumption, with its bound: no CPU is suspended inside
\* try_acquire while the other CPUs take a full round of 2^32 tickets.
NoRoundDuringTry == \A c \in CPU : Trying(c) => lead[c] < Mod - 1

IssueTicket(c) ==
    /\ NoRoundDuringTry
    /\ next' = Inc(next)
    /\ lead' = [d \in CPU |-> IF d # c /\ Trying(d) THEN lead[d] + 1 ELSE 0]
    /\ ticket' = [ticket EXCEPT ![c] = next]

\* The locals of a try that is over are dead.
EndTry(c) ==
    /\ seen' = [seen EXCEPT ![c] = 0]
    /\ lead' = [lead EXCEPT ![c] = 0]

\* acquire: LOCK XADD
Take(c) ==
    /\ pc[c] = "idle"
    /\ IssueTicket(c)
    /\ pc' = [pc EXCEPT ![c] = "spin"]
    /\ UNCHANGED <<owner, seen>>

\* acquire: the spin loop reads owner == my
Enter(c) ==
    /\ pc[c] = "spin"
    /\ owner = ticket[c]
    /\ pc' = [pc EXCEPT ![c] = "held"]
    /\ UNCHANGED <<next, owner, ticket, seen, lead>>

\* Fault: the bug release's comment describes, "The old code stored `next`
\* into `owner`".
ReleaseStoresNext(c) ==
    /\ pc[c] = "held"
    /\ owner' = next
    /\ pc' = [pc EXCEPT ![c] = "idle"]
    /\ ticket' = [ticket EXCEPT ![c] = 0]
    /\ UNCHANGED <<next, seen, lead>>

\* release: LOCK ADD
Release(c) ==
    /\ pc[c] = "held"
    /\ owner' = Inc(owner)
    /\ pc' = [pc EXCEPT ![c] = "idle"]
    /\ ticket' = [ticket EXCEPT ![c] = 0]
    /\ UNCHANGED <<next, seen, lead>>

\* try_acquire: cur = lk->owner
TryReadOwner(c) ==
    /\ pc[c] = "idle"
    /\ seen' = [seen EXCEPT ![c] = owner]
    /\ lead' = [lead EXCEPT ![c] = Dist(owner, next)]
    /\ pc' = [pc EXCEPT ![c] = "try_next"]
    /\ UNCHANGED <<next, owner, ticket>>

\* try_acquire: expected = lk->next; if (cur != expected) return 0
TryReadNext(c) ==
    /\ pc[c] = "try_next"
    /\ \/ /\ seen[c] = next
          /\ pc' = [pc EXCEPT ![c] = "try_cas"]
          /\ UNCHANGED <<seen, lead>>
       \/ /\ seen[c] # next
          /\ pc' = [pc EXCEPT ![c] = "idle"]
          /\ EndTry(c)
    /\ UNCHANGED <<next, owner, ticket>>

\* Fault: a store instead of CMPXCHG.
TryStore(c) ==
    /\ pc[c] = "try_cas"
    /\ IssueTicket(c)
    /\ seen' = [seen EXCEPT ![c] = 0]
    /\ pc' = [pc EXCEPT ![c] = "held"]
    /\ UNCHANGED owner

\* try_acquire: LOCK CMPXCHG finds next == expected
TrySucceed(c) ==
    /\ pc[c] = "try_cas"
    /\ next = seen[c]
    /\ IssueTicket(c)
    /\ seen' = [seen EXCEPT ![c] = 0]
    /\ pc' = [pc EXCEPT ![c] = "held"]
    /\ UNCHANGED owner

\* try_acquire: LOCK CMPXCHG finds another value
TryFail(c) ==
    /\ pc[c] = "try_cas"
    /\ next # seen[c]
    /\ pc' = [pc EXCEPT ![c] = "idle"]
    /\ EndTry(c)
    /\ UNCHANGED <<next, owner, ticket>>

Step(c) ==
    \/ Take(c)
    \/ Enter(c)
    \/ Release(c)
    \/ TryReadOwner(c)
    \/ TryReadNext(c)
    \/ TrySucceed(c)
    \/ TryFail(c)

LockNext == \E c \in CPU : Step(c)

LockSpec == LockInit /\ [][LockNext]_lockVars

\* A spinning CPU keeps reading owner, a critical section ends (it runs with
\* interrupts off and never blocks), and a try runs to its end.
LockFairSpec ==
    /\ LockSpec
    /\ \A c \in CPU :
          /\ WF_lockVars(Enter(c))
          /\ WF_lockVars(Release(c))
          /\ WF_lockVars(TryReadNext(c) \/ TrySucceed(c) \/ TryFail(c))

-----------------------------------------------------------------------------
(* Properties *)

LockTypeOK ==
    /\ next \in Ticket
    /\ owner \in Ticket
    /\ pc \in [CPU -> PC]
    /\ ticket \in [CPU -> Ticket]
    /\ seen \in [CPU -> Ticket]
    /\ lead \in [CPU -> Ticket]

\* The lock protects: two CPUs are never inside, although try_acquire
\* decides on an owner it read two accesses before its CMPXCHG, and although
\* the counters wrap.
MutualExclusion ==
    \A c, d \in CPU : pc[c] = "held" /\ pc[d] = "held" => c = d

\* The CPUs that hold a ticket, in ticket order from the one being served.
Line ==
    [i \in 1 .. Dist(owner, next) |->
        CHOOSE c \in CPU : Waiting(c) /\ Dist(owner, ticket[c]) = i - 1]

Fifo == INSTANCE FifoLock WITH
            line <- Line,
            holding <- \E c \in CPU : pc[c] = "held"

\* core/arch_lock.h: "fair (FIFO acquisition order...)".  The counters
\* implement a waiting line: release serves exactly the next ticket, and a
\* try never overtakes a waiting CPU.
ImplementsFifo == Fifo!Spec

\* core/arch_lock.h: "no starvation".  Every CPU that took a ticket enters.
NoStarvation == \A c \in CPU : pc[c] = "spin" ~> pc[c] = "held"
=============================================================================
