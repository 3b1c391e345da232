----------------------------- MODULE CoreProofs -----------------------------
(***************************************************************************)
(* The scheduler (Sched), for every table size: no session is passed over  *)
(* for more than a round, and the stack in use is never taken away.  The   *)
(* ticket lock (TicketLock), for every number of CPUs below the counter    *)
(* width and every width: mutual exclusion and first-come-first-served     *)
(* order.                                                                  *)
(***************************************************************************)
EXTENDS Sched, TicketLock, FiniteSetTheorems, Sequences, TLAPS

LEMMA SameSeq ==
    ASSUME NEW S, NEW s \in Seq(S), NEW t \in Seq(S),
           Len(s) = Len(t), \A i \in 1 .. Len(s) : s[i] = t[i]
    PROVE  s = t
  OBVIOUS

-----------------------------------------------------------------------------
(* The scheduler *)

\* Slots of sessions between next_rr and s in scan order (slot 0, which the
\* scan skips, does not count).
RoundDistance(rr, s) ==
    IF s < rr THEN s + (MaxSessions - 1) - rr
              ELSE IF rr = 0 THEN s - 1 ELSE s - rr

\* Why BoundedBypass holds: every pick of another session brings next_rr at
\* least one slot closer to s.
BypassInv ==
    \A s \in Sid : state[s] = "RUNNABLE" =>
        waited[s] + RoundDistance(next_rr, s) <= MaxSessions - 2

SchedInv == SchedTypeOK /\ StackInUse /\ BypassInv

\* The distance is at most the number of other slots.
LEMMA RoundDistanceBound ==
    ASSUME NEW s \in Sid, NEW rr \in 0 .. MaxSessions - 1
    PROVE  RoundDistance(rr, s) \in 0 .. MaxSessions - 2
  BY MaxSessionsAssumption DEF Sid, RoundDistance

\* A pick of u while s is runnable too moves the scan past u, towards s.
LEMMA PickApproaches ==
    ASSUME NEW s \in Sid, NEW u \in Sid, NEW rr \in 0 .. MaxSessions - 1,
           u # s, ScanDistance(rr, u) <= ScanDistance(rr, s)
    PROVE  RoundDistance(AfterPicked(u), s) + 1 <= RoundDistance(rr, s)
  BY MaxSessionsAssumption
     DEF Sid, ScanDistance, AfterPicked, RoundDistance

LEMMA AfterPickedType ==
    ASSUME NEW u \in Sid
    PROVE  AfterPicked(u) \in 0 .. MaxSessions - 1
  BY MaxSessionsAssumption DEF Sid, AfterPicked

LEMMA ReapedFacts ==
    ASSUME NEW st \in [Sid -> SessionState]
    PROVE  /\ Reaped(st) \in [Sid -> SessionState]
           /\ Runnable(Reaped(st)) = Runnable(st)
           /\ \A s \in Sid : Reaped(st)[s] = "RUNNING" <=> st[s] = "RUNNING"
  BY DEF Reaped, Runnable, SessionState

LEMMA InitInv == SchedInit => SchedInv
<1> SUFFICES ASSUME SchedInit PROVE SchedInv
  OBVIOUS
<1>1. SchedTypeOK
  BY MaxSessionsAssumption DEF SchedInit, SchedTypeOK, SessionState
<1>2. StackInUse
  BY DEF SchedInit, StackInUse
<1>3. BypassInv
  BY MaxSessionsAssumption DEF SchedInit, BypassInv, Sid, RoundDistance
<1> QED
  BY <1>1, <1>2, <1>3 DEF SchedInv

LEMMA LoopInv == SchedInv /\ Loop => SchedInv'
<1> SUFFICES ASSUME SchedInv, Loop PROVE SchedInv'
  OBVIOUS
<1> DEFINE st == Reaped(state)
<1>1. PICK s \in Sid :
        /\ IsPicked(st, next_rr, s)
        /\ state' = [st EXCEPT ![s] = "RUNNING"]
        /\ next_rr' = AfterPicked(s)
        /\ running' = s
        /\ waited' = [u \in Sid |-> IF u \in Runnable(st) \ {s}
                                    THEN Bypassed(waited[u]) ELSE 0]
        /\ caps' = caps
  BY Zenon DEF Loop
<1>2. /\ st \in [Sid -> SessionState]
      /\ Runnable(st) = Runnable(state)
      /\ \A u \in Sid : st[u] = "RUNNING" <=> state[u] = "RUNNING"
  BY ReapedFacts DEF SchedInv, SchedTypeOK
<1>3. SchedTypeOK'
  <2>1. state' \in [Sid -> SessionState]
    BY <1>1, <1>2 DEF SessionState
  <2>2. waited' \in [Sid -> Nat]
    BY <1>1, MaxSessionsAssumption DEF SchedInv, SchedTypeOK, Bypassed
  <2>3. running' \in 0 .. MaxSessions - 1
    BY <1>1, MaxSessionsAssumption DEF Sid
  <2> QED
    BY <1>1, <2>1, <2>2, <2>3, AfterPickedType DEF SchedInv, SchedTypeOK
<1>4. StackInUse'
  <2>1. \A u \in Sid : st[u] # "RUNNING"
    BY <1>2, MaxSessionsAssumption DEF SchedInv, StackInUse, Loop, Sid
  <2> QED
    BY <1>1, <1>2, <2>1 DEF StackInUse
<1>5. BypassInv'
  <2> SUFFICES ASSUME NEW u \in Sid, state'[u] = "RUNNABLE"
               PROVE  waited'[u] + RoundDistance(next_rr', u) <= MaxSessions - 2
    BY DEF BypassInv
  <2>1. u # s /\ st[u] = "RUNNABLE"
    BY <1>1, <1>2
  <2>2. u \in Runnable(st) /\ state[u] = "RUNNABLE"
    BY <1>2, <2>1 DEF Runnable
  <2>3. waited'[u] <= waited[u] + 1 /\ waited'[u] \in Nat
    BY <1>1, <2>1, <2>2, MaxSessionsAssumption DEF Bypassed, SchedInv, SchedTypeOK
  <2>4. ScanDistance(next_rr, s) <= ScanDistance(next_rr, u)
    BY <1>1, <2>2 DEF IsPicked
  <2>5. RoundDistance(next_rr', u) + 1 <= RoundDistance(next_rr, u)
    BY <1>1, <2>1, <2>4, PickApproaches DEF SchedInv, SchedTypeOK
  <2>6. waited[u] + RoundDistance(next_rr, u) <= MaxSessions - 2
    BY <2>2 DEF SchedInv, BypassInv
  <2>7. /\ RoundDistance(next_rr, u) \in Nat
        /\ RoundDistance(next_rr', u) \in Nat
        /\ waited[u] \in Nat
    BY <1>3, RoundDistanceBound DEF SchedInv, SchedTypeOK
  <2> QED
    BY <2>3, <2>5, <2>6, <2>7, MaxSessionsAssumption
<1> QED
  BY <1>3, <1>4, <1>5 DEF SchedInv

LEMMA YieldInv == ASSUME NEW s \in Sid PROVE SchedInv /\ Yield(s) => SchedInv'
<1> SUFFICES ASSUME SchedInv, Yield(s) PROVE SchedInv'
  OBVIOUS
<1> USE DEF SchedInv, Yield
<1>1. SchedTypeOK'
  BY MaxSessionsAssumption DEF SchedTypeOK, SessionState
<1>2. StackInUse'
  BY MaxSessionsAssumption DEF SchedTypeOK, StackInUse, Sid
<1>3. BypassInv'
  <2> SUFFICES ASSUME NEW u \in Sid, state'[u] = "RUNNABLE"
               PROVE  waited'[u] + RoundDistance(next_rr', u) <= MaxSessions - 2
    BY DEF BypassInv
  <2>1. CASE u = s
    BY <2>1, RoundDistanceBound, MaxSessionsAssumption DEF SchedTypeOK
  <2>2. CASE u # s
    BY <2>2 DEF SchedTypeOK, BypassInv
  <2> QED
    BY <2>1, <2>2
<1> QED
  BY <1>1, <1>2, <1>3

LEMMA ExitInv == ASSUME NEW s \in Sid PROVE SchedInv /\ Exit(s) => SchedInv'
<1> SUFFICES ASSUME SchedInv, Exit(s) PROVE SchedInv'
  OBVIOUS
<1> USE DEF SchedInv, Exit
<1>1. SchedTypeOK'
  BY MaxSessionsAssumption DEF SchedTypeOK, SessionState
<1>2. StackInUse'
  BY MaxSessionsAssumption DEF SchedTypeOK, StackInUse, Sid
<1>3. BypassInv'
  BY DEF SchedTypeOK, BypassInv
<1> QED
  BY <1>1, <1>2, <1>3

LEMMA KillInv ==
    ASSUME NEW s \in Sid, NEW v \in Sid
    PROVE  SchedInv /\ Kill(s, v) => SchedInv'
<1> SUFFICES ASSUME SchedInv, Kill(s, v) PROVE SchedInv'
  OBVIOUS
<1> USE DEF SchedInv, Kill
<1>1. SchedTypeOK'
  BY DEF SchedTypeOK, SessionState
<1>2. StackInUse'
  BY DEF SchedTypeOK, StackInUse
<1>3. BypassInv'
  BY DEF SchedTypeOK, BypassInv
<1> QED
  BY <1>1, <1>2, <1>3

LEMMA SpawnInv ==
    ASSUME NEW s \in Sid, NEW want \in SUBSET Cap
    PROVE  SchedInv /\ Spawn(s, want) => SchedInv'
<1> SUFFICES ASSUME SchedInv, Spawn(s, want) PROVE SchedInv'
  OBVIOUS
<1>1. PICK v \in Sid :
        /\ IsFirstFree(state, v)
        /\ state' = [state EXCEPT ![v] = "RUNNABLE"]
        /\ caps' = [caps EXCEPT ![v] = want]
        /\ waited' = [waited EXCEPT ![v] = 0]
        /\ next_rr' = next_rr
        /\ running' = running
  BY Zenon DEF Spawn
<1> USE DEF SchedInv
<1>2. SchedTypeOK'
  BY <1>1 DEF SchedTypeOK, SessionState
<1>3. StackInUse'
  BY <1>1 DEF SchedTypeOK, StackInUse, IsFirstFree
<1>4. BypassInv'
  <2> SUFFICES ASSUME NEW u \in Sid, state'[u] = "RUNNABLE"
               PROVE  waited'[u] + RoundDistance(next_rr', u) <= MaxSessions - 2
    BY DEF BypassInv
  <2>1. CASE u = v
    BY <1>1, <2>1, RoundDistanceBound, MaxSessionsAssumption DEF SchedTypeOK
  <2>2. CASE u # v
    BY <1>1, <2>2 DEF SchedTypeOK, BypassInv
  <2> QED
    BY <2>1, <2>2
<1> QED
  BY <1>2, <1>3, <1>4

LEMMA StepInv == SchedInv /\ [SchedNext]_schedVars => SchedInv'
<1> SUFFICES ASSUME SchedInv, [SchedNext]_schedVars PROVE SchedInv'
  OBVIOUS
<1>1. CASE Loop
  BY <1>1, LoopInv
<1>2. CASE Halt \/ UNCHANGED schedVars
  BY <1>2 DEF Halt, schedVars, SchedInv, SchedTypeOK, StackInUse, BypassInv
<1>3. ASSUME NEW s \in Sid, Leave(s) PROVE SchedInv'
  BY <1>3, YieldInv, ExitInv DEF Leave
<1>4. ASSUME NEW s \in Sid, NEW v \in Sid, Kill(s, v) PROVE SchedInv'
  BY <1>4, KillInv
<1>5. ASSUME NEW s \in Sid, NEW want \in SUBSET Cap, Spawn(s, want)
      PROVE  SchedInv'
  BY <1>5, SpawnInv
<1> QED
  BY <1>1, <1>2, <1>3, <1>4, <1>5 DEF SchedNext

LEMMA SchedInvariant == SchedSpec => []SchedInv
  BY InitInv, StepInv, PTL DEF SchedSpec

\* core/sched.cc, sched_run: the round-robin scan bypasses a runnable session
\* at most once per other slot of the table, for every table size.
THEOREM BypassIsBounded == SchedSpec => []BoundedBypass
<1>1. SchedInv => BoundedBypass
  <2> SUFFICES ASSUME SchedInv, NEW s \in Sid, state[s] = "RUNNABLE"
               PROVE  waited[s] <= MaxSessions - 2
    BY DEF BoundedBypass
  <2>1. waited[s] + RoundDistance(next_rr, s) <= MaxSessions - 2
    BY DEF SchedInv, BypassInv
  <2>2. RoundDistance(next_rr, s) \in Nat /\ waited[s] \in Nat
    BY RoundDistanceBound DEF SchedInv, SchedTypeOK
  <2> QED
    BY <2>1, <2>2, MaxSessionsAssumption
<1> QED
  BY <1>1, SchedInvariant, PTL

\* core/sched.cc: only the session whose stack the core is on is RUNNING, and
\* neither the reaper nor spawn_impl ever takes its slot.
THEOREM StackInUseHolds == SchedSpec => [](SchedTypeOK /\ StackInUse)
<1>1. SchedInv => SchedTypeOK /\ StackInUse
  BY DEF SchedInv
<1> QED
  BY <1>1, SchedInvariant, PTL

-----------------------------------------------------------------------------
(* The ticket lock *)

WaitSet == {c \in CPU : Waiting(c)}

\* Tickets in use lie between owner and next and are distinct; the ticket of
\* a CPU inside is the one being served.
TicketsInOrder ==
    /\ \A c \in CPU : Waiting(c) => Dist(owner, ticket[c]) < Dist(owner, next)
    /\ \A c, d \in CPU : Waiting(c) /\ Waiting(d) /\ ticket[c] = ticket[d] => c = d
    /\ \A c \in CPU : pc[c] = "held" => ticket[c] = owner

\* Exactly the waiting CPUs hold tickets, so next never laps owner.
NoLap == Dist(owner, next) = Cardinality(WaitSet)

\* What a try still knows of the owner it read.
TryKnows ==
    \A c \in CPU : Trying(c) =>
        Dist(seen[c], owner) + Dist(owner, next) = lead[c]

LockInv == LockTypeOK /\ TicketsInOrder /\ NoLap /\ TryKnows

-----------------------------------------------------------------------------
(* Counters modulo Mod *)

LEMMA ModPositive == Mod \in Nat /\ Mod >= 1 /\ Cardinality(CPU) \in Nat
  BY CPUAssumption, ModAssumption, FS_CardinalityType, SMTT(60)

LEMMA TicketArith ==
    ASSUME NEW a \in Ticket, NEW b \in Ticket
    PROVE  /\ Inc(a) \in Ticket
           /\ Dist(a, b) \in Ticket
           /\ Dist(a, b) = 0 <=> a = b
           /\ Dist(a, b) < Mod - 1 => Dist(a, Inc(b)) = Dist(a, b) + 1
           /\ Dist(a, b) > 0 => Dist(Inc(a), b) = Dist(a, b) - 1
           /\ Dist(a, b) + Dist(b, a) < Mod => a = b
  BY ModPositive DEF Ticket, Inc, Dist

LEMMA DistPositive ==
    ASSUME NEW a \in Ticket, NEW b \in Ticket, a # b
    PROVE  /\ Dist(a, b) \in Nat
           /\ Dist(a, b) > 0
           /\ Dist(Inc(a), b) = Dist(a, b) - 1
  BY ModPositive DEF Ticket, Inc, Dist

LEMMA DistInjective ==
    ASSUME NEW a \in Ticket, NEW b \in Ticket, NEW d \in Ticket,
           Dist(a, b) = Dist(a, d)
    PROVE  b = d
  BY ModPositive DEF Ticket, Dist

LEMMA WaitSetFinite ==
    /\ IsFiniteSet(WaitSet)
    /\ Cardinality(WaitSet) \in Nat
    /\ Cardinality(WaitSet) <= Cardinality(CPU)
<1>1. WaitSet \subseteq CPU
  BY DEF WaitSet
<1> QED
  BY <1>1, CPUAssumption, FS_Subset, FS_CardinalityType

\* A CPU that does not wait leaves room for one more ticket.
LEMMA RoomForTicket ==
    ASSUME LockInv, NEW c \in CPU, ~Waiting(c)
    PROVE  Dist(owner, next) + 1 <= Mod - 1
<1>1. /\ IsFiniteSet(WaitSet \cup {c})
      /\ Cardinality(WaitSet \cup {c}) = Cardinality(WaitSet) + 1
  <2>1. c \notin WaitSet
    BY DEF WaitSet
  <2> QED
    BY <2>1, WaitSetFinite, FS_AddElement
<1>2. Cardinality(WaitSet \cup {c}) <= Cardinality(CPU)
  <2>1. WaitSet \cup {c} \subseteq CPU
    BY DEF WaitSet
  <2> QED
    BY <2>1, CPUAssumption, FS_Subset
<1> QED
  BY <1>1, <1>2, ModPositive, ModAssumption, WaitSetFinite, SMTT(60) DEF LockInv, NoLap

-----------------------------------------------------------------------------
(* The steps *)

\* Issuing a ticket to c, by XADD or by CMPXCHG.
LEMMA IssueInv ==
    ASSUME LockInv, NEW c \in CPU, ~Waiting(c), IssueTicket(c),
           NEW p \in {"spin", "held"},
           p = "held" => owner = next,
           pc' = [pc EXCEPT ![c] = p],
           seen' \in [CPU -> Ticket],
           \A d \in CPU : d # c => seen'[d] = seen[d],
           owner' = owner
    PROVE  LockInv'
<1>0. Dist(owner, next) + 1 <= Mod - 1
  BY RoomForTicket, SMTT(60)
<1> USE DEF LockInv
<1>1. Dist(owner, next') = Dist(owner, next) + 1 /\ Dist(owner, next) \in Nat
  <2>1. Dist(owner, next) \in 0 .. Mod - 1 /\ next \in Ticket /\ owner \in Ticket
    BY TicketArith DEF LockTypeOK, Ticket
  <2>2. Dist(owner, next) < Mod - 1
    BY <1>0, <2>1, ModPositive, SMTT(60)
  <2> QED
    BY <2>1, <2>2, TicketArith, SMTT(60) DEF IssueTicket
<1>2. LockTypeOK'
  <2>1. next' \in Ticket
    BY TicketArith DEF IssueTicket, LockTypeOK
  <2>2. lead' \in [CPU -> Ticket]
    BY ModPositive DEF IssueTicket, NoRoundDuringTry, LockTypeOK, Ticket
  <2>3. ticket' \in [CPU -> Ticket]
    BY DEF IssueTicket, LockTypeOK
  <2>4. pc' \in [CPU -> PC]
    BY DEF LockTypeOK, PC
  <2> QED
    BY <2>1, <2>2, <2>3, <2>4, SMTT(60) DEF LockTypeOK
<1>3. \A d \in CPU : d # c => /\ pc'[d] = pc[d]
                              /\ ticket'[d] = ticket[d]
                              /\ Waiting(d)' <=> Waiting(d)
                              /\ Trying(d)' <=> Trying(d)
  BY DEF IssueTicket, LockTypeOK, Waiting, Trying
<1>4. ticket'[c] = next /\ pc'[c] = p /\ Waiting(c)' /\ ~Trying(c)'
  BY DEF IssueTicket, LockTypeOK, Waiting, Trying
<1>5. TicketsInOrder'
  <2>1. \A d \in CPU : Waiting(d)' => Dist(owner', ticket'[d]) < Dist(owner', next')
    <3> SUFFICES ASSUME NEW d \in CPU, Waiting(d)'
                 PROVE  Dist(owner, ticket'[d]) < Dist(owner, next')
      OBVIOUS
    <3>1. CASE d = c
      BY <1>1, <1>4, <3>1, SMTT(60)
    <3>2. CASE d # c
      <4>1. Dist(owner, ticket[d]) < Dist(owner, next)
        BY <1>3, <3>2 DEF TicketsInOrder
      <4>2. Dist(owner, ticket[d]) \in Nat
        BY TicketArith, SMTT(60) DEF LockTypeOK, Ticket
      <4> QED
        BY <1>1, <1>3, <3>2, <4>1, <4>2, SMTT(60)
    <3> QED
      BY <3>1, <3>2, SMTT(60)
  <2>2. \A d \in CPU : d # c /\ Waiting(d)' => ticket'[d] # next
    BY <1>1, <1>3, SMTT(60) DEF TicketsInOrder
  <2>3. \A d, e \in CPU :
            Waiting(d)' /\ Waiting(e)' /\ ticket'[d] = ticket'[e] => d = e
    BY <1>3, <1>4, <2>2, SMTT(60) DEF TicketsInOrder
  <2>4. \A d \in CPU : pc'[d] = "held" => ticket'[d] = owner'
    BY <1>3, <1>4 DEF TicketsInOrder
  <2> QED
    BY <2>1, <2>3, <2>4, SMTT(60) DEF TicketsInOrder
<1>6. NoLap'
  <2>1. WaitSet' = WaitSet \cup {c} /\ c \notin WaitSet
    BY <1>3, <1>4 DEF WaitSet
  <2>2. Cardinality(WaitSet \cup {c}) = Cardinality(WaitSet) + 1
    BY <2>1, WaitSetFinite, FS_AddElement, Zenon
  <2> QED
    BY <1>1, <2>1, <2>2, SMTT(60) DEF NoLap
<1>7. TryKnows'
  <2> SUFFICES ASSUME NEW d \in CPU, Trying(d)'
               PROVE  Dist(seen'[d], owner') + Dist(owner', next') = lead'[d]
    BY DEF TryKnows
  <2>1. d # c /\ Trying(d)
    BY <1>3, <1>4
  <2>2. lead'[d] = lead[d] + 1
    BY <2>1 DEF IssueTicket
  <2>3. Dist(seen[d], owner) + Dist(owner, next) = lead[d]
    BY <2>1 DEF TryKnows
  <2>4. Dist(seen[d], owner) \in Nat
    BY TicketArith DEF LockTypeOK, Ticket
  <2> QED
    BY <1>1, <2>1, <2>2, <2>3, <2>4
<1> QED
  BY <1>2, <1>5, <1>6, <1>7, SMTT(60)

LEMMA TakeInv == ASSUME NEW c \in CPU PROVE LockInv /\ Take(c) => LockInv'
<1> SUFFICES ASSUME LockInv, Take(c) PROVE LockInv'
  OBVIOUS
<1>1. ~Waiting(c) /\ seen' = seen
  BY DEF Take, Waiting
<1> QED
  BY <1>1, IssueInv, Zenon DEF Take, LockInv, LockTypeOK

\* A try succeeds only on a free lock.
LEMMA TryFindsFree ==
    ASSUME LockInv, NEW c \in CPU, TrySucceed(c) PROVE owner = next
<1> USE DEF LockInv
<1>1. Trying(c) /\ next = seen[c]
  BY DEF TrySucceed, Trying
<1>2. Dist(next, owner) + Dist(owner, next) = lead[c] /\ lead[c] < Mod
  BY <1>1, ModPositive DEF TryKnows, LockTypeOK, Ticket
<1> QED
  BY <1>2, TicketArith, ZenonT(60) DEF LockTypeOK

LEMMA TrySucceedInv ==
    ASSUME NEW c \in CPU PROVE LockInv /\ TrySucceed(c) => LockInv'
<1> SUFFICES ASSUME LockInv, TrySucceed(c) PROVE LockInv'
  OBVIOUS
<1>1. ~Waiting(c)
  BY DEF TrySucceed, Waiting
<1>2. seen' \in [CPU -> Ticket] /\ \A d \in CPU : d # c => seen'[d] = seen[d]
  BY ModPositive DEF TrySucceed, LockInv, LockTypeOK, Ticket
<1> QED
  BY <1>1, <1>2, TryFindsFree, IssueInv, Zenon DEF TrySucceed

LEMMA EnterInv == ASSUME NEW c \in CPU PROVE LockInv /\ Enter(c) => LockInv'
<1> SUFFICES ASSUME LockInv, Enter(c) PROVE LockInv'
  OBVIOUS
<1> USE DEF LockInv, Enter
<1>1. LockTypeOK'
  BY DEF LockTypeOK, PC
<1>2. \A d \in CPU : (Waiting(d)' <=> Waiting(d)) /\ (Trying(d)' <=> Trying(d))
  BY DEF LockTypeOK, Waiting, Trying
<1>3. TicketsInOrder'
  BY <1>2 DEF LockTypeOK, TicketsInOrder
<1>4. NoLap'
  BY <1>2 DEF NoLap, WaitSet
<1>5. TryKnows'
  BY <1>2 DEF TryKnows
<1> QED
  BY <1>1, <1>3, <1>4, <1>5

LEMMA ReleaseInv == ASSUME NEW c \in CPU PROVE LockInv /\ Release(c) => LockInv'
<1> SUFFICES ASSUME LockInv, Release(c) PROVE LockInv'
  OBVIOUS
<1> USE DEF LockInv, Release
<1>1. LockTypeOK'
  <2>1. owner' \in Ticket
    BY TicketArith DEF LockTypeOK
  <2>2. 0 \in Ticket
    BY ModPositive DEF Ticket
  <2> QED
    BY <2>1, <2>2 DEF LockTypeOK, PC
<1>2. /\ Waiting(c) /\ ~Waiting(c)' /\ ~Trying(c)'
      /\ \A d \in CPU : d # c => /\ Waiting(d)' <=> Waiting(d)
                                 /\ Trying(d)' <=> Trying(d)
                                 /\ pc'[d] = pc[d]
                                 /\ ticket'[d] = ticket[d]
  BY DEF LockTypeOK, Waiting, Trying
<1>3. ticket[c] = owner
  BY SMTT(60) DEF TicketsInOrder
<1>4. Dist(owner, next) > 0 /\ Dist(owner, next) \in Nat
  BY <1>2, TicketArith, ModPositive, SMTT(60) DEF TicketsInOrder, LockTypeOK, Ticket
<1>5. Dist(owner', next') = Dist(owner, next) - 1
  BY <1>4, TicketArith, SMTT(60) DEF LockTypeOK
<1>6. TicketsInOrder'
  <2>1. ASSUME NEW d \in CPU, Waiting(d)'
        PROVE  Dist(owner', ticket'[d]) < Dist(owner', next')
    <3>1. d # c /\ Waiting(d) /\ ticket'[d] = ticket[d]
      BY <1>2, <2>1, SMTT(60)
    <3>2. ticket[d] # owner
      BY <1>2, <1>3, <3>1, SMTT(60) DEF TicketsInOrder
    <3>a. owner \in Ticket /\ ticket[d] \in Ticket
      BY DEF LockTypeOK
    <3>3. /\ Dist(owner, ticket[d]) \in Nat
          /\ Dist(owner, ticket[d]) > 0
          /\ Dist(Inc(owner), ticket[d]) = Dist(owner, ticket[d]) - 1
      BY <3>2, <3>a, DistPositive, SMTT(60)
    <3>4. Dist(owner', ticket[d]) = Dist(owner, ticket[d]) - 1
      BY <3>3
    <3>5. Dist(owner, ticket[d]) < Dist(owner, next)
      BY <3>1 DEF TicketsInOrder
    <3> QED
      BY <1>4, <1>5, <3>1, <3>3, <3>4, <3>5, SMTT(60)
  <2>2. \A d, e \in CPU :
            Waiting(d)' /\ Waiting(e)' /\ ticket'[d] = ticket'[e] => d = e
    BY <1>2 DEF TicketsInOrder
  <2>3. \A d \in CPU : pc'[d] # "held"
    <3> SUFFICES ASSUME NEW d \in CPU, pc'[d] = "held" PROVE FALSE
      OBVIOUS
    <3>1. d # c /\ pc[d] = "held"
      BY <1>2 DEF LockTypeOK
    <3>2. ticket[d] = owner /\ Waiting(d)
      BY <3>1, SMTT(60) DEF TicketsInOrder, Waiting
    <3> QED
      BY <1>2, <1>3, <3>1, <3>2, SMTT(60) DEF TicketsInOrder
  <2> QED
    BY <2>1, <2>2, <2>3, SMTT(60) DEF TicketsInOrder
<1>7. NoLap'
  <2>1. WaitSet' = WaitSet \ {c} /\ c \in WaitSet
    BY <1>2 DEF WaitSet
  <2> QED
    BY <1>5, <2>1, WaitSetFinite, FS_RemoveElement, ZenonT(60) DEF NoLap
<1>8. TryKnows'
  <2> SUFFICES ASSUME NEW d \in CPU, Trying(d)'
               PROVE  Dist(seen[d], owner') + Dist(owner', next') = lead[d]
    BY DEF TryKnows
  <2>1. Dist(seen[d], owner) + Dist(owner, next) = lead[d]
    BY <1>2 DEF TryKnows
  <2>2. Dist(seen[d], owner) \in Nat /\ lead[d] \in Ticket
    BY TicketArith, SMTT(60) DEF LockTypeOK, Ticket
  <2>3. Dist(seen[d], owner) < Mod - 1
    BY <1>4, <2>1, <2>2, ModPositive, SMTT(60) DEF Ticket
  <2>4. Dist(seen[d], owner') = Dist(seen[d], owner) + 1
    BY <2>3, TicketArith, SMTT(60) DEF LockTypeOK
  <2> QED
    BY <1>4, <1>5, <2>1, <2>2, <2>4
<1> QED
  BY <1>1, <1>6, <1>7, <1>8, SMTT(60)

LEMMA TryInv ==
    ASSUME NEW c \in CPU
    PROVE  LockInv /\ (TryReadOwner(c) \/ TryReadNext(c) \/ TryFail(c)) => LockInv'
<1> SUFFICES ASSUME LockInv, TryReadOwner(c) \/ TryReadNext(c) \/ TryFail(c)
             PROVE  LockInv'
  OBVIOUS
<1> USE DEF LockInv
<1>0. 0 \in Ticket
  BY ModPositive DEF Ticket
<1>1. next' = next /\ owner' = owner /\ ticket' = ticket
  BY DEF TryReadOwner, TryReadNext, TryFail
<1>2. \A d \in CPU : /\ Waiting(d)' <=> Waiting(d)
                     /\ pc'[d] = "held" => pc[d] = "held"
  BY SMTT(60) DEF TryReadOwner, TryReadNext, TryFail, LockTypeOK, Waiting
<1>3. TicketsInOrder' /\ NoLap'
  BY <1>1, <1>2 DEF TicketsInOrder, NoLap, WaitSet
<1>4. CASE TryReadOwner(c)
  <2>1. LockTypeOK'
    BY <1>4, TicketArith, SMTT(60) DEF TryReadOwner, LockTypeOK, PC
  <2>2. \A d \in CPU : d # c => (Trying(d)' <=> Trying(d))
    BY <1>4, SMTT(60) DEF TryReadOwner, LockTypeOK, Trying
  <2>3. Dist(owner, owner) = 0 /\ Dist(owner, next) \in Nat
    BY TicketArith, SMTT(60) DEF LockTypeOK, Ticket
  <2>4. TryKnows'
    BY <1>4, <2>2, <2>3, SMTT(60) DEF TryReadOwner, TryKnows, LockTypeOK
  <2> QED
    BY <1>3, <2>1, <2>4, SMTT(60)
<1>5. CASE TryReadNext(c) \/ TryFail(c)
  <2>1. LockTypeOK'
    BY <1>0, <1>5, SMTT(60) DEF TryReadNext, TryFail, EndTry, LockTypeOK, PC
  <2>2. \A d \in CPU : Trying(d)' => /\ Trying(d)
                                     /\ seen'[d] = seen[d]
                                     /\ lead'[d] = lead[d]
    BY <1>5, SMTT(60) DEF TryReadNext, TryFail, EndTry, LockTypeOK, Trying
  <2>3. TryKnows'
    BY <1>1, <2>2 DEF TryKnows
  <2> QED
    BY <1>3, <2>1, <2>3
<1> QED
  BY <1>4, <1>5

LEMMA LockInitInv == LockInit => LockInv
<1> SUFFICES ASSUME LockInit PROVE LockInv
  OBVIOUS
<1>1. LockTypeOK
  BY ModPositive DEF LockInit, LockTypeOK, Ticket, PC
<1>2. \A c \in CPU : ~Waiting(c) /\ ~Trying(c)
  BY DEF LockInit, Waiting, Trying
<1>3. TicketsInOrder
  BY <1>2, SMTT(60) DEF LockInit, TicketsInOrder
<1>4. NoLap
  <2>1. WaitSet = {}
    BY <1>2 DEF WaitSet
  <2> QED
    BY <2>1, FS_EmptySet, TicketArith, SMTT(60) DEF NoLap, LockInit, Dist
<1>5. TryKnows
  BY <1>2 DEF TryKnows
<1> QED
  BY <1>1, <1>3, <1>4, <1>5, SMTT(60) DEF LockInv

LEMMA LockStep == LockInv /\ [LockNext]_lockVars => LockInv'
<1> SUFFICES ASSUME LockInv, [LockNext]_lockVars PROVE LockInv'
  OBVIOUS
<1>1. ASSUME NEW c \in CPU, Step(c) PROVE LockInv'
  BY <1>1, TakeInv, EnterInv, ReleaseInv, TryInv, TrySucceedInv, SMTT(60) DEF Step
<1>2. CASE UNCHANGED lockVars
  BY <1>2 DEF lockVars, LockInv, LockTypeOK, TicketsInOrder, NoLap, WaitSet, TryKnows,
              Waiting, Trying
<1> QED
  BY <1>1, <1>2, SMTT(60) DEF LockNext

\* arch/x86_64/lock.cc: acquire and try_acquire never let two CPUs in, for
\* every number of CPUs and across counter wrap-around.
THEOREM LockSafe == LockSpec => [](LockTypeOK /\ MutualExclusion)
<1>1. LockInv => LockTypeOK /\ MutualExclusion
  BY SMTT(60) DEF LockInv, TicketsInOrder, MutualExclusion, Waiting
<1> QED
  BY <1>1, LockInitInv, LockStep, PTL DEF LockSpec
-----------------------------------------------------------------------------
(* The counters implement the waiting line *)

\* Every ticket between owner and next is some CPU's.
LineFilled ==
    \A k \in Nat : k < Dist(owner, next) =>
        \E c \in CPU : Waiting(c) /\ Dist(owner, ticket[c]) = k

LineInv == LockInv /\ LineFilled

TicketPlace(c) == Dist(owner, ticket[c]) + 1

\* What Line is: the waiting CPUs, each once, in ticket order.
LineIsOrder ==
    /\ Dist(owner, next) \in Nat
    /\ Line \in Seq(CPU)
    /\ Len(Line) = Dist(owner, next)
    /\ \A i \in 1 .. Len(Line) : Waiting(Line[i]) /\ TicketPlace(Line[i]) = i
    /\ \A c \in CPU : Waiting(c) =>
          TicketPlace(c) \in 1 .. Len(Line) /\ Line[TicketPlace(c)] = c

LEMMA LineFacts == LineInv => LineIsOrder
<1> SUFFICES ASSUME LineInv PROVE LineIsOrder
  OBVIOUS
<1> USE DEF LineInv, LockInv
<1>0. \A c \in CPU : Dist(owner, ticket[c]) \in Nat
  BY TicketArith, SMTT(60) DEF LockTypeOK, Ticket
<1>1. Dist(owner, next) \in Nat
  BY TicketArith, SMTT(60) DEF LockTypeOK, Ticket
<1> DEFINE n == Dist(owner, next)
           At(i, c) == Waiting(c) /\ Dist(owner, ticket[c]) = i - 1
<1>2. \A i \in 1 .. n : \E c \in CPU : At(i, c)
  <2> SUFFICES ASSUME NEW i \in 1 .. n PROVE \E c \in CPU : At(i, c)
    OBVIOUS
  <2>1. i - 1 \in Nat /\ i - 1 < Dist(owner, next)
    BY <1>1
  <2> QED
    BY <2>1, SMTT(60) DEF LineFilled
<1>3. Line = [i \in 1 .. n |-> CHOOSE c \in CPU : At(i, c)]
  BY DEF Line
<1> HIDE DEF n, At
<1>4. \A i \in 1 .. n : Line[i] \in CPU /\ At(i, Line[i])
  BY <1>2, <1>3, SMTT(60)
<1>5. Line \in Seq(CPU) /\ Len(Line) = n
  <2>1. Line \in [1 .. n -> CPU]
    BY <1>3, <1>4, SMTT(60)
  <2> QED
    BY <1>1, <2>1, SMTT(60) DEF n
<1>6. \A i \in 1 .. n : Waiting(Line[i]) /\ TicketPlace(Line[i]) = i
  BY <1>1, <1>4, SMTT(60) DEF At, TicketPlace, n
<1>7. ASSUME NEW c \in CPU, Waiting(c)
      PROVE  TicketPlace(c) \in 1 .. n /\ Line[TicketPlace(c)] = c
  <2>1. TicketPlace(c) \in 1 .. n
    <3>1. Dist(owner, ticket[c]) < Dist(owner, next)
      BY <1>7, SMTT(60) DEF TicketsInOrder
    <3> QED
      BY <1>0, <1>1, <3>1, SMTT(60) DEF n, TicketPlace
  <2> DEFINE d == Line[TicketPlace(c)]
  <2>2. d \in CPU /\ Waiting(d) /\ TicketPlace(d) = TicketPlace(c)
    BY <1>4, <1>6, <2>1, SMTT(60)
  <2>3. Dist(owner, ticket[d]) = Dist(owner, ticket[c])
    BY <1>0, <2>2, SMTT(60) DEF TicketPlace
  <2>4. ticket[d] = ticket[c]
    BY <2>2, <2>3, DistInjective, SMTT(60) DEF LockTypeOK
  <2> QED
    BY <1>7, <2>1, <2>2, <2>4, SMTT(60) DEF TicketsInOrder
<1> QED
  BY <1>1, <1>5, <1>6, <1>7, SMTT(60) DEF LineIsOrder, n
\* A step that leaves the tickets and the waiting CPUs alone leaves the line.
LEMMA LineUnchanged ==
    ASSUME LineInv, LockInv', next' = next, owner' = owner,
           \A c \in CPU : Waiting(c)' <=> Waiting(c),
           \A c \in CPU : Waiting(c) => ticket'[c] = ticket[c]
    PROVE  LineFilled' /\ Line' = Line
<1>1. LineFilled'
  BY DEF LineInv, LineFilled
<1>2. LineIsOrder /\ LineIsOrder'
  <2>1. LineInv /\ LineInv'
    BY <1>1, SMTT(60) DEF LineInv
  <2> QED
    BY <2>1, LineFacts, PTL
<1>3. \A i \in 1 .. Len(Line) : Line'[i] = Line[i]
  <2> SUFFICES ASSUME NEW i \in 1 .. Len(Line) PROVE Line'[i] = Line[i]
    BY SMTT(60)
  <2>1. PICK x \in CPU : Line[i] = x /\ Waiting(x) /\ TicketPlace(x) = i
    BY <1>2 DEF LineIsOrder
  <2>2. Waiting(x)' /\ TicketPlace(x)' = i
    BY <2>1, SMTT(60) DEF TicketPlace
  <2> QED
    BY <1>2, <2>1, <2>2, SMTT(60) DEF LineIsOrder
<1>4. Len(Line') = Len(Line)
  BY <1>2 DEF LineIsOrder
<1> QED
  BY <1>1, <1>2, <1>3, <1>4, SameSeq, SMTT(60) DEF LineIsOrder
\* A ticket issued to c adds c to the end of the line.
LEMMA LineGrows ==
    ASSUME LineInv, LockInv', NEW c \in CPU, ~Waiting(c), Waiting(c)',
           IssueTicket(c), owner' = owner,
           \A d \in CPU : d # c => (Waiting(d)' <=> Waiting(d))
    PROVE  LineFilled' /\ Line' = Append(Line, c)
<1> USE DEF LineInv
<1>1. /\ Dist(owner', next') = Dist(owner, next) + 1
      /\ Dist(owner, next) \in Nat
  <2>1. Dist(owner, next) \in Nat /\ next \in Ticket /\ owner \in Ticket
    BY TicketArith DEF LockInv, LockTypeOK, Ticket
  <2>2. Dist(owner, next) < Mod - 1
    BY <2>1, ModPositive, RoomForTicket, SMTT(60)
  <2> QED
    BY <2>1, <2>2, TicketArith, SMTT(60) DEF IssueTicket
<1>2. /\ ticket'[c] = next
      /\ \A d \in CPU : d # c => ticket'[d] = ticket[d]
  BY DEF IssueTicket, LockInv, LockTypeOK
<1>3. LineFilled'
  <2> SUFFICES ASSUME NEW k \in Nat, k < Dist(owner', next')
               PROVE  \E d \in CPU : Waiting(d)' /\ Dist(owner', ticket'[d]) = k
    BY SMTT(60) DEF LineFilled
  <2>1. CASE k = Dist(owner, next)
    BY <1>2, <2>1, SMTT(60)
  <2>2. CASE k < Dist(owner, next)
    BY <1>2, <2>2 DEF LineFilled
  <2> QED
    BY <1>1, <2>1, <2>2, SMTT(60)
<1>4. LineIsOrder /\ LineIsOrder'
  BY <1>3, LineFacts, PTL
<1>5. \A i \in 1 .. Len(Line) : Line'[i] = Line[i]
  <2> SUFFICES ASSUME NEW i \in 1 .. Len(Line) PROVE Line'[i] = Line[i]
    BY SMTT(60)
  <2>1. PICK x \in CPU : Line[i] = x /\ Waiting(x) /\ TicketPlace(x) = i
    BY <1>4, SMTT(60) DEF LineIsOrder
  <2>2. Waiting(x)' /\ TicketPlace(x)' = i
    BY <1>2, <2>1, SMTT(60) DEF TicketPlace
  <2> QED
    BY <1>4, <2>1, <2>2, SMTT(60) DEF LineIsOrder
<1>6. Line'[Len(Line) + 1] = c
  <2>1. TicketPlace(c)' = Len(Line) + 1
    BY <1>2, <1>4, SMTT(60) DEF LineIsOrder, TicketPlace
  <2> QED
    BY <1>4, <2>1, SMTT(60) DEF LineIsOrder
<1>7. Len(Line') = Len(Line) + 1
  BY <1>1, <1>4, SMTT(60) DEF LineIsOrder
<1>8. Line' = Append(Line, c)
  <2>1. Line \in Seq(CPU) /\ Line' \in Seq(CPU) /\ Len(Line) \in Nat
    BY <1>4, SMTT(60) DEF LineIsOrder
  <2>2. \A i \in 1 .. Len(Line) + 1 : Line'[i] = Append(Line, c)[i]
    <3> SUFFICES ASSUME NEW i \in 1 .. Len(Line) + 1
                 PROVE  Line'[i] = Append(Line, c)[i]
      OBVIOUS
    <3>1. i = Len(Line) + 1 \/ i \in 1 .. Len(Line)
      BY <2>1, SMTT(60)
    <3> QED
      BY <1>5, <1>6, <2>1, <3>1, SMTT(60)
  <2> QED
    BY <1>7, <2>1, <2>2, SameSeq, SMTT(60)
<1> QED
  BY <1>3, <1>8, SMTT(60)

\* A release takes the CPU being served off the front of the line.
LEMMA LineShrinks ==
    ASSUME LineInv, LockInv', NEW c \in CPU, Release(c)
    PROVE  /\ LineFilled'
           /\ Line # <<>> /\ Head(Line) = c
           /\ Line' = Tail(Line)
<1> USE DEF LineInv, Release
<1>1. /\ Waiting(c) /\ ~Waiting(c)' /\ ticket[c] = owner /\ next' = next
      /\ \A d \in CPU : d # c => /\ Waiting(d)' <=> Waiting(d)
                                 /\ ticket'[d] = ticket[d]
  BY DEF LockInv, LockTypeOK, Waiting, TicketsInOrder
<1>2. LineIsOrder
  BY LineFacts, SMTT(60)
<1>3. TicketPlace(c) = 1
  BY <1>1, TicketArith, SMTT(60) DEF LockInv, LockTypeOK, TicketPlace
<1>4. Len(Line) >= 1 /\ Line[1] = c
  BY <1>1, <1>2, <1>3, SMTT(60) DEF LineIsOrder
<1>5. Dist(owner', next') = Dist(owner, next) - 1
  BY <1>2, <1>4, TicketArith, SMTT(60) DEF LineIsOrder, LockInv, LockTypeOK
<1>6. ASSUME NEW x \in CPU, Waiting(x), TicketPlace(x) # 1
      PROVE  Waiting(x)' /\ TicketPlace(x)' = TicketPlace(x) - 1
  <2>1. x # c
    BY <1>3, <1>6, SMTT(60)
  <2>2. owner \in Ticket /\ ticket[x] \in Ticket /\ owner # ticket[x]
    BY <1>1, <1>6, <2>1, SMTT(60) DEF LockInv, LockTypeOK, TicketsInOrder
  <2>3. /\ Dist(owner, ticket[x]) \in Nat
        /\ Dist(Inc(owner), ticket[x]) = Dist(owner, ticket[x]) - 1
    BY <2>2, DistPositive, SMTT(60)
  <2> QED
    BY <1>1, <1>6, <2>1, <2>3, SMTT(60) DEF TicketPlace
<1>7. LineFilled'
  <2> SUFFICES ASSUME NEW k \in Nat, k < Dist(owner', next')
               PROVE  \E d \in CPU : Waiting(d)' /\ Dist(owner', ticket'[d]) = k
    BY SMTT(60) DEF LineFilled
  <2>1. k + 1 \in Nat /\ k + 1 < Dist(owner, next)
    BY <1>2, <1>5, SMTT(60) DEF LineIsOrder
  <2>2. PICK x \in CPU : Waiting(x) /\ Dist(owner, ticket[x]) = k + 1
    BY <2>1, SMTT(60) DEF LineFilled
  <2>3. TicketPlace(x) = k + 2
    BY <2>2, SMTT(60) DEF TicketPlace
  <2>4. Waiting(x)' /\ TicketPlace(x)' = k + 1
    BY <1>6, <2>2, <2>3, SMTT(60)
  <2>5. Dist(owner', ticket'[x]) \in Nat
    <3>1. owner' \in Ticket /\ ticket'[x] \in Ticket
      BY DEF LockInv, LockTypeOK
    <3>2. Dist(owner', ticket'[x]) \in Ticket
      BY <3>1, TicketArith
    <3> QED
      BY <3>2, SMTT(60) DEF Ticket
  <2> QED
    BY <2>4, <2>5, SMTT(60) DEF TicketPlace
<1>8. LineIsOrder'
  BY <1>7, LineFacts, PTL
<1>9. \A i \in 1 .. Len(Line) - 1 : Line'[i] = Line[i + 1]
  <2> SUFFICES ASSUME NEW i \in 1 .. Len(Line) - 1 PROVE Line'[i] = Line[i + 1]
    OBVIOUS
  <2>0. i + 1 \in 1 .. Len(Line) /\ i + 1 # 1
    BY <1>2, SMTT(60) DEF LineIsOrder
  <2>1. PICK x \in CPU : Line[i + 1] = x /\ Waiting(x) /\ TicketPlace(x) = i + 1
    BY <1>2, <2>0, SMTT(60) DEF LineIsOrder
  <2>2. Waiting(x)' /\ TicketPlace(x)' = i
    BY <1>6, <2>0, <2>1, SMTT(60)
  <2> QED
    BY <1>8, <2>1, <2>2, SMTT(60) DEF LineIsOrder
<1>10. Line' = Tail(Line)
  <2>1. /\ Line \in Seq(CPU) /\ Line # <<>> /\ Line' \in Seq(CPU)
        /\ Len(Line') = Len(Line) - 1
    BY <1>2, <1>4, <1>5, <1>8, SMTT(60) DEF LineIsOrder
  <2>2. /\ Tail(Line) \in Seq(CPU) /\ Len(Tail(Line)) = Len(Line) - 1
        /\ \A i \in 1 .. Len(Tail(Line)) : Tail(Line)[i] = Line[i + 1]
    BY <2>1, SMTT(60)
  <2> QED
    BY <1>9, <2>1, <2>2, SameSeq, SMTT(60)
<1> QED
  BY <1>2, <1>4, <1>7, <1>10, SMTT(60) DEF LineIsOrder
\* Each step of a CPU is a step of the waiting line, or leaves it alone.
LEMMA StepIsLineStep ==
    ASSUME LineInv, LockInv', NEW c \in CPU, Step(c)
    PROVE  LineFilled' /\ [Fifo!Next]_(Fifo!vars)
<1> DEFINE holding == \E d \in CPU : pc[d] = "held"
<1>0. LineIsOrder /\ LockInv /\ LockTypeOK
  BY LineFacts DEF LineInv, LockInv
<1>1. CASE Take(c)
  <2>1. /\ ~Waiting(c) /\ Waiting(c)'
        /\ \A d \in CPU : d # c => (Waiting(d)' <=> Waiting(d))
        /\ \A d \in CPU : pc'[d] = "held" <=> pc[d] = "held"
    BY <1>0, <1>1, SMTT(60) DEF Take, LockTypeOK, Waiting
  <2>2. LineFilled' /\ Line' = Append(Line, c)
    BY <1>1, <2>1, LineGrows, SMTT(60) DEF Take
  <2>3. \A i \in DOMAIN Line : Line[i] # c
    BY <1>0, <2>1, SMTT(60) DEF LineIsOrder
  <2>4. Fifo!Arrive(c)
    BY <2>1, <2>2, <2>3 DEF Fifo!Arrive, Fifo!InLine
  <2> QED
    BY <2>2, <2>4, SMTT(60) DEF Fifo!Next
<1>2. CASE Enter(c)
  <2>1. /\ Waiting(c) /\ pc'[c] = "held" /\ pc[c] # "held"
        /\ \A d \in CPU : Waiting(d)' <=> Waiting(d)
        /\ next' = next /\ owner' = owner /\ ticket' = ticket
    BY <1>0, <1>2, SMTT(60) DEF Enter, LockTypeOK, Waiting
  <2>2. LineFilled' /\ Line' = Line
    BY <2>1, LineUnchanged, SMTT(60)
  <2>3. Line # <<>> /\ Head(Line) = c
    <3>1. TicketPlace(c) = 1
      BY <1>0, <1>2, TicketArith, SMTT(60) DEF Enter, LockTypeOK, TicketPlace
    <3> QED
      BY <1>0, <2>1, <3>1, SMTT(60) DEF LineIsOrder
  <2>4. ~holding
    <3> SUFFICES ASSUME NEW d \in CPU, pc[d] = "held" PROVE FALSE
      BY SMTT(60)
    <3>1. ticket[d] = ticket[c] /\ Waiting(d)
      BY <1>0, <1>2, SMTT(60) DEF Enter, LockInv, TicketsInOrder, Waiting
    <3> QED
      BY <1>0, <2>1, <3>1, ZenonT(60) DEF LockInv, TicketsInOrder
  <2>5. holding'
    BY <2>1, SMTT(60)
  <2>6. Fifo!Enter(c)
    BY <2>2, <2>3, <2>4, <2>5, SMTT(60) DEF Fifo!Enter
  <2> QED
    BY <2>2, <2>6, SMTT(60) DEF Fifo!Next
<1>3. CASE Release(c)
  <2>1. LineFilled' /\ Line # <<>> /\ Head(Line) = c /\ Line' = Tail(Line)
    BY <1>3, LineShrinks, SMTT(60)
  <2>2. holding
    BY <1>3, SMTT(60) DEF Release
  <2>3. ~holding'
    <3> SUFFICES ASSUME NEW d \in CPU, pc'[d] = "held" PROVE FALSE
      OBVIOUS
    <3>1. d # c /\ pc[d] = "held" /\ pc[c] = "held"
      BY <1>0, <1>3, SMTT(60) DEF Release, LockTypeOK
    <3> QED
      BY <1>0, <3>1, SMTT(60) DEF LockInv, TicketsInOrder, Waiting
  <2>4. Fifo!Leave(c)
    BY <2>1, <2>2, <2>3, SMTT(60) DEF Fifo!Leave
  <2> QED
    BY <2>1, <2>4, SMTT(60) DEF Fifo!Next
<1>4. CASE TrySucceed(c)
  <2>1. /\ ~Waiting(c) /\ Waiting(c)' /\ pc'[c] = "held"
        /\ \A d \in CPU : d # c => (Waiting(d)' <=> Waiting(d))
    BY <1>0, <1>4, SMTT(60) DEF TrySucceed, LockTypeOK, Waiting
  <2>2. LineFilled' /\ Line' = Append(Line, c)
    BY <1>4, <2>1, LineGrows, SMTT(60) DEF TrySucceed
  <2>3. Line = <<>>
    <3>1. Dist(owner, next) = 0
      BY <1>4, TryFindsFree, TicketArith, ZenonT(60) DEF LineInv, LockInv, LockTypeOK
    <3> QED
      BY <1>0, <3>1, SMTT(60) DEF LineIsOrder
  <2>4. Fifo!Try(c)
    BY <2>1, <2>2, <2>3 DEF Fifo!Try
  <2> QED
    BY <2>2, <2>4, SMTT(60) DEF Fifo!Next
<1>5. CASE TryReadOwner(c) \/ TryReadNext(c) \/ TryFail(c)
  <2>1. /\ next' = next /\ owner' = owner /\ ticket' = ticket
        /\ \A d \in CPU : /\ Waiting(d)' <=> Waiting(d)
                          /\ pc'[d] = "held" <=> pc[d] = "held"
    BY <1>0, <1>5 DEF TryReadOwner, TryReadNext, TryFail, LockTypeOK, Waiting
  <2>2. LineFilled' /\ Line' = Line
    BY <2>1, LineUnchanged
  <2> QED
    BY <2>1, <2>2 DEF Fifo!vars
<1> QED
  BY <1>1, <1>2, <1>3, <1>4, <1>5, SMTT(60) DEF Step

\* core/arch_lock.h, "fair (FIFO acquisition order, no starvation)", its
\* safety half: acquire, release and try_acquire implement the waiting line of
\* FifoLock.  A release serves exactly the next arrival and a try never
\* overtakes a waiting CPU, for every number of CPUs and across wrap-around.
THEOREM LockIsFifo == LockSpec => ImplementsFifo
<1>1. LockInit => LineInv /\ Fifo!Init
  <2> SUFFICES ASSUME LockInit PROVE LineInv /\ Fifo!Init
    OBVIOUS
  <2>1. Dist(owner, next) = 0
    BY DEF LockInit, Dist
  <2>2. LineInv
    BY <2>1, LockInitInv, SMTT(60) DEF LineInv, LineFilled
  <2>3. Line = <<>>
    BY <2>1, <2>2, LineFacts, SMTT(60) DEF LineIsOrder
  <2> QED
    BY <2>2, <2>3 DEF Fifo!Init, LockInit
<1>2. LineInv /\ [LockNext]_lockVars => LineInv' /\ [Fifo!Next]_(Fifo!vars)
  <2> SUFFICES ASSUME LineInv, [LockNext]_lockVars
               PROVE  LineInv' /\ [Fifo!Next]_(Fifo!vars)
    OBVIOUS
  <2>0. LockInv'
    BY LockStep, SMTT(60) DEF LineInv
  <2>1. ASSUME NEW c \in CPU, Step(c)
        PROVE  LineInv' /\ [Fifo!Next]_(Fifo!vars)
    BY <2>0, <2>1, StepIsLineStep, SMTT(60) DEF LineInv
  <2>2. CASE UNCHANGED lockVars
    <3>1. LineFilled' /\ Line' = Line
      BY <2>0, <2>2, LineUnchanged DEF lockVars, Waiting
    <3> QED
      BY <2>0, <2>2, <3>1, SMTT(60) DEF LineInv, lockVars, Fifo!vars
  <2> QED
    BY <2>1, <2>2, SMTT(60) DEF LockNext
<1> QED
  BY <1>1, <1>2, PTL DEF LockSpec, ImplementsFifo, Fifo!Spec
=============================================================================
