------------------------------- MODULE Kernel -------------------------------
(***************************************************************************)
(* The session table and the port table together (core/sched.cc,           *)
(* core/ports.cc and the KILL and SPAWN operations of core/kernsvc.cc).    *)
(*                                                                         *)
(* Slots of the session table are reused: a sid names first one session,   *)
(* later another.  The kernel identifies port owners, handles and queued   *)
(* messages by sid alone, so the question this module asks is what a new   *)
(* session finds in the tables that an old one left.  Ghosts (inc, granted, *)
(* by, lastEnd) record which incarnation of a slot something belongs to    *)
(* and how it ended; no guard reads them, except for the bound MaxInc.     *)
(*                                                                         *)
(* Only the running session acts, and every import it calls is atomic: one *)
(* core, one kernel stack.  Sessions here hold CAP_KILL, CAP_SPAWN and     *)
(* CAP_PORTBIND as init does; who gets which bit is module KernSvc.        *)
(***************************************************************************)
EXTENDS SessionTable, PortQueue, Integers

CONSTANTS
    Names,      \* port names sessions use ("login" among them)
    MaxPorts,   \* MAX_PORTS: ports in the table (24 in the code)
    MaxHandles, \* H_PER_SESS: handles of a session (16 in the code)
    MaxInc      \* bound: incarnations of a slot

Port == 0 .. MaxPorts - 1
Handle == 0 .. MaxHandles - 1

\* A queued datagram: the sending session and (ghost) its incarnation.
\* Kernel replies carry the sid of the session they answer.
KMsg == [from : Sid, inc : Nat]

VARIABLES
    state,      \* sessions[s].state
    next_rr,    \* start of the next scan
    running,    \* whose stack the core is on (0: the scheduler loop)
    ports,      \* the port table
    htab,       \* htab[s][h]: port index of handle h of slot s, or -1
    inc,        \* ghost: how many sessions slot s has held
    granted,    \* ghost: incarnation that was given handle h of slot s
    lastEnd     \* ghost: how slot s was last left, by "kill" or "exit"

kernelVars == <<state, next_rr, running, ports, htab, inc, granted, lastEnd>>
sessVars == <<state, next_rr, running, inc, lastEnd>>
portVars == <<ports, htab, granted>>

\* ports_init installs the kernel endpoints (here: registry) with creator 0;
\* kmain spawns init.
FreePort == [used |-> FALSE, kernel |-> FALSE, creator |-> 0, name |-> "",
             by |-> 0, ring |-> EmptyRing]

KernelInit ==
    /\ state = [s \in Sid |-> IF s = 1 THEN "RUNNABLE" ELSE "FREE"]
    /\ next_rr = 1
    /\ running = 0
    /\ ports = [p \in Port |-> IF p = 0
                               THEN [FreePort EXCEPT !.used = TRUE,
                                                     !.kernel = TRUE,
                                                     !.name = "registry"]
                               ELSE FreePort]
    /\ htab = [s \in Sid |-> [h \in Handle |-> -1]]
    /\ inc = [s \in Sid |-> IF s = 1 THEN 1 ELSE 0]
    /\ granted = [s \in Sid |-> [h \in Handle |-> 0]]
    /\ lastEnd = [s \in Sid |-> "kill"]

-----------------------------------------------------------------------------
(* Scheduler *)

Loop ==
    /\ running = 0
    /\ ~AllDead(state)
    /\ \E s \in Sid :
          /\ IsPicked(state, next_rr, s)
          /\ state' = [Reaped(state) EXCEPT ![s] = "RUNNING"]
          /\ next_rr' = AfterPicked(s)
          /\ running' = s
    /\ UNCHANGED <<portVars, inc, lastEnd>>

Halt ==
    /\ running = 0
    /\ AllDead(state)
    /\ UNCHANGED kernelVars

Yield ==
    /\ running # 0
    /\ state' = [state EXCEPT ![running] = "RUNNABLE"]
    /\ running' = 0
    /\ UNCHANGED <<portVars, next_rr, inc, lastEnd>>

\* sched_session_main after the engine returns: no port call is made.
Exit ==
    /\ running # 0
    /\ state' = [state EXCEPT ![running] = "ZOMBIE"]
    /\ running' = 0
    /\ lastEnd' = [lastEnd EXCEPT ![running] = "exit"]
    /\ UNCHANGED <<portVars, next_rr, inc>>

-----------------------------------------------------------------------------
(* Ports *)

UsedNamed(p, n) == ports[p].used /\ ports[p].name = n

\* The handle table entry port_create and port_bind fill: the lowest free.
IsFirstHandle(s, h) ==
    /\ htab[s][h] < 0
    /\ \A i \in Handle : i < h => htab[s][i] >= 0

Grant(s, h, p) ==
    /\ htab' = [htab EXCEPT ![s][h] = p]
    /\ granted' = [granted EXCEPT ![s][h] = inc[s]]

\* port_of
PortOf(s, h) == htab[s][h]
ValidHandle(s, h) == PortOf(s, h) >= 0 /\ ports[PortOf(s, h)].used

\* port_create.  With no free handle the port is released again, so the call
\* changes nothing.
PortCreate(s, n) ==
    /\ running = s
    /\ Alive(state, s)
    /\ \A p \in Port : ~UsedNamed(p, n)
    /\ \E p \in Port, h \in Handle :
          /\ ~ports[p].used
          /\ \A q \in Port : q < p => ports[q].used
          /\ IsFirstHandle(s, h)
          /\ Grant(s, h, p)
          /\ ports' = [ports EXCEPT ![p] = [FreePort EXCEPT !.used = TRUE,
                                                            !.creator = s,
                                                            !.by = inc[s],
                                                            !.name = n]]
    /\ UNCHANGED sessVars

PortBind(s, n) ==
    /\ running = s
    /\ Alive(state, s)
    /\ \E p \in Port, h \in Handle :
          /\ UsedNamed(p, n)
          /\ \A q \in Port : q < p => ~UsedNamed(q, n)
          /\ IsFirstHandle(s, h)
          /\ Grant(s, h, p)
    /\ UNCHANGED <<sessVars, ports>>

\* port_send to a port of a session; a full ring answers -2.
PortSend(s, h) ==
    /\ running = s
    /\ ValidHandle(s, h)
    /\ LET p == PortOf(s, h)
       IN  /\ ~ports[p].kernel
           /\ ~Full(ports[p].ring)
           /\ ports' = [ports EXCEPT ![p].ring =
                            Enqueue(@, [from |-> s, inc |-> inc[s]])]
    /\ UNCHANGED <<sessVars, htab, granted>>

PortRecv(s, h) ==
    /\ running = s
    /\ ValidHandle(s, h)
    /\ LET p == PortOf(s, h)
       IN  /\ ~NothingToRecv(ports[p].ring)
           /\ ports' = [ports EXCEPT ![p].ring = Dequeue(@)]
    /\ UNCHANGED <<sessVars, htab, granted>>

-----------------------------------------------------------------------------
(* Registry: port_send to a kernel endpoint runs kernsvc_dispatch inline. *)

CallsRegistry(s, h) ==
    /\ running = s
    /\ ValidHandle(s, h)
    /\ ports[PortOf(s, h)].kernel

\* kernsvc_reply in direct mode: ports_kernel_enqueue onto the endpoint's own
\* ring, dropped when it is full or when the handle is gone.
Reply(pt, ht, s, h) ==
    LET p == ht[s][h]
    IN  IF p >= 0 /\ ~Full(pt[p].ring)
        THEN [pt EXCEPT ![p].ring = Enqueue(@, [from |-> s, inc |-> inc[s]])]
        ELSE pt

\* Fault: kernel endpoints are not drained.
DrainUserPorts(pt, v) ==
    [p \in Port |-> IF pt[p].used /\ ~pt[p].kernel
                    THEN [pt[p] EXCEPT !.ring = Drain(@, v)]
                    ELSE pt[p]]

\* ports_drain_session over the whole table.
DrainSession(pt, v) ==
    [p \in Port |-> IF pt[p].used THEN [pt[p] EXCEPT !.ring = Drain(@, v)]
                                  ELSE pt[p]]

\* ports_clear_session_handles
ClearHandles(ht, v) == [ht EXCEPT ![v] = [h \in Handle |-> -1]]

\* KILL: sched_kill, then the reply.
RegistryKill(s, h, v) ==
    /\ CallsRegistry(s, h)
    /\ Alive(state, v)
    /\ state' = [state EXCEPT ![v] = "ZOMBIE"]
    /\ htab' = ClearHandles(htab, v)
    /\ granted' = [granted EXCEPT ![v] = [i \in Handle |-> 0]]
    /\ ports' = Reply(DrainSession(ports, v), htab', s, h)
    /\ lastEnd' = [lastEnd EXCEPT ![v] = "kill"]
    /\ UNCHANGED <<next_rr, running, inc>>

\* SPAWN: spawn_impl into the first free slot, then the reply.
RegistrySpawn(s, h) ==
    /\ CallsRegistry(s, h)
    /\ \E v \in Sid :
          /\ IsFirstFree(state, v)
          /\ inc[v] < MaxInc
          /\ state' = [state EXCEPT ![v] = "RUNNABLE"]
          /\ inc' = [inc EXCEPT ![v] = @ + 1]
    /\ ports' = Reply(ports, htab, s, h)
    /\ UNCHANGED <<next_rr, running, htab, granted, lastEnd>>

PortNames == Names \cup {"registry"}

KernelNext ==
    \/ Loop
    \/ Halt
    \/ Yield
    \/ Exit
    \/ \E s \in Sid, n \in PortNames : PortCreate(s, n) \/ PortBind(s, n)
    \/ \E s \in Sid, h \in Handle :
          \/ PortSend(s, h)
          \/ PortRecv(s, h)
          \/ RegistrySpawn(s, h)
          \/ \E v \in Sid : RegistryKill(s, h, v)

KernelSpec == KernelInit /\ [][KernelNext]_kernelVars

-----------------------------------------------------------------------------
(* Properties *)

PortRecord ==
    [used : BOOLEAN, kernel : BOOLEAN, creator : 0 .. MaxSessions - 1,
     name : PortNames \cup {""}, by : Nat,
     ring : [qn : 0 .. MaxQ, qh : Slot, qt : Slot,
             slot : [Slot -> KMsg \cup {Null}]]]

TypeOK ==
    /\ state \in [Sid -> SessionState]
    /\ next_rr \in 0 .. MaxSessions - 1
    /\ running \in 0 .. MaxSessions - 1
    /\ ports \in [Port -> PortRecord]
    /\ htab \in [Sid -> [Handle -> Port \cup {-1}]]
    /\ inc \in [Sid -> Nat]
    /\ granted \in [Sid -> [Handle -> Nat]]
    /\ lastEnd \in [Sid -> {"kill", "exit"}]

\* abi/ABI.md section 1, "a name has exactly one owner": no two ports share a
\* name, and the kernel's endpoint keeps its name and its creator.
OneOwnerPerName ==
    /\ \A p, q \in Port :
          ports[p].used /\ ports[q].used /\ ports[p].name = ports[q].name => p = q
    /\ \A p \in Port : UsedNamed(p, "registry") <=> ports[p].used /\ ports[p].kernel

\* "Invalidate every handle belonging to `sid` so a zombie or reused slot
\* cannot send/recv on stale port references" (ports_clear_session_handles):
\* every handle of a live session was given to that session.
HandlesAreOwn ==
    \A s \in Sid, h \in Handle :
        Alive(state, s) /\ htab[s][h] >= 0 => granted[s][h] = inc[s]

\* A killed session leaves no message behind in any ring, so no receiver
\* takes a message of a killed session for one of the slot's next session.
NoMailFromKilled ==
    \A p \in Port : \A i \in Occupied(ports[p].ring) :
        LET m == ports[p].ring.slot[i]
        IN  lastEnd[m.from] = "kill" =>
                m.inc = inc[m.from] /\ Alive(state, m.from)

\* Nor does it leave a handle: "drain ring messages owned by a dying session"
\* and the clearing of its handles happen in the step that kills it, and the
\* slot's next session starts with none of them.
KilledHoldsNoHandle ==
    \A s \in Sid, h \in Handle :
        lastEnd[s] = "kill" /\ htab[s][h] >= 0 =>
            granted[s][h] = inc[s] /\ Alive(state, s)
=============================================================================
