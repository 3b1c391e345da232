-------------------------------- MODULE Sched --------------------------------
(***************************************************************************)
(* The session scheduler of core/sched.cc.  One core runs every session    *)
(* (application processors park in sched_run_ap).  The scheduler loop runs *)
(* on the kernel stack; it reaps zombies, picks the next runnable session  *)
(* round-robin and switches to its stack.  The session runs until it       *)
(* yields or exits; in between it may ask the registry to kill or spawn.   *)
(*                                                                         *)
(* running = 0 while the loop has the core, otherwise it is the session    *)
(* whose stack the core is on.  It is not the variable `cur` of the code,  *)
(* which keeps its value after the switch back.                            *)
(***************************************************************************)
EXTENDS SessionTable

\* The two capability bits that decide who may do what to the table.
Cap == {"KILL", "SPAWN"}

VARIABLES
    state,      \* sessions[s].state
    caps,       \* sessions[s].capmask, restricted to Cap
    next_rr,    \* where the next scan starts
    running,    \* whose stack the core is on (0: the scheduler loop)
    waited      \* history: picks of others since s became runnable

schedVars == <<state, caps, next_rr, running, waited>>

\* kmain spawns exactly one session, init, holding both bits.
SchedInit ==
    /\ state = [s \in Sid |-> IF s = 1 THEN "RUNNABLE" ELSE "FREE"]
    /\ caps = [s \in Sid |-> IF s = 1 THEN Cap ELSE {}]
    /\ next_rr = 1
    /\ running = 0
    /\ waited = [s \in Sid |-> 0]

\* The history counter saturates above any value BoundedBypass allows.
Bypassed(w) == IF w < MaxSessions THEN w + 1 ELSE w

\* One iteration of the loop of sched_run: reap, scan, switch.  The device
\* polls in between do not touch the table.
Loop ==
    /\ running = 0
    /\ ~AllDead(state)
    /\ LET st == Reaped(state)
       IN  \E s \in Sid :
                /\ IsPicked(st, next_rr, s)
                /\ state' = [st EXCEPT ![s] = "RUNNING"]
                /\ next_rr' = AfterPicked(s)
                /\ running' = s
                /\ waited' = [u \in Sid |-> IF u \in Runnable(st) \ {s}
                                            THEN Bypassed(waited[u]) ELSE 0]
                /\ UNCHANGED caps

\* sched_run returns when every session is dead and kmain halts the core.
Halt ==
    /\ running = 0
    /\ AllDead(state)
    /\ UNCHANGED schedVars

\* Fault: the state is left as it is.
YieldStaysRunning(s) ==
    /\ running = s
    /\ waited' = [waited EXCEPT ![s] = 0]
    /\ running' = 0
    /\ UNCHANGED <<state, caps, next_rr>>

\* sched_yield_current, also the switch at a preemption point: the state
\* becomes RUNNABLE whatever it was.
Yield(s) ==
    /\ running = s
    /\ state' = [state EXCEPT ![s] = "RUNNABLE"]
    /\ waited' = [waited EXCEPT ![s] = 0]
    /\ running' = 0
    /\ UNCHANGED <<caps, next_rr>>

\* The end of sched_session_main.
Exit(s) ==
    /\ running = s
    /\ state' = [state EXCEPT ![s] = "ZOMBIE"]
    /\ running' = 0
    /\ UNCHANGED <<caps, next_rr, waited>>

\* A request to the registry needs a port handle: sched_kill clears the
\* handles of its victim and port_bind refuses a dead caller.
CanCall(s) == running = s /\ Alive(state, s)

\* sched_kill(v, s).  A session may name itself.
Kill(s, v) ==
    /\ CanCall(s)
    /\ Alive(state, v)
    /\ "KILL" \in caps[s]
    /\ state' = [state EXCEPT ![v] = "ZOMBIE"]
    /\ UNCHANGED <<caps, next_rr, running, waited>>

\* registry SPAWN: the mask asked for is a subset of the caller's, the slot
\* the first free one.  A spawn that fails leaves the table unchanged.
Spawn(s, want) ==
    /\ CanCall(s)
    /\ "SPAWN" \in caps[s]
    /\ want \subseteq caps[s]
    /\ \E v \in Sid :
          /\ IsFirstFree(state, v)
          /\ state' = [state EXCEPT ![v] = "RUNNABLE"]
          /\ caps' = [caps EXCEPT ![v] = want]
          /\ waited' = [waited EXCEPT ![v] = 0]
    /\ UNCHANGED <<next_rr, running>>

Leave(s) == Yield(s) \/ Exit(s)

SchedNext ==
    \/ Loop
    \/ Halt
    \/ \E s \in Sid : Leave(s)
    \/ \E s, v \in Sid : Kill(s, v)
    \/ \E s \in Sid, want \in SUBSET Cap : Spawn(s, want)

SchedSpec == SchedInit /\ [][SchedNext]_schedVars

\* The loop never stops by itself, and a session on the core eventually
\* yields, is preempted at a safe point, or exits.
SchedFairSpec ==
    /\ SchedSpec
    /\ WF_schedVars(Loop)
    /\ \A s \in Sid : WF_schedVars(Leave(s))

-----------------------------------------------------------------------------
(* Properties *)

SchedTypeOK ==
    /\ state \in [Sid -> SessionState]
    /\ caps \in [Sid -> SUBSET Cap]
    /\ next_rr \in 0 .. MaxSessions - 1
    /\ running \in 0 .. MaxSessions - 1
    /\ waited \in [Sid -> Nat]

\* Round-robin is fair in the strongest sense the table allows: a session
\* that stays runnable sees every other session picked at most once before
\* its own turn, whatever spawns, kills and exits happen meanwhile.
BoundedBypass ==
    \A s \in Sid : state[s] = "RUNNABLE" => waited[s] <= MaxSessions - 2

\* The core is on at most one session's stack, only that session is RUNNING,
\* and its slot (engine and stack) is never free: the reaper and spawn_impl
\* cannot take a slot that is in use.
StackInUse ==
    /\ \A s \in Sid : state[s] = "RUNNING" => running = s
    /\ running # 0 => state[running] \in {"RUNNING", "ZOMBIE"}

\* "all parked?? spin defensively" (sched_run) never happens: as long as a
\* session is alive the scan finds one to run.
ScanFindsSession ==
    running = 0 /\ ~AllDead(state) => Runnable(state) # {}

\* Killed or exited sessions only ever go from S_ZOMBIE to S_FREE, the
\* transition sched_reap_zombies documents.
DeadStayDead ==
    [][\A s \in Sid : state[s] = "ZOMBIE" => state'[s] \in {"ZOMBIE", "FREE"}]_schedVars

\* A session that another one killed, or that returned, never runs again:
\* between its death and the reuse of its slot the reaper comes first.
KilledOffCoreStayDead ==
    [][\A s \in Sid : state[s] = "ZOMBIE" /\ running # s
                        => state'[s] \in {"ZOMBIE", "FREE"}]_schedVars

\* Every runnable session is eventually given the core (or dies).
RunnableRuns ==
    \A s \in Sid : state[s] = "RUNNABLE" ~> state[s] # "RUNNABLE"

\* Every dead session's slot is reclaimed, unless nothing is left alive.
ZombieReaped ==
    \A s \in Sid : state[s] = "ZOMBIE" ~> (state[s] # "ZOMBIE" \/ AllDead(state))
=============================================================================
