---------------------------- MODULE SessionTable ----------------------------
(***************************************************************************)
(* The session table of core/sched.cc and the scans over it, as operators  *)
(* on a state function.  Slot 0 is the kernel and never holds a session.   *)
(***************************************************************************)
EXTENDS Naturals

CONSTANT
    MaxSessions     \* MAX_SESSIONS: slots of the table (12 in the code)

ASSUME MaxSessionsAssumption == MaxSessions \in Nat /\ MaxSessions >= 2

Sid == 1 .. MaxSessions - 1

SessionState == {"FREE", "RUNNABLE", "RUNNING", "ZOMBIE"}

\* sched_alive
Alive(st, s) == st[s] \notin {"FREE", "ZOMBIE"}

AllDead(st) == \A s \in Sid : ~Alive(st, s)

\* sched_reap_zombies: every zombie slot becomes free.
Reaped(st) == [s \in Sid |-> IF st[s] = "ZOMBIE" THEN "FREE" ELSE st[s]]

Runnable(st) == {s \in Sid : st[s] = "RUNNABLE"}

\* How far slot s is from next_rr in the scan of sched_run: the k with
\* s = (next_rr + k) % MAX_SESSIONS.
ScanDistance(rr, s) == IF s >= rr THEN s - rr ELSE s + MaxSessions - rr

\* The session sched_run picks: the first runnable one of the scan.
IsPicked(st, rr, s) ==
    /\ s \in Runnable(st)
    /\ \A u \in Runnable(st) : ScanDistance(rr, s) <= ScanDistance(rr, u)

\* Fault: the next scan starts at the slot that just ran.
AfterPickedSame(s) == s

\* (i + 1) % MAX_SESSIONS
AfterPicked(s) == IF s = MaxSessions - 1 THEN 0 ELSE s + 1

\* The slot spawn_impl takes: the lowest free one.
IsFirstFree(st, s) ==
    /\ st[s] = "FREE"
    /\ \A u \in Sid : u < s => st[u] # "FREE"
=============================================================================
