------------------------------- MODULE MCCore -------------------------------
(***************************************************************************)
(* A port ring, the scheduler, the ticket lock and the init supervisor,    *)
(* each at its own bounds: a behaviour belongs to one part, and the other  *)
(* parts stay in their initial states.                                     *)
(***************************************************************************)
EXTENDS PortRing, Sched, TicketLock, Supervisor

VARIABLES part

CONSTANTS Parts, a, b, null, c1, c2, c3

vars == <<part, ringVars, schedVars, lockVars, supVars>>

\* Two senders, one or both of which may be killed and their slots reused.
MCSenders == {a, b}
MCOneKillable == {a}
MCAllKillable == {a, b}
MCCPU == {c1, c2, c3}
MCOrder == <<"fs", "net">>

Init == part \in Parts /\ RingInit /\ SchedInit /\ LockInit /\ SupInit

InRing == part = "ring" /\ UNCHANGED <<part, schedVars, lockVars, supVars>>
InSched == part = "sched" /\ UNCHANGED <<part, ringVars, lockVars, supVars>>
InLock == part = "lock" /\ UNCHANGED <<part, ringVars, schedVars, supVars>>
InInit == part = "init" /\ UNCHANGED <<part, ringVars, schedVars, lockVars>>

Next ==
    \/ InRing /\ RingNext
    \/ InSched /\ SchedNext
    \/ InLock /\ LockNext
    \/ InInit /\ SupNext

\* The fairness of each part: see the FairSpec of its module.
Spec ==
    /\ Init /\ [][Next]_vars
    /\ WF_vars(InRing /\ Recv)
    /\ WF_vars(InSched /\ Loop)
    /\ \A s \in Sid : WF_vars(InSched /\ Leave(s))
    /\ \A c \in CPU :
          /\ WF_vars(InLock /\ Enter(c))
          /\ WF_vars(InLock /\ Release(c))
          /\ WF_vars(InLock /\ (TryReadNext(c) \/ TrySucceed(c) \/ TryFail(c)))
    /\ WF_vars(InInit /\ Handler)
    /\ SF_vars(InInit /\ Sweep)

\* Sched: in a behaviour of the scheduler, a runnable session is given the
\* core, or dies.
SessionsRun == part = "sched" => RunnableRuns
=============================================================================
