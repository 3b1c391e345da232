----------------------------- MODULE Supervisor -----------------------------
(***************************************************************************)
(* init, the session that starts the servers and keeps them running        *)
(* (services/init/init.go): it spawns the services of init.conf in order,  *)
(* sweeps the session list now and then for services that are gone, and    *)
(* answers initctl requests to restart a service, to reload init.conf and  *)
(* to change a service's respawn policy.                                   *)
(*                                                                         *)
(* A step ends with a registry call; other sessions run between the steps. *)
(* The sid of a session is its slot in the kernel's table, and the slot of *)
(* a dead session is used again (core/sched.cc).                           *)
(*                                                                         *)
(* The answers to all sessions' registry calls are queued in one ring, and *)
(* a client drops those that do not carry the number it waits for          *)
(* (guests/lib/frame.go, Call).  So what init asks for may be done and the *)
(* call fail, its answer lost; and init may take the answer to another's   *)
(* call, of the same number, for its own.                                  *)
(***************************************************************************)
EXTENDS Integers, Sequences, FiniteSets

CONSTANTS
    Order,      \* the services there may be, in the order of init.conf
    AtBoot,     \* those init.conf names at boot
    Slots,      \* number of session slots besides init's own
    MaxFails,   \* maxSpawnFails
    MaxMisread  \* bound on the answers init takes for its own and that are not

Services == {Order[i] : i \in DOMAIN Order}
Sids == 1 .. Slots

VARIABLES
    states,     \* supervisor.states: [service -> svcState] of the services it knows
    work,       \* the handler under way: services still to do, sids of the list it read
    sess,       \* the kernel's session table; told (ghost): init was given the
                \* sid of this session, and no list without it since
    misread     \* number of answers to other clients that init took for its own

supVars == <<states, work, sess, misread>>

Free == [state |-> "free", name |-> "none", told |-> FALSE]
Zombie == [state |-> "zombie", name |-> "none", told |-> FALSE]
Live(s, told) == [state |-> "live", name |-> s, told |-> told]
\* (sid is 0 while the service is not spawned: it is not looked at then.)
NewState == [respawn |-> TRUE, spawned |-> FALSE, sid |-> 0, fails |-> 0]
Idle == [op |-> "idle", todo |-> {}, alive |-> {}]

Lives(i) == i \in Sids /\ sess[i].state = "live"
AliveSids == {i \in Sids : Lives(i)}
FirstFree(i) == sess[i].state = "free" /\ \A j \in 1 .. i - 1 : sess[j].state # "free"

SupInit ==
    /\ states = [s \in AtBoot |-> NewState]
    /\ work = [op |-> "boot", todo |-> AtBoot, alive |-> {}]
    /\ sess = [i \in Sids |-> Free]
    /\ misread = 0

-----------------------------------------------------------------------------
\* Spawn service s with state st.  The kernel takes a free slot i or refuses
\* (no slot, no memory, no module); init reads a sid k, or no answer at all.
\* After too many failures in a row nothing is tried.
Recorded(s, st) == states' = [x \in DOMAIN states \cup {s} |-> IF x = s THEN st ELSE states[x]]
Failed(s, st) == Recorded(s, [st EXCEPT !.fails = @ + 1])
Told(s, st, k) == Recorded(s, [st EXCEPT !.sid = k, !.spawned = TRUE, !.fails = 0])
Starts(i, s, told) == FirstFree(i) /\ sess' = [sess EXCEPT ![i] = Live(s, told)]
Misreads == misread < MaxMisread /\ misread' = misread + 1

spawn(s, st) ==
    \/ /\ st.fails >= MaxFails
       /\ Recorded(s, st) /\ UNCHANGED <<sess, misread>>
    \/ /\ st.fails < MaxFails
       /\ \/ /\ \E i \in Sids : Starts(i, s, TRUE) /\ Told(s, st, i)
             /\ UNCHANGED misread
          \/ /\ (\E i \in Sids : Starts(i, s, FALSE)) \/ UNCHANGED sess
             /\ Failed(s, st) /\ UNCHANGED misread
          \/ /\ (\E i \in Sids : Starts(i, s, FALSE)) \/ UNCHANGED sess
             /\ (\E k \in Sids \cup {0} : Told(s, st, k)) /\ Misreads

\* The service the handler under way comes to next; when it was the last the
\* handler ends.
IsNext(s) ==
    \E i \in DOMAIN Order : Order[i] = s /\ s \in work.todo /\ \A j \in 1 .. i - 1 : Order[j] \notin work.todo
Done(s) == work' = IF work.todo = {s} THEN Idle ELSE [work EXCEPT !.todo = @ \ {s}]

\* The boot loop.
BootOne(s) ==
    /\ work.op = "boot" /\ IsNext(s)
    /\ spawn(s, states[s]) /\ Done(s)

\* The sessions of a list that init reads: its own, or what the answer to
\* another call looks like as a list.
Lists(list) ==
    \/ /\ list = AliveSids
       /\ UNCHANGED <<sess, misread>>
    \/ /\ sess' = [i \in Sids |-> IF i \in list THEN sess[i] ELSE [sess[i] EXCEPT !.told = FALSE]]
       /\ Misreads

\* sweep: the session list, then one service after the other.  Without an
\* answer nothing is done.  (The list is never at listSaturationCap: the
\* kernel has one slot less.)
Sweep ==
    /\ work = Idle
    /\ \E list \in SUBSET Sids :
          /\ Lists(list)
          /\ work' = [op |-> "sweep", todo |-> DOMAIN states, alive |-> list]
    /\ UNCHANGED states

\* Fault: a service that is not spawned is left to the boot loop.
NeedsSpawnBooted(st) == st.respawn /\ st.spawned /\ st.sid \notin work.alive

NeedsSpawn(st) ==
    /\ st.respawn
    /\ \/ st.spawned /\ st.sid \notin work.alive
       \/ ~st.spawned /\ st.fails > 0

SweepOne(s) ==
    /\ work.op = "sweep" /\ IsNext(s)
    /\ \/ NeedsSpawn(states[s]) /\ spawn(s, [states[s] EXCEPT !.spawned = FALSE, !.sid = 0])
       \/ ~NeedsSpawn(states[s]) /\ UNCHANGED <<states, sess, misread>>
    /\ Done(s)

\* Fault: restart spawns without killing.
RestartKeeps(s) ==
    /\ work = Idle /\ s \in DOMAIN states
    /\ states' = [states EXCEPT ![s].spawned = FALSE, ![s].sid = 0, ![s].fails = 0]
    /\ work' = [op |-> "restart", todo |-> {s}, alive |-> {}]
    /\ UNCHANGED <<sess, misread>>

\* restart: kill what is under the service's sid, whatever the answer, then
\* spawn.
Restart(s) ==
    /\ work = Idle /\ s \in DOMAIN states
    /\ sess' = IF states[s].spawned /\ Lives(states[s].sid)
               THEN [sess EXCEPT ![states[s].sid] = Zombie] ELSE sess
    /\ states' = [states EXCEPT ![s].spawned = FALSE, ![s].sid = 0, ![s].fails = 0]
    /\ work' = [op |-> "restart", todo |-> {s}, alive |-> {}]
    /\ UNCHANGED misread

RestartSpawn(s) ==
    /\ work.op = "restart" /\ IsNext(s)
    /\ spawn(s, states[s]) /\ Done(s)

\* reloadInitconf: init.conf names the services conf now, with respawn=yes.
\* Take over the flags, stop supervising what is not named, spawn what is
\* new, ...
Reload(conf) ==
    /\ work = Idle
    /\ states' = [s \in DOMAIN states |->
                    [states[s] EXCEPT !.respawn = s \in conf]]
    /\ work' = [op |-> "adopt", todo |-> conf \ DOMAIN states, alive |-> {}]
    /\ UNCHANGED <<sess, misread>>

Adopt(s) ==
    /\ work.op = "adopt" /\ IsNext(s)
    /\ spawn(s, NewState)
    /\ work' = [work EXCEPT !.todo = @ \ {s}]

\* ... read the session list, and respawn what died, if there is an answer.
ReloadList ==
    /\ work.op = "adopt" /\ work.todo = {}
    /\ \/ \E list \in SUBSET Sids :
             /\ Lists(list)
             /\ work' = [op |-> "revive", todo |-> DOMAIN states, alive |-> list]
       \/ work' = Idle /\ UNCHANGED <<sess, misread>>
    /\ UNCHANGED states

Revive(s) ==
    /\ work.op = "revive" /\ IsNext(s)
    /\ LET st == states[s]
       IN \/ /\ st.respawn /\ st.spawned /\ st.sid \notin work.alive
             /\ spawn(s, [st EXCEPT !.spawned = FALSE, !.sid = 0, !.fails = 0])
          \/ /\ ~(st.respawn /\ st.spawned /\ st.sid \notin work.alive)
             /\ UNCHANGED <<states, sess, misread>>
    /\ Done(s)

\* initctl respawn <service> yes|no.
Policy(s, yes) ==
    /\ work = Idle /\ s \in DOMAIN states /\ states[s].respawn # yes
    /\ states' = [states EXCEPT ![s].respawn = yes]
    /\ UNCHANGED <<work, sess, misread>>

-----------------------------------------------------------------------------
\* A session ends; its slot is reaped; another server spawns a session.
Die(i) ==
    /\ Lives(i)
    /\ sess' = [sess EXCEPT ![i] = Zombie]
    /\ UNCHANGED <<states, work, misread>>

Reap ==
    /\ \E i \in Sids : sess[i].state = "zombie"
    /\ sess' = [i \in Sids |-> IF sess[i].state = "zombie" THEN Free ELSE sess[i]]
    /\ UNCHANGED <<states, work, misread>>

OtherSpawn ==
    /\ \E i \in Sids : Starts(i, "other", FALSE)
    /\ UNCHANGED <<states, work, misread>>

Handler ==
    \/ ReloadList
    \/ \E s \in Services : BootOne(s) \/ SweepOne(s) \/ RestartSpawn(s) \/ Adopt(s) \/ Revive(s)

SupNext ==
    \/ Handler \/ Sweep \/ Reap \/ OtherSpawn
    \/ \E s \in Services : Restart(s) \/ \E b \in BOOLEAN : Policy(s, b)
    \/ \E conf \in SUBSET Services : Reload(conf)
    \/ \E i \in Sids : Die(i)

SupSpec == SupInit /\ [][SupNext]_supVars

\* init is scheduled again and again and sweeps every so many turns, now and
\* then with an answer to its LIST.
SupFairSpec == SupSpec /\ WF_supVars(Handler) /\ SF_supVars(Sweep)

-----------------------------------------------------------------------------
\* init never has two live sessions of one service that it was told of: a
\* service is spawned only when the session init knows is gone, whichever of
\* sweep, restart and reload comes to it and whatever happens between their
\* registry calls.  Of two live sessions of a service one is always the
\* outcome of a spawn whose answer was lost or another's, or was left out of a
\* list that was another's answer.
NeverTwo ==
    \A i, j \in Sids :
        /\ Lives(i) /\ sess[i].told
        /\ Lives(j) /\ sess[j].told
        /\ sess[i].name = sess[j].name
        => i = j

Wanted(s) == s \in DOMAIN states /\ states[s].respawn
Running(s) == \E i \in AliveSids : sess[i].name = s
GivenUp(s) == ~states[s].spawned /\ states[s].fails >= MaxFails
\* The service's slot holds another session, which init takes for it.
Mistaken(s) == states[s].spawned /\ Lives(states[s].sid) /\ sess[states[s].sid].name # s

\* A service that should run and does not comes back or is given up, unless
\* its slot has been taken by another session.
ComesBack ==
    \A s \in Services : Wanted(s) /\ work.op # "boot"
        ~> (Running(s) \/ ~Wanted(s) \/ GivenUp(s) \/ Mistaken(s))

\* init.go, sweep: "Retry applies to any respawn=yes service that isn't
\* currently alive".
RetryAppliesToAny ==
    \A s \in Services : Wanted(s) /\ work.op # "boot" ~> (Running(s) \/ ~Wanted(s) \/ GivenUp(s))
=============================================================================
