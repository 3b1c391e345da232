--------------------------- MODULE ServiceProofs ----------------------------
(***************************************************************************)
(* Services that share no state, each for every value of its constants:    *)
(* init never runs a service twice (Supervisor), login registers a user    *)
(* with fs before the user can make a call (Login), the console relay      *)
(* leaves the prompt on the cursor's row (Console), and the net service    *)
(* uses only addresses it was granted (Dhcp).                              *)
(***************************************************************************)
EXTENDS Supervisor, Login, Console, Dhcp, TLAPS

-----------------------------------------------------------------------------
(* Sequences *)

LEMMA Appended ==
    ASSUME NEW S, NEW q \in Seq(S), NEW e \in S
    PROVE  /\ Append(q, e) \in Seq(S) /\ Len(Append(q, e)) = Len(q) + 1
           /\ \A i \in 1 .. Len(q) : Append(q, e)[i] = q[i]
           /\ Append(q, e)[Len(q) + 1] = e
  OBVIOUS

LEMMA TailOf ==
    ASSUME NEW S, NEW q \in Seq(S), q # <<>>
    PROVE  /\ Head(q) \in S /\ Tail(q) \in Seq(S) /\ Len(Tail(q)) = Len(q) - 1
           /\ \A i \in 1 .. Len(Tail(q)) : Tail(q)[i] = q[i + 1]
  OBVIOUS

LEMMA SeqOfMore == ASSUME NEW S, NEW T, NEW q \in Seq(S), S \subseteq T PROVE q \in Seq(T)
  OBVIOUS

-----------------------------------------------------------------------------
(* init: Supervisor *)

Known == Services \cup AtBoot

SvcState == [respawn : BOOLEAN, spawned : BOOLEAN, sid : Sids \cup {0}, fails : Nat]

Session ==
    [state : {"free", "zombie", "live"}, name : Known \cup {"none", "other"}, told : BOOLEAN]

Untold(x) == [x EXCEPT !.told = FALSE]

SupTypeOK ==
    /\ DOMAIN states \subseteq Known
    /\ states \in [DOMAIN states -> SvcState]
    /\ work \in [op : {"idle", "boot", "sweep", "restart", "adopt", "revive"},
                 todo : SUBSET Known, alive : SUBSET Sids]
    /\ sess \in [Sids -> Session]
    /\ \A i \in Sids : sess[i].told => sess[i].name \in Known

\* Session i is a live session of service s that init was told of.
LiveAs(i, s) == i \in Sids /\ sess[i].state = "live" /\ sess[i].told /\ sess[i].name = s

\* Such a session is the one init has on record.  That alone is not inductive:
\* a sweep and a reload decide on a session list read earlier, so a service they
\* have still to do is on that list if it lives; boot and restart come only to
\* services that do not live.  A reload adopts only services that have no
\* record, every other handler only those that have one.
OnRecord ==
    \A i \in Sids, s \in Known : LiveAs(i, s) =>
        /\ s \in DOMAIN states
        /\ states[s].spawned /\ states[s].sid = i
        /\ work.op \in {"sweep", "revive"} /\ s \in work.todo => i \in work.alive
        /\ work.op \in {"boot", "restart"} => s \notin work.todo

TodoHasRecords ==
    IF work.op = "adopt" THEN work.todo \cap DOMAIN states = {}
                         ELSE work.todo \subseteq DOMAIN states

SupInv == SupTypeOK /\ OnRecord /\ TodoHasRecords

\* What a spawn does: at most one live session of s that init is told of, the
\* one its new record names, and no change to the others.
SpawnedOnce(s) ==
    /\ DOMAIN states' = DOMAIN states \cup {s}
    /\ states' \in [DOMAIN states' -> SvcState]
    /\ sess' \in [Sids -> Session]
    /\ \A i \in Sids : sess'[i].told => sess'[i].name \in Known
    /\ \A x \in DOMAIN states \ {s} : states'[x] = states[x]
    /\ \A i \in Sids, x \in Known : LiveAs(i, x)' =>
          \/ x # s /\ LiveAs(i, x)
          \/ x = s /\ states'[s].spawned /\ states'[s].sid = i

\* The record of s is written, whatever it says.
LEMMA RecordedOnce ==
    ASSUME SupTypeOK, NEW s \in Services, NEW st \in SvcState, Recorded(s, st)
    PROVE  /\ DOMAIN states' = DOMAIN states \cup {s}
           /\ states' \in [DOMAIN states' -> SvcState]
           /\ \A x \in DOMAIN states \ {s} : states'[x] = states[x]
           /\ states'[s] = st
  BY DEF SupTypeOK, Recorded

\* A session begins: it is told of if its spawn is, the others are as they were.
LEMMA StartsOne ==
    ASSUME SupTypeOK, NEW s, NEW i \in Sids, NEW told \in BOOLEAN,
           s \in Known \/ (s = "other" /\ ~told),
           Starts(i, s, told)
    PROVE  /\ sess' \in [Sids -> Session]
           /\ \A k \in Sids : sess'[k].told => sess'[k].name \in Known
           /\ \A k \in Sids, x \in Known : LiveAs(k, x)' =>
                 \/ LiveAs(k, x)
                 \/ told /\ k = i /\ x = s
<1>1. sess' = [sess EXCEPT ![i] = Live(s, told)]
  BY DEF Starts
<1>2. Live(s, told) \in Session /\ (Live(s, told).told => Live(s, told).name \in Known)
  BY Zenon DEF Live, Session
<1>3. /\ sess' \in [Sids -> Session]
      /\ \A k \in Sids : sess'[k].told => sess'[k].name \in Known
  BY <1>1, <1>2 DEF SupTypeOK
<1>4. ASSUME NEW k \in Sids, NEW x \in Known, LiveAs(k, x)'
      PROVE  LiveAs(k, x) \/ (told /\ k = i /\ x = s)
  <2>1. CASE k = i
    BY <1>1, <1>4, <2>1 DEF SupTypeOK, LiveAs, Live
  <2>2. CASE k # i
    BY <1>1, <1>4, <2>2 DEF SupTypeOK, LiveAs
  <2> QED
    BY <2>1, <2>2
<1> QED
  BY <1>3, <1>4

LEMMA OutcomeOf ==
    ASSUME NEW st \in SvcState, NEW k \in Sids \cup {0}
    PROVE  /\ [st EXCEPT !.fails = @ + 1] \in SvcState
           /\ [st EXCEPT !.sid = k, !.spawned = TRUE, !.fails = 0] \in SvcState
           /\ [st EXCEPT !.sid = k, !.spawned = TRUE, !.fails = 0].spawned
           /\ [st EXCEPT !.sid = k, !.spawned = TRUE, !.fails = 0].sid = k
<1>1. [st EXCEPT !.fails = @ + 1] \in SvcState
  BY DEF SvcState
<1>2. /\ [st EXCEPT !.sid = k, !.spawned = TRUE, !.fails = 0] \in SvcState
      /\ [st EXCEPT !.sid = k, !.spawned = TRUE, !.fails = 0].spawned
      /\ [st EXCEPT !.sid = k, !.spawned = TRUE, !.fails = 0].sid = k
  BY Zenon DEF SvcState
<1> QED
  BY <1>1, <1>2, Zenon

\* That is what it does to a service none of whose sessions init was told of
\* lives, whichever answer it reads.
LEMMA SpawnOne ==
    ASSUME SupTypeOK, NEW s \in Services, NEW st \in SvcState,
           \A i \in Sids : ~LiveAs(i, s),
           spawn(s, st)
    PROVE  SpawnedOnce(s)
<1>1. s \in Known
  BY DEF Known
<1>2. ASSUME NEW i \in Sids, Starts(i, s, TRUE), Told(s, st, i)
      PROVE  SpawnedOnce(s)
  <2> DEFINE new == [st EXCEPT !.sid = i, !.spawned = TRUE, !.fails = 0]
  <2>1. new \in SvcState /\ new.spawned /\ new.sid = i /\ Recorded(s, new)
    BY <1>2, OutcomeOf, Zenon DEF Told
  <2> HIDE DEF new
  <2>2. /\ DOMAIN states' = DOMAIN states \cup {s}
        /\ states' \in [DOMAIN states' -> SvcState]
        /\ \A x \in DOMAIN states \ {s} : states'[x] = states[x]
        /\ states'[s] = new
    BY <2>1, RecordedOnce, Zenon
  <2>3. /\ sess' \in [Sids -> Session]
        /\ \A k \in Sids : sess'[k].told => sess'[k].name \in Known
        /\ \A k \in Sids, x \in Known : LiveAs(k, x)' => LiveAs(k, x) \/ (k = i /\ x = s)
    BY <1>1, <1>2, StartsOne, Zenon
  <2> QED
    BY <2>1, <2>2, <2>3, Zenon DEF SpawnedOnce
<1>3. ASSUME (\E i \in Sids : Starts(i, s, FALSE)) \/ UNCHANGED sess,
             \E new \in SvcState : Recorded(s, new)
      PROVE  SpawnedOnce(s)
  <2>1. /\ sess' \in [Sids -> Session]
        /\ \A k \in Sids : sess'[k].told => sess'[k].name \in Known
        /\ \A k \in Sids, x \in Known : LiveAs(k, x)' => LiveAs(k, x)
    <3>1. CASE \E i \in Sids : Starts(i, s, FALSE)
      BY <1>1, <3>1, StartsOne, Zenon
    <3>2. CASE UNCHANGED sess
      BY <3>2 DEF SupTypeOK, LiveAs
    <3> QED
      BY <1>3, <3>1, <3>2, Zenon
  <2> QED
    BY <1>1, <1>3, <2>1, RecordedOnce, Zenon DEF SpawnedOnce
<1>4. ASSUME Failed(s, st) PROVE \E new \in SvcState : Recorded(s, new)
  BY <1>4, OutcomeOf, Zenon DEF Failed
<1>5. ASSUME NEW k \in Sids \cup {0}, Told(s, st, k)
      PROVE  \E new \in SvcState : Recorded(s, new)
  BY <1>5, OutcomeOf, Zenon DEF Told
<1> QED
  BY <1>2, <1>3, <1>4, <1>5, Zenon DEF spawn

\* The handler under way has done with s.
LEMMA DoneWith ==
    ASSUME SupInv, NEW s, IsNext(s),
           Done(s) \/ work' = [work EXCEPT !.todo = @ \ {s}]
    PROVE  /\ s \in work.todo
           /\ work' \in [op : {"idle", "boot", "sweep", "restart", "adopt", "revive"},
                         todo : SUBSET Known, alive : SUBSET Sids]
           /\ \/ work'.op = "idle" /\ work'.todo = {}
              \/ work'.op = work.op /\ work'.alive = work.alive
           /\ work'.todo = work.todo \ {s}
  BY DEF SupInv, SupTypeOK, IsNext, Done, Idle

LEMMA SpawnStep ==
    ASSUME SupInv, NEW s \in Services, NEW st \in SvcState,
           \A i \in Sids : ~LiveAs(i, s),
           spawn(s, st), IsNext(s),
           Done(s) \/ work' = [work EXCEPT !.todo = @ \ {s}]
    PROVE  SupInv'
<1>1. SpawnedOnce(s)
  BY SpawnOne DEF SupInv
<1>2. SupTypeOK'
  BY <1>1, DoneWith DEF SpawnedOnce, SupInv, SupTypeOK, Known
<1>3. OnRecord'
  <2> SUFFICES ASSUME NEW i \in Sids, NEW x \in Known, LiveAs(i, x)'
               PROVE  /\ x \in DOMAIN states'
                      /\ states'[x].spawned /\ states'[x].sid = i
                      /\ work'.op \in {"sweep", "revive"} /\ x \in work'.todo
                            => i \in work'.alive
                      /\ work'.op \in {"boot", "restart"} => x \notin work'.todo
    BY DEF OnRecord
  <2>1. CASE x # s /\ LiveAs(i, x)
    BY <1>1, <2>1, DoneWith DEF SpawnedOnce, SupInv, OnRecord
  <2>2. CASE x = s /\ states'[s].spawned /\ states'[s].sid = i
    BY <1>1, <2>2, DoneWith DEF SpawnedOnce
  <2> QED
    BY <1>1, <2>1, <2>2 DEF SpawnedOnce
<1>4. TodoHasRecords'
  BY <1>1, DoneWith DEF SpawnedOnce, SupInv, TodoHasRecords
<1> QED
  BY <1>2, <1>3, <1>4 DEF SupInv

\* A handler that leaves s as it is.
LEMMA SkipStep ==
    ASSUME SupInv, NEW s \in Services, IsNext(s), Done(s),
           UNCHANGED <<states, sess>>
    PROVE  SupInv'
<1>1. SupTypeOK'
  BY DoneWith DEF SupInv, SupTypeOK
<1>2. OnRecord'
  BY DoneWith DEF SupInv, OnRecord, LiveAs
<1>3. TodoHasRecords'
  BY DoneWith DEF SupInv, TodoHasRecords
<1> QED
  BY <1>1, <1>2, <1>3 DEF SupInv

\* The record a handler passes to spawn.
LEMMA RecordOf ==
    ASSUME SupInv, NEW s \in DOMAIN states
    PROVE  /\ states[s] \in SvcState
           /\ [states[s] EXCEPT !.spawned = FALSE, !.sid = 0] \in SvcState
           /\ [states[s] EXCEPT !.spawned = FALSE, !.sid = 0, !.fails = 0] \in SvcState
  BY ZenonT(60) DEF SupInv, SupTypeOK, SvcState
LEMMA BootInv == ASSUME SupInv, NEW s \in Services, BootOne(s) PROVE SupInv'
<1>1. s \in DOMAIN states /\ \A i \in Sids : ~LiveAs(i, s)
  BY DEF BootOne, IsNext, SupInv, OnRecord, TodoHasRecords, Known
<1> QED
  BY <1>1, RecordOf, SpawnStep, Zenon DEF BootOne

LEMMA RestartSpawnInv ==
    ASSUME SupInv, NEW s \in Services, RestartSpawn(s) PROVE SupInv'
<1>1. s \in DOMAIN states /\ \A i \in Sids : ~LiveAs(i, s)
  BY DEF RestartSpawn, IsNext, SupInv, OnRecord, TodoHasRecords, Known
<1> QED
  BY <1>1, RecordOf, SpawnStep, Zenon DEF RestartSpawn

\* A sweep spawns a service only if it was not on the session list it read or
\* has no session on record; either way none that init was told of lives.
LEMMA SweepInv == ASSUME SupInv, NEW s \in Services, SweepOne(s) PROVE SupInv'
<1>1. s \in work.todo /\ s \in DOMAIN states /\ work.op = "sweep"
  BY SMTT(60) DEF SweepOne, IsNext, SupInv, TodoHasRecords
<1>2. CASE NeedsSpawn(states[s])
  <2>1. \A i \in Sids : ~LiveAs(i, s)
    BY <1>1, <1>2 DEF NeedsSpawn, SupInv, OnRecord, Known
  <2> QED
    BY <1>1, <1>2, <2>1, RecordOf, SpawnStep, Zenon DEF SweepOne
<1>3. CASE ~NeedsSpawn(states[s])
  BY <1>3, SkipStep DEF SweepOne
<1> QED
  BY <1>2, <1>3

LEMMA ReviveInv == ASSUME SupInv, NEW s \in Services, Revive(s) PROVE SupInv'
<1>1. s \in work.todo /\ s \in DOMAIN states /\ work.op = "revive"
  BY SMTT(60) DEF Revive, IsNext, SupInv, TodoHasRecords
<1> DEFINE gone == states[s].respawn /\ states[s].spawned /\ states[s].sid \notin work.alive
<1>2. CASE gone
  <2>1. \A i \in Sids : ~LiveAs(i, s)
    BY <1>1, <1>2 DEF SupInv, OnRecord, Known
  <2> QED
    BY <1>1, <1>2, <2>1, RecordOf, SpawnStep, ZenonT(60) DEF Revive
<1>3. CASE ~gone
  BY <1>3, SkipStep DEF Revive
<1> QED
  BY <1>2, <1>3

LEMMA AdoptInv == ASSUME SupInv, NEW s \in Services, Adopt(s) PROVE SupInv'
<1>1. \A i \in Sids : ~LiveAs(i, s)
  BY DEF Adopt, IsNext, SupInv, OnRecord, TodoHasRecords, Known
<1>2. NewState \in SvcState
  BY DEF NewState, SvcState
<1> QED
  BY <1>1, <1>2, SpawnStep DEF Adopt

LEMMA PolicySet ==
    ASSUME NEW st \in SvcState, NEW b \in BOOLEAN
    PROVE  /\ [st EXCEPT !.respawn = b] \in SvcState
           /\ [st EXCEPT !.respawn = b].spawned = st.spawned
           /\ [st EXCEPT !.respawn = b].sid = st.sid
  BY DEF SvcState

\* The handlers that begin: they note what they have to do.
LEMMA BeginInv ==
    ASSUME SupInv, Sweep \/ ReloadList PROVE SupInv'
<1> USE DEF SupInv
<1>1. ASSUME NEW list \in SUBSET Sids, NEW op \in {"sweep", "revive"}, Lists(list),
             work' = [op |-> op, todo |-> DOMAIN states, alive |-> list],
             UNCHANGED states
      PROVE  SupInv'
  <2> DEFINE misled == sess' = [i \in Sids |-> IF i \in list THEN sess[i] ELSE Untold(sess[i])]
  <2>1. (list = AliveSids /\ UNCHANGED sess) \/ misled
    BY <1>1, Zenon DEF Lists, Untold
  <2>2. ASSUME NEW x \in Session PROVE Untold(x) \in Session /\ ~Untold(x).told
    BY Zenon DEF Session, Untold
  <2>3. /\ sess' \in [Sids -> Session]
        /\ \A i \in Sids : sess'[i].told => sess'[i].name \in Known
    BY <2>1, <2>2 DEF SupTypeOK
  <2>4. \A i \in Sids, x \in Known : LiveAs(i, x)' => LiveAs(i, x) /\ i \in list
    <3>1. CASE list = AliveSids /\ UNCHANGED sess
      BY <3>1 DEF LiveAs, AliveSids, Lives
    <3>2. CASE misled
      BY <2>2, <3>2 DEF LiveAs, SupTypeOK
    <3> QED
      BY <2>1, <3>1, <3>2
  <2>5. SupTypeOK' /\ TodoHasRecords'
    BY <1>1, <2>3 DEF SupTypeOK, TodoHasRecords
  <2>6. OnRecord'
    BY <1>1, <2>4 DEF OnRecord
  <2> QED
    BY <2>5, <2>6
<1>2. ASSUME UNCHANGED <<states, sess>>, work' = Idle PROVE SupInv'
  BY <1>2 DEF SupTypeOK, OnRecord, TodoHasRecords, LiveAs, Idle
<1> QED
  BY <1>1, <1>2 DEF Sweep, ReloadList

LEMMA ReloadInv ==
    ASSUME SupInv, NEW conf \in SUBSET Services, Reload(conf) PROVE SupInv'
<1> USE DEF SupInv
<1>1. /\ DOMAIN states' = DOMAIN states
      /\ \A s \in DOMAIN states :
            /\ states'[s] \in SvcState
            /\ states'[s].spawned = states[s].spawned
            /\ states'[s].sid = states[s].sid
  <2>1. states' = [s \in DOMAIN states |-> [states[s] EXCEPT !.respawn = (s \in conf)]]
    BY DEF Reload
  <2>2. \A s \in DOMAIN states : states[s] \in SvcState /\ (s \in conf) \in BOOLEAN
    BY DEF SupTypeOK
  <2> QED
    BY <2>1, <2>2, PolicySet, ZenonT(60)
<1>2. work' = [op |-> "adopt", todo |-> conf \ DOMAIN states, alive |-> {}]
  BY DEF Reload
<1>3. SupTypeOK'
  <2>1. states' \in [DOMAIN states' -> SvcState]
    BY <1>1 DEF Reload
  <2> QED
    BY <1>1, <1>2, <2>1 DEF SupTypeOK, Reload, Known
<1>4. OnRecord'
  BY <1>1, <1>2 DEF OnRecord, LiveAs, Reload
<1>5. TodoHasRecords'
  BY <1>1, <1>2 DEF TodoHasRecords
<1> QED
  BY <1>3, <1>4, <1>5

\* restart: what lives under the record's sid is killed, so no session of s
\* is left when its spawn comes.
LEMMA RestartInv == ASSUME SupInv, NEW s \in Services, Restart(s) PROVE SupInv'
<1> USE DEF SupInv
<1>1. /\ s \in DOMAIN states
      /\ work' = [op |-> "restart", todo |-> {s}, alive |-> {}]
      /\ states' = [states EXCEPT ![s].spawned = FALSE, ![s].sid = 0, ![s].fails = 0]
  BY DEF Restart
<1>2. /\ DOMAIN states' = DOMAIN states
      /\ states' \in [DOMAIN states' -> SvcState]
      /\ \A x \in DOMAIN states \ {s} : states'[x] = states[x]
  <2>1. states' = [states EXCEPT ![s] =
                      [states[s] EXCEPT !.spawned = FALSE, !.sid = 0, !.fails = 0]]
    BY <1>1, Zenon DEF SupTypeOK
  <2>2. s \in DOMAIN states /\ states \in [DOMAIN states -> SvcState]
    BY <1>1 DEF SupTypeOK
  <2>3. \E st \in SvcState : states' = [states EXCEPT ![s] = st]
    BY <2>1, <2>2, RecordOf, Zenon
  <2> QED
    BY <2>2, <2>3
<1>3. /\ sess' \in [Sids -> Session]
      /\ \A i \in Sids : sess'[i].told => sess'[i].name \in Known
      /\ \A i \in Sids, x \in Known : LiveAs(i, x)' =>
            LiveAs(i, x) /\ ~(states[s].spawned /\ states[s].sid = i)
  <2>1. CASE states[s].spawned /\ Lives(states[s].sid)
    <3>1. sess' = [sess EXCEPT ![states[s].sid] = Zombie]
      BY <2>1 DEF Restart
    <3> QED
      BY <3>1, Zenon DEF SupTypeOK, LiveAs, Zombie, Session
  <2>2. CASE ~(states[s].spawned /\ Lives(states[s].sid))
    <3>1. sess' = sess
      BY <2>2 DEF Restart
    <3> QED
      BY <2>2, <3>1 DEF SupTypeOK, LiveAs, Lives
  <2> QED
    BY <2>1, <2>2
<1>4. SupTypeOK'
  BY <1>1, <1>2, <1>3 DEF SupTypeOK
<1>5. OnRecord'
  <2> SUFFICES ASSUME NEW i \in Sids, NEW x \in Known, LiveAs(i, x)'
               PROVE  /\ x \in DOMAIN states'
                      /\ states'[x].spawned /\ states'[x].sid = i
                      /\ x # s
    BY <1>1 DEF OnRecord
  <2>1. LiveAs(i, x) /\ ~(states[s].spawned /\ states[s].sid = i)
    BY <1>3
  <2>2. x \in DOMAIN states /\ states[x].spawned /\ states[x].sid = i
    BY <2>1 DEF OnRecord
  <2> QED
    BY <1>2, <2>1, <2>2
<1>6. TodoHasRecords'
  BY <1>1, <1>2 DEF TodoHasRecords
<1> QED
  BY <1>4, <1>5, <1>6

LEMMA PolicyInv ==
    ASSUME SupInv, NEW s \in Services, NEW b \in BOOLEAN, Policy(s, b)
    PROVE  SupInv'
<1> USE DEF SupInv
<1>1. /\ s \in DOMAIN states /\ UNCHANGED <<work, sess>>
      /\ states' = [states EXCEPT ![s] = [states[s] EXCEPT !.respawn = b]]
  BY DEF Policy
<1>2. /\ DOMAIN states' = DOMAIN states
      /\ \A x \in DOMAIN states : /\ states'[x] \in SvcState
                                  /\ states'[x].spawned = states[x].spawned
                                  /\ states'[x].sid = states[x].sid
  BY <1>1, PolicySet DEF SupTypeOK
<1>3. states' \in [DOMAIN states' -> SvcState]
  BY <1>1, <1>2, Zenon
<1>4. SupTypeOK' /\ TodoHasRecords'
  BY <1>1, <1>2, <1>3 DEF SupTypeOK, TodoHasRecords
<1>5. OnRecord'
  BY <1>1, <1>2 DEF OnRecord, LiveAs
<1> QED
  BY <1>4, <1>5

\* What happens around init: a session that ends, its slot reaped, a session
\* another server spawns.
LEMMA AroundInv ==
    ASSUME SupInv, Reap \/ OtherSpawn \/ \E i \in Sids : Die(i)
    PROVE  SupInv'
<1> USE DEF SupInv
<1>1. ASSUME UNCHANGED <<states, work>>,
             sess' \in [Sids -> Session],
             \A i \in Sids : sess'[i].told => sess'[i].name \in Known,
             \A i \in Sids, x \in Known : LiveAs(i, x)' => LiveAs(i, x)
      PROVE  SupInv'
  BY <1>1 DEF SupTypeOK, OnRecord, TodoHasRecords
<1>2. CASE Reap
  <2>1. \A i \in Sids, x \in Known : LiveAs(i, x)' => LiveAs(i, x)
    BY <1>2 DEF Reap, Free, LiveAs
  <2>2. /\ sess' \in [Sids -> Session]
        /\ \A i \in Sids : sess'[i].told => sess'[i].name \in Known
    BY <1>2 DEF Reap, Free, SupTypeOK, Session
  <2> QED
    BY <1>1, <1>2, <2>1, <2>2 DEF Reap
<1>3. CASE OtherSpawn
  BY <1>1, <1>3, StartsOne, Zenon DEF OtherSpawn
<1>4. ASSUME NEW i \in Sids, Die(i) PROVE SupInv'
  <2>1. /\ \A k \in Sids, x \in Known : LiveAs(k, x)' => LiveAs(k, x)
        /\ sess' \in [Sids -> Session]
        /\ \A k \in Sids : sess'[k].told => sess'[k].name \in Known
    BY <1>4 DEF Die, Zombie, LiveAs, SupTypeOK, Session
  <2> QED
    BY <1>1, <1>4, <2>1 DEF Die
<1> QED
  BY <1>2, <1>3, <1>4

LEMMA SupInitInv == SupInit => SupInv
<1> SUFFICES ASSUME SupInit PROVE SupInv
  OBVIOUS
<1>1. SupTypeOK
  BY DEF SupInit, NewState, Free, SupTypeOK, SvcState, Known, Session
<1>2. OnRecord
  BY DEF SupInit, Free, OnRecord, LiveAs
<1>3. TodoHasRecords
  BY DEF SupInit, TodoHasRecords
<1> QED
  BY <1>1, <1>2, <1>3 DEF SupInv

\* services/init/init.go: whichever of the boot loop, sweep, restart and reload
\* comes to a service, whatever sessions end, are reaped or take its slot between
\* their registry calls, and whichever answers are lost or another client's, no
\* two sessions of one service that init was told of live at once.  For every
\* init.conf, number of slots, limit of spawn failures and number of answers
\* taken for init's own.
THEOREM InitNeverRunsTwo == SupSpec => []NeverTwo
<1>1. SupInv /\ [SupNext]_supVars => SupInv'
  <2> SUFFICES ASSUME SupInv, [SupNext]_supVars PROVE SupInv'
    OBVIOUS
  <2>1. ASSUME NEW s \in Services,
               \/ BootOne(s) \/ SweepOne(s) \/ RestartSpawn(s)
               \/ Adopt(s) \/ Revive(s) \/ Restart(s)
               \/ \E b \in BOOLEAN : Policy(s, b)
        PROVE  SupInv'
    BY <2>1, BootInv, SweepInv, RestartSpawnInv, AdoptInv, ReviveInv, RestartInv, PolicyInv
  <2>2. CASE Sweep \/ ReloadList \/ \E conf \in SUBSET Services : Reload(conf)
    BY <2>2, BeginInv, ReloadInv
  <2>3. CASE Reap \/ OtherSpawn \/ \E i \in Sids : Die(i)
    BY <2>3, AroundInv
  <2>4. CASE UNCHANGED supVars
    BY <2>4 DEF supVars, SupInv, SupTypeOK, OnRecord, TodoHasRecords, LiveAs
  <2> QED
    BY <2>1, <2>2, <2>3, <2>4 DEF SupNext, Handler
<1>2. SupInv => NeverTwo
  <2> SUFFICES ASSUME SupInv, NEW i \in Sids, NEW j \in Sids,
                      Lives(i), sess[i].told, Lives(j), sess[j].told,
                      sess[i].name = sess[j].name
               PROVE  i = j
    BY DEF NeverTwo
  <2>1. sess[i].name \in Known
    BY SMTT(60) DEF SupInv, SupTypeOK
  <2> QED
    BY <2>1 DEF SupInv, OnRecord, LiveAs, Lives
<1> QED
  BY <1>1, <1>2, SupInitInv, PTL DEF SupSpec
-----------------------------------------------------------------------------
(* login: Login *)

Request == [op : {"register", "call"}, user : Users, inbox : Nat]
FsState == [up : BOOLEAN, starts : Nat, queue : Seq(Request), known : SUBSET Users]
Task == [user : Users, pass : {"p", "q"}, pc : {"check", "focus", "register", "await"},
         inbox : Nat, replied : BOOLEAN]
Table == [used : Nat, book : SUBSET Users]

LoginTypeOK ==
    /\ client \in [Users -> {"out", "asked", "in", "refused"}]
    /\ auths \in Seq([user : Users, pass : {"p", "q"}])
    /\ task = NoTask \/ task \in Task
    /\ fs \in FsState /\ handles \in Table

\* fs has lost the registration, or registerFS reported that it was not queued.
Excused(u) == u \in lost \/ (u \in missed /\ u \in failed)

Registers(r, u) == r.op = "register" /\ r.user = u

\* fs grants a request at place n of its queue to u, or u is excused.
Granted(u, n) ==
    \/ Excused(u)
    \/ u \in fs.known
    \/ \E j \in 1 .. n - 1 : Registers(fs.queue[j], u)

\* The registration of the request in hand was dropped: no reply will come.
Dropped ==
    /\ task.user \in missed /\ ~task.replied
    /\ \A i \in 1 .. Len(fs.queue) : ~(fs.queue[i].op = "register" /\ fs.queue[i].inbox = task.inbox)

\* A client that is in has its registration ahead of whatever it queues next,
\* and so had every call it has queued; one that is about to be answered has it
\* too, or waits in vain for the reply.
AheadOfCalls ==
    /\ \A u \in Users : client[u] = "in" => Granted(u, Len(fs.queue) + 1)
    /\ \A i \in 1 .. Len(fs.queue) : fs.queue[i].op = "call" => Granted(fs.queue[i].user, i)
    /\ task.pc = "await" => Granted(task.user, Len(fs.queue) + 1) \/ Dropped
    /\ task.pc # "await" => ~task.replied
    /\ \A i \in 1 .. Len(fs.queue) : fs.queue[i].inbox <= handles.used

LoginInv == LoginTypeOK /\ AheadOfCalls /\ RegisteredBeforeUse

LEMMA TaskSteps ==
    ASSUME NEW x \in Task
    PROVE  /\ \A pc \in {"check", "focus", "register", "await"} :
                 [x EXCEPT !.pc = pc] \in Task /\ [x EXCEPT !.pc = pc].user = x.user
                 /\ [x EXCEPT !.pc = pc].pc = pc
           /\ \A n \in Nat : LET y == [x EXCEPT !.pc = "await", !.inbox = n]
                             IN y \in Task /\ y.user = x.user /\ y.inbox = n /\ y.pc = "await" /\ y.replied = x.replied
           /\ LET y == [x EXCEPT !.replied = TRUE]
              IN y \in Task /\ y.user = x.user /\ y.pc = x.pc /\ y.inbox = x.inbox
  BY Zenon DEF Task

\* A request appended to the queue takes nothing away from those before it.
LEMMA AppendKeepsOrder ==
    ASSUME LoginTypeOK, NEW r \in Request, UNCHANGED <<missed, failed, lost>>,
           fs' = [fs EXCEPT !.queue = Append(@, r)]
    PROVE  /\ fs' \in FsState
           /\ Len(fs'.queue) = Len(fs.queue) + 1
           /\ fs'.queue[Len(fs.queue) + 1] = r
           /\ \A i \in 1 .. Len(fs.queue) : fs'.queue[i] = fs.queue[i]
           /\ \A u, n : n \in 1 .. Len(fs.queue) + 1 /\ Granted(u, n) => Granted(u, n)'
           /\ \A u : Granted(u, Len(fs.queue) + 1) => Granted(u, Len(fs.queue) + 1)'
           /\ \A u : Registers(r, u) => Granted(u, Len(fs.queue) + 1)'
<1>1. fs.queue \in Seq(Request) /\ Len(fs.queue) \in Nat
  BY DEF LoginTypeOK, FsState
<1>2. fs'.queue = Append(fs.queue, r) /\ fs'.known = fs.known /\ fs' \in FsState
  <2>1. fs \in FsState /\ Append(fs.queue, r) \in Seq(Request)
    BY <1>1, Appended DEF LoginTypeOK
  <2> QED
    BY <2>1, Zenon DEF FsState
<1>3. /\ Len(fs'.queue) = Len(fs.queue) + 1
      /\ fs'.queue[Len(fs.queue) + 1] = r
      /\ \A i \in 1 .. Len(fs.queue) : fs'.queue[i] = fs.queue[i]
  BY <1>1, <1>2, Appended
<1>4. \A u : Excused(u)' <=> Excused(u)
  BY DEF Excused
<1>5. ASSUME NEW u, NEW n, n \in 1 .. Len(fs.queue) + 1, Granted(u, n)
      PROVE  Granted(u, n)'
  <2>1. \A j \in 1 .. n - 1 : fs'.queue[j] = fs.queue[j]
    BY <1>1, <1>3, <1>5
  <2> QED
    BY <1>2, <1>4, <1>5, <2>1 DEF Granted
<1>6. ASSUME NEW u, Granted(u, Len(fs.queue) + 1) \/ Registers(r, u)
      PROVE  Granted(u, Len(fs.queue) + 1)'
  <2>1. \A j \in 1 .. Len(fs.queue) : j \in 1 .. Len(fs'.queue) + 1 - 1 /\ fs'.queue[j] = fs.queue[j]
    BY <1>1, <1>3
  <2>2. Len(fs.queue) + 1 \in 1 .. Len(fs'.queue) + 1 - 1
    BY <1>1, <1>3
  <2>3. (Len(fs.queue) + 1) - 1 = Len(fs.queue)
    BY <1>1
  <2> QED
    BY <1>2, <1>3, <1>4, <1>6, <2>1, <2>2, <2>3 DEF Granted
<1> QED
  BY <1>2, <1>3, <1>5, <1>6

\* A file call of a client that is in comes after its registration.
LEMMA FileCallInv ==
    ASSUME LoginInv, NEW u \in Users, FileCall(u) PROVE LoginInv'
<1> DEFINE r == fileCall(u)
<1>1. /\ client[u] = "in" /\ r \in Request /\ r.op = "call" /\ r.user = u /\ r.inbox = 0
      /\ fs' = [fs EXCEPT !.queue = Append(@, r)]
      /\ UNCHANGED <<client, auths, task, handles, missed, failed, lost, denied>>
  BY DEF FileCall, Request, notes, fileCall
<1> HIDE DEF r
<1>2. /\ fs' \in FsState
      /\ Len(fs'.queue) = Len(fs.queue) + 1
      /\ fs'.queue[Len(fs.queue) + 1] = r
      /\ \A i \in 1 .. Len(fs.queue) : fs'.queue[i] = fs.queue[i]
      /\ \A v, n : n \in 1 .. Len(fs.queue) + 1 /\ Granted(v, n) => Granted(v, n)'
      /\ \A v : Granted(v, Len(fs.queue) + 1) => Granted(v, Len(fs.queue) + 1)'
  BY <1>1, AppendKeepsOrder, Zenon DEF LoginInv
<1>3. Len(fs.queue) \in Nat /\ handles.used \in Nat
  BY DEF LoginInv, LoginTypeOK, FsState, Table
<1>4. \A i \in 1 .. Len(fs'.queue) : (i \in 1 .. Len(fs.queue) /\ fs'.queue[i] = fs.queue[i])
                                     \/ (i = Len(fs.queue) + 1 /\ fs'.queue[i] = r)
  BY <1>2, <1>3
<1>5. \A v \in Users : client'[v] = "in" => Granted(v, Len(fs.queue) + 1)'
  BY <1>1, <1>2 DEF LoginInv, AheadOfCalls
<1>6. ASSUME NEW i \in 1 .. Len(fs'.queue), fs'.queue[i].op = "call"
      PROVE  Granted(fs.queue[i].user, i)'
  <2>1. CASE i \in 1 .. Len(fs.queue) /\ fs'.queue[i] = fs.queue[i]
    <3>1. Granted(fs.queue[i].user, i) /\ i \in 1 .. Len(fs.queue) + 1
      BY <1>3, <1>6, <2>1 DEF LoginInv, AheadOfCalls
    <3> QED
      BY <1>2, <2>1, <3>1, Zenon
  <2>2. CASE i = Len(fs.queue) + 1 /\ fs'.queue[i] = r
    <3>1. Granted(u, i) /\ i \in 1 .. Len(fs.queue) + 1
      BY <1>1, <1>3, <2>2 DEF LoginInv, AheadOfCalls
    <3> QED
      BY <1>1, <1>2, <2>2, <3>1, Zenon
  <2> QED
    BY <1>4, <2>1, <2>2
<1>7. task'.pc = "await" => Granted(task.user, Len(fs.queue) + 1)' \/ Dropped'
  <2>1. Dropped => Dropped'
    BY <1>1, <1>4 DEF Dropped
  <2> QED
    BY <1>1, <1>2, <2>1 DEF LoginInv, AheadOfCalls
<1>8. \A i \in 1 .. Len(fs'.queue) : fs'.queue[i].inbox <= handles'.used
  BY <1>1, <1>3, <1>4 DEF LoginInv, AheadOfCalls
<1> QED
  BY <1>1, <1>2, <1>5, <1>6, <1>7, <1>8
  DEF LoginInv, LoginTypeOK, AheadOfCalls, RegisteredBeforeUse

\* fs, its queue and its registrations stay; what is excused stays excused.
LEMMA GrantedStays ==
    ASSUME fs'.queue = fs.queue, fs.known \subseteq fs'.known \cup lost',
           lost \subseteq lost', missed \subseteq missed', failed \subseteq failed'
    PROVE  \A u, n : Granted(u, n) => Granted(u, n)'
  BY DEF Granted, Excused

LEMMA FailsInv == ASSUME LoginInv, task \in Task, NEW n \in 0 .. 2, Fails(n),
                         UNCHANGED <<auths, lost, denied>> PROVE LoginInv'
<1>0. PICK u \in Users : u = task.user
  BY DEF Task
<1>1. /\ handles.used \in Nat /\ Len(fs.queue) \in Nat
      /\ \A i \in 1 .. Len(fs.queue) : fs.queue[i].inbox \in Nat
  <2>1. fs.queue \in Seq(Request) /\ handles.used \in Nat
    BY DEF LoginInv, LoginTypeOK, FsState, Table
  <2>2. \A r \in Request : r.inbox \in Nat
    BY DEF Request
  <2> QED
    BY <2>1, <2>2
<1>2. /\ handles'.used = handles.used + n /\ handles' \in Table
      /\ missed' = missed \cup {u} /\ failed' = failed \cup {u} /\ task' = NoTask /\ fs' = fs
      /\ client' = [client EXCEPT ![u] = "in"]
  <2>1. handles' = [handles EXCEPT !.used = @ + n] /\ handles \in Table
    BY DEF Fails, LoginInv, LoginTypeOK
  <2>2. handles'.used = handles.used + n /\ handles' \in Table
    BY <1>1, <2>1 DEF Table
  <2> QED
    BY <1>0, <2>2 DEF Fails
<1>3. \A v, k : Granted(v, k) => Granted(v, k)'
  BY <1>2, GrantedStays
<1>4. \A k : Granted(u, k)'
  BY <1>2 DEF Granted, Excused
<1>5. \A v \in Users : client'[v] = "in" => Granted(v, Len(fs.queue) + 1)'
  BY <1>1, <1>2, <1>3, <1>4 DEF LoginInv, LoginTypeOK, AheadOfCalls
<1>6. \A i \in 1 .. Len(fs.queue) : fs.queue[i].inbox <= handles'.used
  <2>1. \A i \in 1 .. Len(fs.queue) : fs.queue[i].inbox <= handles.used
    BY DEF LoginInv, AheadOfCalls
  <2> QED
    BY <1>1, <1>2, <2>1
<1>7. LoginTypeOK' /\ task'.pc # "await" /\ ~task'.replied
  BY <1>1, <1>2 DEF LoginInv, LoginTypeOK, NoTask
<1>8. RegisteredBeforeUse'
  BY <1>2 DEF LoginInv, RegisteredBeforeUse
<1> QED
  BY <1>2, <1>3, <1>5, <1>6, <1>7, <1>8 DEF LoginInv, AheadOfCalls

\* registerFS: the registration is queued, or dropped and noted as missed, under
\* a reply port of its own.
LEMMA SentInv ==
    ASSUME LoginInv, task \in Task, task.pc = "register", ~task.replied,
           handles' = [handles EXCEPT !.used = @ + 2],
           task' = [task EXCEPT !.pc = "await", !.inbox = handles.used + 2],
           \/ /\ fs' = [fs EXCEPT !.queue = Append(@,
                     [op |-> "register", user |-> task.user, inbox |-> handles.used + 2])]
              /\ UNCHANGED missed
           \/ missed' = missed \cup {task.user} /\ fs' = fs,
           UNCHANGED <<client, auths, failed, lost, denied>>
    PROVE  LoginInv'
<1>1. PICK k \in Nat : k = handles.used
  BY DEF LoginInv, LoginTypeOK, Table
<1>2. PICK m \in Nat : m = Len(fs.queue)
  BY DEF LoginInv, LoginTypeOK, FsState
<1>3. handles'.used = k + 2 /\ handles' \in Table /\ k + 2 \in Nat
  BY <1>1 DEF LoginInv, LoginTypeOK, Table
<1>4. task' \in Task /\ task'.user = task.user /\ task'.inbox = k + 2 /\ task'.pc = "await" /\ ~task'.replied
      /\ task.user \in Users
  <2>1. task.user \in Users
    BY DEF Task
  <2>2. task' = [task EXCEPT !.pc = "await", !.inbox = k + 2]
    BY <1>1
  <2> QED
    BY <1>3, <2>1, <2>2, Zenon DEF Task
<1>5. \A i \in 1 .. m : fs.queue[i].inbox \in Nat /\ fs.queue[i].inbox <= k
  <2>1. fs.queue \in Seq(Request)
    BY DEF LoginInv, LoginTypeOK, FsState
  <2>2. \A r \in Request : r.inbox \in Nat
    BY DEF Request
  <2> QED
    BY <1>1, <1>2, <2>1, <2>2 DEF LoginInv, AheadOfCalls
<1>6. CASE missed' = missed \cup {task.user} /\ fs' = fs
  <2>1. \A v, n : Granted(v, n) => Granted(v, n)'
    BY <1>6, GrantedStays
  <2>2. Dropped'
    BY <1>2, <1>3, <1>4, <1>5, <1>6 DEF Dropped
  <2>3. \A i \in 1 .. Len(fs.queue) : fs.queue[i].inbox <= handles'.used
    BY <1>2, <1>3, <1>5
  <2>4. RegisteredBeforeUse'
    BY <1>6 DEF LoginInv, RegisteredBeforeUse
  <2> QED
    BY <1>3, <1>4, <1>6, <2>1, <2>2, <2>3, <2>4 DEF LoginInv, LoginTypeOK, AheadOfCalls
<1>7. CASE /\ fs' = [fs EXCEPT !.queue = Append(@,
                     [op |-> "register", user |-> task.user, inbox |-> handles.used + 2])]
           /\ UNCHANGED missed
  <2>1. PICK r \in Request : r = [op |-> "register", user |-> task.user, inbox |-> k + 2]
    BY <1>3, <1>4, Zenon DEF Request
  <2>2. r.op = "register" /\ r.user = task.user /\ r.inbox = k + 2 /\ Registers(r, task.user)
    BY <2>1 DEF Registers
  <2>3. fs' = [fs EXCEPT !.queue = Append(@, r)]
    BY <1>1, <1>7, <2>1, Zenon
  <2>4. /\ fs' \in FsState
        /\ Len(fs'.queue) = Len(fs.queue) + 1
        /\ fs'.queue[Len(fs.queue) + 1] = r
        /\ \A i \in 1 .. Len(fs.queue) : fs'.queue[i] = fs.queue[i]
        /\ \A v, n : n \in 1 .. Len(fs.queue) + 1 /\ Granted(v, n) => Granted(v, n)'
        /\ \A v : Granted(v, Len(fs.queue) + 1) => Granted(v, Len(fs.queue) + 1)'
        /\ \A v : Registers(r, v) => Granted(v, Len(fs.queue) + 1)'
    BY <1>7, <2>3, AppendKeepsOrder, Zenon DEF LoginInv
  <2>5. \A i \in 1 .. Len(fs'.queue) : (i \in 1 .. m /\ fs'.queue[i] = fs.queue[i]) \/ fs'.queue[i] = r
    BY <1>2, <2>4
  <2>6. ASSUME NEW i \in 1 .. Len(fs'.queue), fs'.queue[i].op = "call"
        PROVE  Granted(fs.queue[i].user, i)'
    <3>1. i \in 1 .. m /\ fs'.queue[i] = fs.queue[i]
      BY <2>2, <2>5, <2>6
    <3>2. Granted(fs.queue[i].user, i) /\ i \in 1 .. Len(fs.queue) + 1
      BY <1>2, <2>6, <3>1 DEF LoginInv, AheadOfCalls
    <3> QED
      BY <2>4, <3>1, <3>2, Zenon
  <2>7. \A i \in 1 .. Len(fs'.queue) : fs'.queue[i].inbox <= handles'.used
    BY <1>3, <1>5, <2>2, <2>5
  <2>8. \A v \in Users : client'[v] = "in" => Granted(v, Len(fs.queue) + 1)'
    BY <2>4 DEF LoginInv, AheadOfCalls
  <2>9. Granted(task.user, Len(fs.queue) + 1)'
    BY <1>4, <2>2, <2>4
  <2>10. RegisteredBeforeUse'
    BY <1>7 DEF LoginInv, RegisteredBeforeUse
  <2> QED
    BY <1>3, <1>4, <2>4, <2>6, <2>7, <2>8, <2>9, <2>10 DEF LoginInv, LoginTypeOK, AheadOfCalls
<1> QED
  BY <1>6, <1>7

LEMMA RegisterInv == ASSUME LoginInv, Register PROVE LoginInv'
<1>1. task \in Task /\ task.pc = "register" /\ ~task.replied /\ UNCHANGED <<auths, lost, denied>>
  BY DEF Register, NoTask, LoginInv, LoginTypeOK, AheadOfCalls
<1>2. ASSUME NEW n \in 0 .. 2, Fails(n) PROVE LoginInv'
  BY <1>1, <1>2, FailsInv
<1>3. CASE \E n \in 0 .. 2 : Fails(n)
  BY <1>2, <1>3
<1>4. CASE ~\E n \in 0 .. 2 : Fails(n)
  <2>1. 0 \in 0 .. 2 /\ \A n \in 1 .. 2 : n \in 0 .. 2
    OBVIOUS
  <2>2. /\ handles' = [handles EXCEPT !.used = @ + 2]
        /\ task' = [task EXCEPT !.pc = "await", !.inbox = handles.used + 2]
        /\ \/ /\ fs' = [fs EXCEPT !.queue = Append(@,
                     [op |-> "register", user |-> task.user, inbox |-> handles.used + 2])]
              /\ UNCHANGED missed
           \/ missed' = missed \cup {task.user} /\ fs' = fs
        /\ UNCHANGED <<client, failed>>
    BY <1>4, <2>1, Zenon DEF Register
  <2> QED
    BY <1>1, <2>2, SentInv, Zenon
<1> QED
  BY <1>3, <1>4

\* fs serves the head of its queue: a registration that leaves the queue is
\* known from then on, a call finds its user's registration served.
LEMMA FsServeInv == ASSUME LoginInv, FsServe PROVE LoginInv'
<1> DEFINE q == fs.queue
<1>1. /\ q \in Seq(Request) /\ q # <<>> /\ Len(q) \in Nat \ {0}
      /\ Head(q) = q[1] /\ q[1] \in Request
  BY DEF FsServe, LoginInv, LoginTypeOK, FsState
<1>2. /\ Tail(q) \in Seq(Request) /\ Len(Tail(q)) = Len(q) - 1
      /\ \A i \in 1 .. Len(q) - 1 : Tail(q)[i] = q[i + 1]
  BY <1>1, TailOf
<1>3. /\ fs'.queue = Tail(q) /\ fs' \in FsState
      /\ fs'.known = IF q[1].op = "register" THEN fs.known \cup {q[1].user} ELSE fs.known
      /\ denied' = IF q[1].op = "call" /\ q[1].user \notin fs.known
                   THEN denied \cup {q[1].user} ELSE denied
      /\ UNCHANGED <<client, auths, handles, missed, failed, lost>>
  <2> DEFINE K == IF q[1].op = "register" THEN fs.known \cup {q[1].user} ELSE fs.known
  <2>1. /\ fs' = [fs EXCEPT !.queue = Tail(q), !.known = K]
        /\ denied' = IF q[1].op = "call" /\ q[1].user \notin fs.known
                     THEN denied \cup {q[1].user} ELSE denied
        /\ UNCHANGED <<client, auths, handles, missed, failed, lost>>
    BY <1>1 DEF FsServe
  <2>2. fs \in FsState /\ K \in SUBSET Users
    BY <1>1 DEF LoginInv, LoginTypeOK, FsState, Request
  <2> HIDE DEF K
  <2>3. fs'.queue = Tail(q) /\ fs'.known = K /\ fs' \in FsState
    BY <1>2, <2>1, <2>2, ZenonT(60) DEF FsState
  <2> QED
    BY <2>1, <2>3 DEF K
<1>4. \/ task' = task
      \/ /\ q[1].op = "register" /\ task.pc = "await" /\ q[1].inbox = task.inbox
         /\ task' = [task EXCEPT !.replied = TRUE]
  BY <1>1, Zenon DEF FsServe
<1>5. ASSUME NEW u, NEW n \in 1 .. Len(q), Granted(u, n + 1)
      PROVE  Granted(u, n)'
  <2>1. CASE Excused(u) \/ u \in fs.known
    BY <1>3, <2>1 DEF Granted, Excused
  <2>2. ASSUME NEW j \in 1 .. n, Registers(q[j], u)
        PROVE  Granted(u, n)'
    <3>1. CASE j = 1
      BY <1>3, <2>2, <3>1 DEF Granted, Registers
    <3>2. CASE j # 1
      <4>1. j - 1 \in 1 .. n - 1 /\ j - 1 \in 1 .. Len(q) - 1
        BY <1>1, <3>2
      <4>2. fs'.queue[j - 1] = q[j]
        BY <1>2, <1>3, <2>2, <4>1, SMTT(60)
      <4> QED
        BY <2>2, <4>1, <4>2 DEF Granted
    <3> QED
      BY <3>1, <3>2
  <2> QED
    BY <1>5, <2>1, <2>2 DEF Granted
<1>6. /\ Len(fs'.queue) + 1 = Len(q) /\ Len(q) \in 1 .. Len(q)
      /\ \A i \in 1 .. Len(fs'.queue) :
            i + 1 \in 1 .. Len(q) /\ i \in 1 .. Len(q) /\ fs'.queue[i] = q[i + 1]
  BY <1>1, <1>2, <1>3
<1>7. \A u : Granted(u, Len(q) + 1) => Granted(u, Len(fs.queue) + 1)'
  BY <1>5, <1>6, SMTT(60)
<1>8. \A u \in Users : client'[u] = "in" => Granted(u, Len(fs.queue) + 1)'
  BY <1>3, <1>7 DEF LoginInv, AheadOfCalls
<1>9. ASSUME NEW i \in 1 .. Len(fs'.queue), fs'.queue[i].op = "call"
      PROVE  Granted(fs.queue[i].user, i)'
  <2>1. Granted(q[i + 1].user, i + 1)
    BY <1>6, <1>9 DEF LoginInv, AheadOfCalls
  <2> QED
    BY <1>5, <1>6, <2>1, SMTT(60)
<1>10. task'.user = task.user /\ task'.pc = task.pc /\ task'.inbox = task.inbox
       /\ (task' = NoTask \/ task' \in Task) /\ (task.pc # "await" => task' = task)
  <2>1. CASE task' = task
    BY <2>1, SMTT(60) DEF LoginInv, LoginTypeOK
  <2>2. CASE task.pc = "await" /\ task' = [task EXCEPT !.replied = TRUE]
    <3>1. task \in Task
      BY <2>2 DEF LoginInv, LoginTypeOK, NoTask
    <3> QED
      BY <2>2, <3>1, TaskSteps, Zenon
  <2> QED
    BY <1>4, <2>1, <2>2
<1>11. task'.pc = "await" => Granted(task.user, Len(fs.queue) + 1)' \/ Dropped'
  <2> SUFFICES ASSUME task.pc = "await", Dropped PROVE Dropped'
    BY <1>7, <1>10 DEF LoginInv, AheadOfCalls
  <2>1. 1 \in 1 .. Len(q)
    BY <1>1
  <2>2. task' = task
    BY <1>4, <2>1 DEF Dropped
  <2> QED
    BY <1>3, <1>6, <2>2 DEF Dropped
<1>12. \A i \in 1 .. Len(fs'.queue) : fs'.queue[i].inbox <= handles'.used
  BY <1>3, <1>6 DEF LoginInv, AheadOfCalls
<1>13. RegisteredBeforeUse'
  <2>1. ASSUME q[1].op = "call", q[1].user \notin fs.known PROVE Excused(q[1].user)
    <3>1. 1 \in 1 .. Len(q) /\ Granted(q[1].user, 1)
      BY <1>1, <2>1 DEF LoginInv, AheadOfCalls
    <3> QED
      BY <2>1, <3>1 DEF Granted
  <2> QED
    BY <1>3, <2>1 DEF LoginInv, RegisteredBeforeUse, Excused
<1>14. task'.pc # "await" => ~task'.replied
  BY <1>10 DEF LoginInv, AheadOfCalls
<1>15. LoginTypeOK'
  BY <1>3, <1>10 DEF LoginInv, LoginTypeOK
<1> QED
  BY <1>8, <1>9, <1>11, <1>12, <1>13, <1>14, <1>15 DEF LoginInv, AheadOfCalls

\* A step after which fs still has its queue, its registrations or a note of
\* what it lost, and after which nobody is in who was not.
LEMMA KeptInv ==
    ASSUME LoginInv, LoginTypeOK', RegisteredBeforeUse', fs'.queue = fs.queue,
           fs.known \subseteq fs'.known \cup lost',
           lost \subseteq lost', missed \subseteq missed', failed \subseteq failed',
           \A i \in 1 .. Len(fs.queue) : fs.queue[i].inbox <= handles'.used,
           \A u \in Users : client'[u] = "in" => client[u] = "in" \/ Granted(u, Len(fs.queue) + 1)',
           task' = task \/ (task'.pc # "await" /\ ~task'.replied)
    PROVE  LoginInv'
<1>1. \A u, n : Granted(u, n) => Granted(u, n)'
  BY GrantedStays
<1>2. task' = task /\ Dropped => Dropped'
  BY DEF Dropped
<1>3. \A u \in Users : client'[u] = "in" => Granted(u, Len(fs.queue) + 1)'
  BY <1>1 DEF LoginInv, AheadOfCalls
<1>4. \A i \in 1 .. Len(fs.queue) : fs.queue[i].op = "call" => Granted(fs.queue[i].user, i)'
  BY <1>1 DEF LoginInv, AheadOfCalls
<1>5. task'.pc = "await" => Granted(task.user, Len(fs.queue) + 1)' \/ Dropped'
  BY <1>1, <1>2 DEF LoginInv, AheadOfCalls
<1> QED
  BY <1>3, <1>4, <1>5 DEF LoginInv, AheadOfCalls

LEMMA InboxesKept ==
    ASSUME LoginInv, handles'.used \in Nat, handles.used <= handles'.used
    PROVE  \A i \in 1 .. Len(fs.queue) : fs.queue[i].inbox <= handles'.used
<1>1. fs.queue \in Seq(Request) /\ handles.used \in Nat
  BY DEF LoginInv, LoginTypeOK, FsState, Table
<1>2. \A r \in Request : r.inbox \in Nat
  BY DEF Request
<1>3. \A i \in 1 .. Len(fs.queue) : fs.queue[i].inbox \in Nat
  BY <1>1, <1>2
<1>4. \A i \in 1 .. Len(fs.queue) : fs.queue[i].inbox <= handles.used
  BY DEF LoginInv, AheadOfCalls
<1> QED
  BY <1>1, <1>3, <1>4

\* A restart of fs loses the registrations, and they are noted as lost.
LEMMA FsDieInv == ASSUME LoginInv, FsDie PROVE LoginInv'
<1>1. /\ fs' \in FsState /\ fs'.queue = fs.queue /\ fs'.known = {}
      /\ lost' = lost \cup fs.known
      /\ UNCHANGED <<client, auths, task, handles, missed, failed, denied>>
  BY Zenon DEF FsDie, LoginInv, LoginTypeOK, FsState
<1>2. LoginTypeOK' /\ RegisteredBeforeUse'
  BY <1>1 DEF LoginInv, LoginTypeOK, RegisteredBeforeUse
<1>3. \A i \in 1 .. Len(fs.queue) : fs.queue[i].inbox <= handles'.used
  BY <1>1 DEF LoginInv, AheadOfCalls
<1> QED
  BY <1>1, <1>2, <1>3, KeptInv

\* The answer: the registration was queued, or the reply has not come and the
\* failure is reported.
LEMMA AnswerInv == ASSUME LoginInv, Answer PROVE LoginInv'
<1>0. task \in Task
  BY DEF Answer, LoginInv, LoginTypeOK, NoTask
<1> PICK u \in Users : u = task.user
  BY <1>0 DEF Task
<1>1. /\ u = task.user
      /\ failed' = IF task.replied THEN failed ELSE failed \cup {u}
      /\ client' = [client EXCEPT ![u] = "in"] /\ task' = NoTask
      /\ UNCHANGED <<auths, handles, fs, missed, lost, denied>>
  BY DEF Answer
<1>2. \A v, n : Granted(v, n) => Granted(v, n)'
  BY <1>1, GrantedStays
<1>3. Granted(u, Len(fs.queue) + 1)'
  <2>1. CASE Granted(u, Len(fs.queue) + 1)
    BY <1>1, <1>2, <2>1
  <2>2. CASE Dropped
    BY <1>1, <2>2 DEF Dropped, Granted, Excused
  <2> QED
    BY <2>1, <2>2 DEF Answer, LoginInv, AheadOfCalls
<1>4. \A v \in Users : client'[v] = "in" => client[v] = "in" \/ Granted(v, Len(fs.queue) + 1)'
  BY <1>1, <1>3 DEF LoginInv, LoginTypeOK
<1>5. LoginTypeOK' /\ task'.pc # "await" /\ ~task'.replied
  BY <1>1 DEF LoginInv, LoginTypeOK, NoTask
<1>6. RegisteredBeforeUse'
  BY <1>1 DEF LoginInv, RegisteredBeforeUse
<1>7. \A i \in 1 .. Len(fs.queue) : fs.queue[i].inbox <= handles'.used
  BY <1>1 DEF LoginInv, AheadOfCalls
<1> QED
  BY <1>1, <1>4, <1>5, <1>6, <1>7, KeptInv

\* The other steps leave the queue, the registrations and the notes alone, and
\* let nobody in.
LEMMA QuietInv ==
    ASSUME LoginInv,
           \/ \E u \in Users, pass \in {"p", "q"} : Auth(u, pass)
           \/ Take \/ NoReply \/ Refuse \/ Spawn \/ Focus
           \/ Edit \/ FsStart \/ UNCHANGED loginVars
    PROVE  LoginInv'
<1>1. /\ fs' \in FsState /\ fs'.queue = fs.queue /\ fs'.known = fs.known
      /\ UNCHANGED <<missed, failed, lost, denied>>
  <2>1. /\ fs' = fs \/ fs' = [fs EXCEPT !.up = TRUE, !.starts = @ + 1]
        /\ UNCHANGED <<missed, failed, lost, denied>>
    BY Zenon DEF Auth, Take, NoReply, Refuse, Spawn, Focus, Edit, FsStart, loginVars, notes
  <2>2. fs \in FsState /\ fs.starts + 1 \in Nat
    BY DEF LoginInv, LoginTypeOK, FsState
  <2>3. CASE fs' = [fs EXCEPT !.up = TRUE, !.starts = @ + 1]
    BY <2>1, <2>2, <2>3, ZenonT(60) DEF FsState
  <2> QED
    BY <2>1, <2>2, <2>3
<1>2. handles' \in Table /\ handles.used \in Nat /\ handles'.used \in Nat /\ handles.used <= handles'.used
  <2>1. handles \in Table /\ handles.used \in Nat /\ handles.book \in SUBSET Users
    BY DEF LoginInv, LoginTypeOK, Table
  <2>2. CASE handles' = handles
    BY <2>1, <2>2
  <2>3. CASE handles' = [handles EXCEPT !.used = @ + 1]
    BY <2>1, <2>3 DEF Table
  <2>4. ASSUME NEW u \in Users, handles' = [used |-> handles.used + 1, book |-> handles.book \cup {u}]
        PROVE  handles' \in Table /\ handles.used <= handles'.used /\ handles'.used \in Nat
    BY <2>1, <2>4 DEF Table
  <2>5. \/ handles' = handles \/ handles' = [handles EXCEPT !.used = @ + 1]
        \/ /\ task.pc = "check"
           /\ handles' = [used |-> handles.used + 1, book |-> handles.book \cup {task.user}]
    BY Zenon DEF Auth, Take, NoReply, Refuse, Spawn, Focus, Edit, FsStart, loginVars, Bind
  <2>6. task.pc = "check" => task.user \in Users
    BY DEF LoginInv, LoginTypeOK, NoTask, Task
  <2> QED
    BY <2>1, <2>2, <2>3, <2>4, <2>5, <2>6
<1>3. ASSUME client' \in [Users -> {"out", "asked", "in", "refused"}],
             auths' \in Seq([user : Users, pass : {"p", "q"}]),
             task' = NoTask \/ task' \in Task,
             task' = task \/ (task'.pc # "await" /\ ~task'.replied),
             \A u \in Users : client'[u] = "in" => client[u] = "in"
      PROVE  LoginInv'
  <2>1. LoginTypeOK'
    BY <1>1, <1>2, <1>3 DEF LoginTypeOK
  <2>2. RegisteredBeforeUse'
    BY <1>1 DEF LoginInv, RegisteredBeforeUse
  <2>3. \A i \in 1 .. Len(fs.queue) : fs.queue[i].inbox <= handles'.used
    BY <1>2, InboxesKept
  <2> QED
    BY <1>1, <1>3, <2>1, <2>2, <2>3, KeptInv
<1>4. ASSUME NEW u \in Users, NEW pass \in {"p", "q"}, Auth(u, pass) PROVE LoginInv'
  <2>1. auths' \in Seq([user : Users, pass : {"p", "q"}])
    BY <1>4, Appended, SMTT(60) DEF Auth, LoginInv, LoginTypeOK
  <2> QED
    BY <1>3, <1>4, <2>1 DEF Auth, LoginInv, LoginTypeOK
<1>5. CASE Take
  <2>1. /\ Tail(auths) \in Seq([user : Users, pass : {"p", "q"}])
        /\ Head(auths) \in [user : Users, pass : {"p", "q"}]
    BY <1>5, TailOf, Zenon DEF Take, LoginInv, LoginTypeOK
  <2>2. task' \in Task /\ task'.pc = "check" /\ ~task'.replied
    BY <1>5, <2>1, Zenon DEF Take, NoTask, Task
  <2> QED
    BY <1>3, <1>5, <2>1, <2>2, SMTT(60) DEF Take, LoginInv, LoginTypeOK
<1>6. CASE Refuse \/ NoReply
  <2>1. task' = NoTask /\ NoTask.pc # "await" /\ ~NoTask.replied /\ auths' = auths
    BY <1>6 DEF Refuse, NoReply, NoTask
  <2>2. /\ client' \in [Users -> {"out", "asked", "in", "refused"}]
        /\ \A u \in Users : client'[u] = "in" => client[u] = "in"
    BY <1>6 DEF Refuse, NoReply, LoginInv, LoginTypeOK
  <2> QED
    BY <1>3, <2>1, <2>2 DEF LoginInv, LoginTypeOK
<1>7. CASE Spawn \/ Focus
  <2>1. task \in Task /\ ~task.replied /\ UNCHANGED <<client, auths>>
    BY <1>7 DEF Spawn, Focus, NoTask, LoginInv, LoginTypeOK, AheadOfCalls
  <2>2. \E pc \in {"focus", "register"} : task' = [task EXCEPT !.pc = pc]
    BY <1>7, Zenon DEF Spawn, Focus
  <2>3. task' \in Task /\ task'.pc # "await" /\ task'.replied = task.replied
    BY <2>1, <2>2 DEF Task
  <2> QED
    BY <1>3, <2>1, <2>3 DEF LoginInv, LoginTypeOK
<1>8. CASE Edit \/ FsStart \/ UNCHANGED loginVars
  BY <1>3, <1>8 DEF Edit, FsStart, loginVars, LoginInv, LoginTypeOK
<1> QED
  BY <1>4, <1>5, <1>6, <1>7, <1>8

\* services/login/login.go, kernAuth: "the client's first op [is] ordered after
\* it by construction".  A user who was answered is denied a file call only when
\* fs has lost its registrations since, or when the registration could not be
\* queued and registerFS reported that, for every set of users, every table,
\* any size of the handle table and any number of restarts of fs.
THEOREM LoginRegistersFirst == LoginSpec => []RegisteredBeforeUse
<1>1. LoginInit => LoginInv
  BY DEF LoginInit, LoginInv, LoginTypeOK, FsState, Table, AheadOfCalls, NoTask,
         RegisteredBeforeUse
<1>2. LoginInv /\ [LoginNext]_loginVars => LoginInv'
  BY FileCallInv, RegisterInv, FsServeInv, FsDieInv, AnswerInv, QuietInv DEF LoginNext
<1>3. LoginInv => RegisteredBeforeUse
  BY DEF LoginInv
<1> QED
  BY <1>1, <1>2, <1>3, PTL DEF LoginSpec
-----------------------------------------------------------------------------
(* The console relay: Console *)

\* The relay remembers an unfinished redraw exactly while one stands on the
\* cursor's row.
EchoRemembered ==
    /\ prevEcho <=> lastEcho # None /\ ~lastEcho.nl
    /\ PromptStays

\* services/console/console.go: "the cursor is never left without a "> "
\* leader", for every sequence of redraws and log lines.
THEOREM PromptIsRedrawn == ConsoleSpec => []PromptStays
<1>1. ConsoleInit => EchoRemembered
  BY DEF ConsoleInit, EchoRemembered, PromptStays
<1>2. EchoRemembered /\ [ConsoleNext]_consoleVars => EchoRemembered'
  <2> SUFFICES ASSUME EchoRemembered, [ConsoleNext]_consoleVars
               PROVE  EchoRemembered'
    OBVIOUS
  <2>1. ASSUME NEW d \in Datagrams, Relay(d), d.kind = "echo"
        PROVE  EchoRemembered'
    <3>0. None.kind = "none"
      BY DEF None
    <3>1. d # None
      BY <2>1, <3>0, SMTT(60)
    <3> QED
      BY <2>1, <3>1 DEF Relay, Redraw, Line, EchoRemembered,
                        PromptStays
  <2>2. ASSUME NEW d \in Datagrams, Relay(d), d.kind # "echo"
        PROVE  EchoRemembered'
    BY <2>2, Zenon DEF Relay, AfterLine, Redraw, Line,
                EchoRemembered, PromptStays
  <2>3. CASE UNCHANGED consoleVars
    BY <2>3 DEF consoleVars, EchoRemembered, PromptStays
  <2> QED
    BY <2>1, <2>2, <2>3, SMTT(60) DEF ConsoleNext
<1>3. EchoRemembered => PromptStays
  BY DEF EchoRemembered
<1> QED
  BY <1>1, <1>2, <1>3, PTL DEF ConsoleSpec

-----------------------------------------------------------------------------
(* The DHCP client: Dhcp *)

Given == Addrs \cup {"none"}

DhcpReply == [type : {"OFFER", "ACK", "NAK"}, xid : Nat, addr : Given, until : Nat]

DhcpTypeOK ==
    /\ now \in Nat /\ xid \in Nat /\ until \in Nat
    /\ srv \in [addr : Given, until : Nat]
    /\ ex \in [phase : {"idle", "discover", "offer?", "request", "ack?"},
               trig : {"none", "boot", "auto", "manual"}, try : Nat, offer : Given]

\* What the server still stands by: an acknowledgement that has not run out
\* is its binding or a shorter one, and while the client waits for an offer
\* the offers of this exchange are of the bound address, if one is bound.
Honoured ==
    {m \in DhcpReply :
        /\ m.xid <= xid
        /\ m.type = "ACK" /\ now < m.until => srv.addr = m.addr /\ srv.until >= m.until
        /\ ex.phase \in {"discover", "offer?"} /\ m.type = "OFFER" /\ m.xid = xid
           /\ now < srv.until => m.addr = srv.addr}

DhcpInv ==
    /\ DhcpTypeOK
    /\ LeaseTime \in Nat /\ srv.until <= now + LeaseTime
    /\ replies \in Seq(Honoured)
    /\ ex.phase \in {"request", "ack?"} /\ now < srv.until => ex.offer = srv.addr
    /\ AddressIsGranted

\* A step that honours what was honoured keeps the replies under way.
LEMMA StillHonoured ==
    ASSUME replies \in Seq(Honoured), Honoured \subseteq Honoured',
           \/ replies' = replies
           \/ replies # <<>> /\ replies' = Tail(replies)
           \/ \E m \in Honoured' : replies' = Append(replies, m)
    PROVE  replies' \in Seq(Honoured')
  <1> DEFINE H == Honoured'
  <1>1. replies \in Seq(H)
    BY SeqOfMore
  <1> HIDE DEF H
  <1>2. replies' \in Seq(H)
    BY <1>1, SMTT(60) DEF H
  <1> QED
    BY <1>2 DEF H

LEMMA DhcpInitInv == ASSUME LeaseTime \in Nat, DhcpInit PROVE DhcpInv
  <1>1. DhcpTypeOK
    BY DEF DhcpInit, DhcpTypeOK, NoExchange, Given
  <1>2. replies \in Seq(Honoured)
    BY DEF DhcpInit
  <1> QED
    BY <1>1, <1>2 DEF DhcpInit, DhcpInv, NoExchange, AddressIsGranted

\* Time passes: what runs out is not honoured any longer, and need not be.
LEMMA TickInv == ASSUME DhcpInv, Tick PROVE DhcpInv'
  <1>1. DhcpTypeOK'
    BY DEF DhcpInv, Tick, DhcpTypeOK
  <1>2. Honoured \subseteq Honoured'
    BY DEF DhcpInv, Tick, DhcpTypeOK, Honoured, DhcpReply
  <1>3. replies' \in Seq(Honoured')
    BY <1>2, StillHonoured DEF DhcpInv, Tick
  <1> QED
    BY <1>1, <1>3 DEF DhcpInv, Tick, DhcpTypeOK, AddressIsGranted

\* A new exchange has a transaction id no reply under way has.
LEMMA ExchangeInv ==
    ASSUME DhcpInv, NEW trig \in {"boot", "auto", "manual"}, Begin(trig)
    PROVE  DhcpInv'
  <1>1. DhcpTypeOK'
    BY DEF DhcpInv, Begin, DhcpTypeOK, Given
  <1>2. Honoured \subseteq Honoured'
    BY SMTT(60) DEF DhcpInv, Begin, DhcpTypeOK, Honoured, DhcpReply
  <1>3. replies' \in Seq(Honoured')
    BY <1>2, StillHonoured DEF DhcpInv, Begin
  <1> QED
    BY <1>1, <1>3 DEF DhcpInv, Begin, DhcpTypeOK, AddressIsGranted

LEMMA SendDiscoverInv == ASSUME DhcpInv, SendDiscover PROVE DhcpInv'
  <1>1. PICK a \in IF now < srv.until THEN {srv.addr} ELSE Addrs :
            Exchange("offer?", Msg("OFFER", xid, a, 0))
    BY DEF SendDiscover
  <1>2. ex.phase = "discover" /\ srv' = srv
    BY DEF SendDiscover
  <1>3. DhcpTypeOK'
    BY <1>1, <1>2, SMTT(60) DEF DhcpInv, Exchange, DhcpTypeOK
  <1>4. ex'.phase = "offer?"
    BY <1>1 DEF Exchange, DhcpInv, DhcpTypeOK
  <1>5. Honoured \subseteq Honoured'
    BY <1>1, <1>2, <1>4 DEF DhcpInv, Exchange, DhcpTypeOK, Honoured, DhcpReply
  <1>6. a \in Given /\ (now < srv.until => a = srv.addr)
    BY DEF DhcpInv, DhcpTypeOK, Given
  <1>7. Msg("OFFER", xid, a, 0) \in Honoured'
    BY <1>1, <1>2, <1>6 DEF DhcpInv, Exchange, DhcpTypeOK, Honoured, DhcpReply, Msg
  <1>8. replies' \in Seq(Honoured')
    BY <1>1, <1>5, <1>7, StillHonoured DEF DhcpInv, Exchange
  <1> QED
    BY <1>1, <1>2, <1>3, <1>4, <1>8 DEF DhcpInv, Exchange, DhcpTypeOK, AddressIsGranted

\* The server binds the offered address anew: if a binding runs it is of that
\* address, and the new one runs longer than every one before.
LEMMA SendRequestInv == ASSUME DhcpInv, SendRequest PROVE DhcpInv'
  <1>1. ex.phase = "request" /\ now' = now /\ xid' = xid /\ ip' = ip /\ until' = until
    BY DEF SendRequest, Exchange
  <1>2. ex' = [ex EXCEPT !.phase = "ack?"]
    BY DEF SendRequest, Exchange
  <1>3. CASE /\ srv' = [addr |-> ex.offer, until |-> now + LeaseTime]
             /\ Exchange("ack?", Msg("ACK", xid, ex.offer, now + LeaseTime))
    <2>1. DhcpTypeOK'
      BY <1>1, <1>2, <1>3, SMTT(60) DEF DhcpInv, DhcpTypeOK
    <2>2. ex'.phase = "ack?" /\ ex'.offer = ex.offer
      BY <1>2 DEF DhcpInv, DhcpTypeOK
    <2>3. srv'.addr = ex.offer /\ srv'.until = now + LeaseTime
      BY <1>3
    <2>4. now < srv.until => srv.addr = srv'.addr
      BY <1>1, <2>3 DEF DhcpInv
    <2>5. Honoured \subseteq Honoured'
      BY <1>1, <2>2, <2>3, <2>4 DEF DhcpInv, DhcpTypeOK, Honoured, DhcpReply
    <2>6. Msg("ACK", xid, ex.offer, now + LeaseTime) \in Honoured'
      BY <1>1, <2>2, <2>3 DEF DhcpInv, DhcpTypeOK, Honoured, DhcpReply, Msg
    <2>7. replies' \in Seq(Honoured')
      BY <1>3, <2>5, <2>6, StillHonoured DEF DhcpInv, Exchange
    <2>8. AddressIsGranted'
      BY <1>1, <2>3, <2>4 DEF DhcpInv, DhcpTypeOK, AddressIsGranted
    <2> QED
      BY <1>1, <2>1, <2>2, <2>3, <2>7, <2>8 DEF DhcpInv, DhcpTypeOK
  <1>4. CASE srv' = srv /\ replies' = Append(replies, Msg("NAK", xid, "none", 0))
    <2>1. DhcpTypeOK'
      BY <1>1, <1>2, <1>4, Zenon DEF DhcpInv, DhcpTypeOK
    <2>2. ex'.phase = "ack?" /\ ex'.offer = ex.offer
      BY <1>2 DEF DhcpInv, DhcpTypeOK
    <2>3. Honoured \subseteq Honoured'
      BY <1>1, <1>4, <2>2 DEF DhcpInv, DhcpTypeOK, Honoured, DhcpReply
    <2>4. Msg("NAK", xid, "none", 0) \in Honoured'
      BY <1>1, <1>4, <2>2 DEF DhcpInv, DhcpTypeOK, Honoured, DhcpReply, Msg, Given
    <2>5. replies' \in Seq(Honoured')
      BY <1>4, <2>3, <2>4, StillHonoured DEF DhcpInv
    <2> QED
      BY <1>1, <1>4, <2>1, <2>2, <2>5 DEF DhcpInv, AddressIsGranted
  <1> QED
    BY <1>3, <1>4 DEF SendRequest

\* A request is sent again or the exchange ends.
LEMMA RetryInv ==
    ASSUME DhcpInv, Retry, ex.phase \in {"offer?", "ack?"},
           UNCHANGED <<now, ip, xid, srv, until>>,
           replies' = replies \/ (replies # <<>> /\ replies' = Tail(replies))
    PROVE  DhcpInv'
  <1> DEFINE Exchanges == [phase : {"idle", "discover", "offer?", "request", "ack?"},
                           trig : {"none", "boot", "auto", "manual"}, try : Nat, offer : Given]
             back == IF ex.phase = "offer?" THEN "discover" ELSE "request"
  <1>1. ASSUME ex' = NoExchange
        PROVE  ex' \in Exchanges /\ ex'.phase = "idle"
    BY <1>1 DEF NoExchange, Given
  <1>2. ASSUME ex' = [ex EXCEPT !.phase = back, !.try = @ + 1]
        PROVE  ex' \in Exchanges /\ ex'.phase = back /\ ex'.offer = ex.offer
    <2>0. ex \in Exchanges
      BY DEF DhcpInv, DhcpTypeOK
    <2>1. back \in {"discover", "request"}
      OBVIOUS
    <2> HIDE DEF back
    <2>2. PICK n \in Nat : n = ex.try + 1
      BY <2>0
    <2>3. ex' = [ex EXCEPT !.phase = back, !.try = n]
      BY <1>2, <2>2
    <2>4. ex' \in Exchanges /\ ex'.phase = back /\ ex'.offer = ex.offer
      BY <2>0, <2>1, <2>3, Zenon
    <2> QED
      BY <2>4 DEF back
  <1>3. /\ ex' \in Exchanges
        /\ \/ ex.phase = "offer?" /\ ex'.phase = "discover"
           \/ ex.phase = "ack?" /\ ex'.phase = "request" /\ ex'.offer = ex.offer
           \/ ex'.phase = "idle"
    BY <1>1, <1>2 DEF Retry, Fail
  <1>4. Honoured \subseteq Honoured'
    BY <1>3, SMTT(60) DEF DhcpInv, DhcpTypeOK, Honoured, DhcpReply
  <1>5. replies' \in Seq(Honoured')
    BY <1>4, StillHonoured DEF DhcpInv
  <1> QED
    BY <1>3, <1>5 DEF DhcpInv, DhcpTypeOK, AddressIsGranted

LEMMA AwaitInv == ASSUME DhcpInv, Await PROVE DhcpInv'
  <1> DEFINE msg == Head(replies)
  <1>1. msg \in Honoured /\ replies # <<>> /\ replies' = Tail(replies)
    BY DEF DhcpInv, Await
  <1>2. now' = now /\ xid' = xid /\ srv' = srv /\ ex.phase \in {"offer?", "ack?"}
    BY DEF Await
  <1> HIDE DEF msg
  <1>3. CASE UNCHANGED <<ex, ip, until>>
    <2>1. Honoured' = Honoured
      BY <1>2, <1>3 DEF Honoured
    <2>2. replies' \in Seq(Honoured')
      BY <1>1, <2>1, StillHonoured DEF DhcpInv
    <2> QED
      BY <1>2, <1>3, <2>2 DEF DhcpInv, DhcpTypeOK, AddressIsGranted
  <1>4. CASE /\ Ours(msg) /\ ex.phase = "offer?" /\ msg.type = "OFFER"
             /\ ex' = [ex EXCEPT !.phase = "request", !.try = 1, !.offer = msg.addr]
             /\ UNCHANGED <<ip, until>>
    <2>1. ex' \in [phase : {"idle", "discover", "offer?", "request", "ack?"},
                   trig : {"none", "boot", "auto", "manual"}, try : Nat, offer : Given]
      BY <1>1, <1>4, Zenon DEF DhcpInv, DhcpTypeOK, Honoured, DhcpReply
    <2>2. ex'.phase = "request" /\ ex'.offer = msg.addr
      BY <1>4 DEF DhcpInv, DhcpTypeOK
    <2>3. Honoured \subseteq Honoured'
      BY <1>2, <2>2 DEF Honoured
    <2>4. replies' \in Seq(Honoured')
      BY <1>1, <2>3, StillHonoured DEF DhcpInv
    <2>5. now < srv.until => msg.addr = srv.addr
      BY <1>1, <1>4 DEF Honoured, Ours
    <2> QED
      BY <1>2, <1>4, <2>1, <2>2, <2>4, <2>5 DEF DhcpInv, DhcpTypeOK, AddressIsGranted
  <1>5. CASE /\ msg.type = "ACK" /\ ip' = msg.addr /\ until' = msg.until /\ ex' = NoExchange
    <2>1. ex' \in [phase : {"idle", "discover", "offer?", "request", "ack?"},
                   trig : {"none", "boot", "auto", "manual"}, try : Nat, offer : Given]
          /\ ex'.phase = "idle"
      BY <1>5 DEF NoExchange, Given
    <2>2. Honoured \subseteq Honoured'
      BY <1>2, <2>1 DEF Honoured
    <2>3. replies' \in Seq(Honoured')
      BY <1>1, <2>2, StillHonoured DEF DhcpInv
    <2>4. msg.until \in Nat /\ (now < msg.until => srv.addr = msg.addr /\ srv.until >= msg.until)
      BY <1>1, <1>5 DEF Honoured, DhcpReply
    <2> QED
      BY <1>2, <1>5, <2>1, <2>3, <2>4 DEF DhcpInv, DhcpTypeOK, AddressIsGranted
  <1>6. CASE Retry /\ UNCHANGED <<ip, until>>
    BY <1>1, <1>2, <1>6, RetryInv
  <1> QED
    BY <1>3, <1>4, <1>5, <1>6 DEF Await, msg

\* A reply leaves unread, or a second copy of one joins the rest.
LEMMA DropInv == ASSUME DhcpInv, Drop \/ Duplicate PROVE DhcpInv'
  <1>1. UNCHANGED <<now, ip, ex, xid, srv, until>>
    BY DEF Drop, Duplicate
  <1>2. Honoured' = Honoured
    BY <1>1 DEF Honoured
  <1>3. replies # <<>> /\ Head(replies) \in Honoured
    BY DEF DhcpInv, Drop, Duplicate
  <1>4. replies' \in Seq(Honoured')
    BY <1>2, <1>3, StillHonoured DEF DhcpInv, Drop, Duplicate
  <1> QED
    BY <1>1, <1>4 DEF DhcpInv, DhcpTypeOK, AddressIsGranted

\* While the lease the stack adopted runs, the server has that address bound
\* to this client for at least as long: loss, delay and repetition of replies
\* never make dhcp.go adopt an address it was not given.
THEOREM LeaseIsGranted == DhcpSpec => []AddressIsGranted
<1> USE LeaseTimeAssumption
<1>1. DhcpInit => DhcpInv
  BY DhcpInitInv
<1>2. DhcpInv /\ [DhcpNext]_dhcpVars => DhcpInv'
  <2> SUFFICES ASSUME DhcpInv, [DhcpNext]_dhcpVars PROVE DhcpInv'
    OBVIOUS
  <2>1. CASE TimeOut
    BY <2>1, RetryInv DEF TimeOut
  <2>2. CASE UNCHANGED dhcpVars
    <3>1. Honoured' = Honoured
      BY <2>2 DEF dhcpVars, Honoured
    <3> QED
      BY <2>2, <3>1, SMTT(60) DEF dhcpVars, DhcpInv, DhcpTypeOK, AddressIsGranted
  <2> QED
    BY <2>1, <2>2, TickInv, ExchangeInv, SendDiscoverInv, SendRequestInv, AwaitInv, DropInv
       DEF DhcpNext
<1>3. DhcpInv => AddressIsGranted
  BY DEF DhcpInv
<1> QED
  BY <1>1, <1>2, <1>3, PTL DEF DhcpSpec

=============================================================================
