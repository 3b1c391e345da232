---------------------------- MODULE KernelProofs ----------------------------
(***************************************************************************)
(* Ports and sessions of the kernel.  The port ring keeps its count and is *)
(* a mailbox, for every ring size, every set of senders and every          *)
(* interleaving of sends, receives and kills (PortRing).  A killed session *)
(* leaves neither messages nor handles behind, for every number of session *)
(* slots, ports, handles and ring slots (Kernel).                          *)
(***************************************************************************)
EXTENDS Kernel, PortRing, FiniteSetTheorems, Sequences, TLAPS

LEMMA SameSeq ==
    ASSUME NEW S, NEW s \in Seq(S), NEW t \in Seq(S),
           Len(s) = Len(t), \A i \in 1 .. Len(s) : s[i] = t[i]
    PROVE  s = t
  OBVIOUS

-----------------------------------------------------------------------------
(* The port ring: PortRing *)

\* The inductive invariant.  RingTypeOK alone is not inductive: that the count
\* stays non-negative when ports_drain_session subtracts needs
\* CountCoversRing.
RingInv == RingTypeOK /\ CountCoversRing

LEMMA SlotFacts ==
    /\ 0 \in Slot
    /\ IsFiniteSet(Slot)
    /\ \A q \in Slot : NextSlot(q) \in Slot
<1>1. 0 \in Slot /\ \A q \in Slot : NextSlot(q) \in Slot
  BY MaxQAssumption DEF Slot, NextSlot
<1>2. IsFiniteSet(Slot)
  BY FS_Interval, MaxQAssumption DEF Slot
<1> QED
  BY <1>1, <1>2

\* The occupied slots of a ring, and those of one sender, are finite sets.
LEMMA OccupiedFinite ==
    ASSUME NEW r, NEW s
    PROVE  /\ IsFiniteSet(Occupied(r))
           /\ Cardinality(Occupied(r)) \in Nat
           /\ IsFiniteSet(SlotsOf(r, s))
           /\ Cardinality(SlotsOf(r, s)) \in Nat
           /\ SlotsOf(r, s) \subseteq Occupied(r)
           /\ Cardinality(SlotsOf(r, s)) <= Cardinality(Occupied(r))
<1>1. Occupied(r) \subseteq Slot /\ SlotsOf(r, s) \subseteq Occupied(r)
  BY DEF Occupied, SlotsOf
<1>2. IsFiniteSet(Occupied(r))
  BY <1>1, SlotFacts, FS_Subset
<1>3. /\ IsFiniteSet(SlotsOf(r, s))
      /\ Cardinality(SlotsOf(r, s)) <= Cardinality(Occupied(r))
  BY <1>1, <1>2, FS_Subset
<1> QED
  BY <1>1, <1>2, <1>3, FS_CardinalityType

\* An enqueue occupies at most one more slot.
LEMMA EnqueueOccupies ==
    ASSUME NEW r \in RingType, NEW m \in Msg, ~Full(r)
    PROVE  /\ Enqueue(r, m) \in RingType
           /\ Cardinality(Occupied(Enqueue(r, m))) <= Cardinality(Occupied(r)) + 1
<1>1. Enqueue(r, m) \in RingType
  <2>1. r.qn + 1 \in 0 .. MaxQ
    BY MaxQAssumption DEF RingType, Full
  <2>2. [r.slot EXCEPT ![r.qt] = m] \in [Slot -> Msg \cup {Null}]
    BY DEF RingType
  <2> QED
    BY <2>1, <2>2, SlotFacts DEF RingType, Enqueue
<1>2. Occupied(Enqueue(r, m)) \subseteq Occupied(r) \cup {r.qt}
  BY DEF Occupied, Enqueue, RingType
<1>3. /\ IsFiniteSet(Occupied(r) \cup {r.qt})
      /\ Cardinality(Occupied(r) \cup {r.qt}) <= Cardinality(Occupied(r)) + 1
      /\ Cardinality(Occupied(r) \cup {r.qt}) \in Nat
  <2>1. IsFiniteSet(Occupied(r)) /\ Cardinality(Occupied(r)) \in Nat
    BY OccupiedFinite, SMTT(60)
  <2>2. /\ IsFiniteSet(Occupied(r) \cup {r.qt})
        /\ Cardinality(Occupied(r) \cup {r.qt}) =
              IF r.qt \in Occupied(r) THEN Cardinality(Occupied(r))
                                      ELSE Cardinality(Occupied(r)) + 1
    BY <2>1, FS_AddElement
  <2> QED
    BY <2>1, <2>2
<1>4. /\ Cardinality(Occupied(Enqueue(r, m)))
            <= Cardinality(Occupied(r) \cup {r.qt})
      /\ Cardinality(Occupied(Enqueue(r, m))) \in Nat
  BY <1>2, <1>3, FS_Subset, OccupiedFinite, Zenon
<1> QED
  BY <1>1, <1>3, <1>4, OccupiedFinite

\* A successful receive frees exactly the head slot.
LEMMA DequeueFrees ==
    ASSUME NEW r \in RingType, ~NothingToRecv(r)
    PROVE  /\ Dequeue(r) \in RingType
           /\ Cardinality(Occupied(Dequeue(r))) = Cardinality(Occupied(r)) - 1
<1>1. Dequeue(r) \in RingType
  <2>1. r.qn - 1 \in 0 .. MaxQ
    BY MaxQAssumption DEF RingType, NothingToRecv
  <2>2. [r.slot EXCEPT ![r.qh] = Null] \in [Slot -> Msg \cup {Null}]
    BY DEF RingType
  <2> QED
    BY <2>1, <2>2, SlotFacts DEF RingType, Dequeue
<1>2. Occupied(Dequeue(r)) = Occupied(r) \ {r.qh} /\ r.qh \in Occupied(r)
  BY DEF Occupied, Dequeue, RingType, NothingToRecv
<1> QED
  BY <1>1, <1>2, OccupiedFinite, FS_RemoveElement, ZenonT(60)

\* A drain frees exactly the slots it counts.
LEMMA DrainFrees ==
    ASSUME NEW r \in RingType, NEW s,
           Cardinality(Occupied(r)) <= r.qn
    PROVE  /\ Drain(r, s) \in RingType
           /\ Cardinality(Occupied(Drain(r, s))) <= Drain(r, s).qn
<1>1. Drain(r, s).qn = r.qn - Cardinality(SlotsOf(r, s))
  BY DEF Drain
<1>2. r.qn - Cardinality(SlotsOf(r, s)) \in 0 .. MaxQ
  BY OccupiedFinite, MaxQAssumption DEF RingType
<1>3. [i \in Slot |-> IF i \in SlotsOf(r, s) THEN Null ELSE r.slot[i]]
          \in [Slot -> Msg \cup {Null}]
  BY DEF RingType
<1>4. Drain(r, s) \in RingType
  BY <1>2, <1>3 DEF RingType, Drain
<1>5. Occupied(Drain(r, s)) = Occupied(r) \ SlotsOf(r, s)
  BY DEF Occupied, Drain, SlotsOf
<1>6. Cardinality(Occupied(r) \ SlotsOf(r, s))
          = Cardinality(Occupied(r)) - Cardinality(SlotsOf(r, s))
  <2>1. Occupied(r) \cap SlotsOf(r, s) = SlotsOf(r, s)
    BY OccupiedFinite
  <2> QED
    BY <2>1, OccupiedFinite, FS_Difference, ZenonT(60)
<1> QED
  BY <1>1, <1>4, <1>5, <1>6, OccupiedFinite DEF RingType

LEMMA RingInitInv == RingInit => RingInv
<1> SUFFICES ASSUME RingInit PROVE RingInv
  OBVIOUS
<1>1. EmptyRing \in RingType
  BY SlotFacts, MaxQAssumption DEF EmptyRing, RingType
<1>2. Occupied(EmptyRing) = {}
  BY DEF Occupied, EmptyRing
<1>3. EmptyRing.qn = 0
  BY DEF EmptyRing
<1> QED
  BY <1>1, <1>2, <1>3, FS_EmptySet DEF RingInit, RingInv, RingTypeOK, CountCoversRing

\* Every step preserves the inductive invariant.
LEMMA RingStep == RingInv /\ [RingNext]_ringVars => RingInv'
<1> SUFFICES ASSUME RingInv, [RingNext]_ringVars PROVE RingInv'
  OBVIOUS
<1> USE DEF RingInv, RingTypeOK, CountCoversRing
<1>1. ASSUME NEW s \in Senders, Send(s) PROVE RingInv'
  <2>1. [from |-> s, n |-> sent[s] + 1] \in Msg
    BY DEF Msg
  <2>2. Enqueue(port, [from |-> s, n |-> sent[s] + 1]).qn = port.qn + 1
    BY DEF Enqueue
  <2>3. /\ port' \in RingType
        /\ Cardinality(Occupied(port)') <= Cardinality(Occupied(port)) + 1
        /\ port'.qn = port.qn + 1
    BY <1>1, <2>1, <2>2, EnqueueOccupies, Zenon DEF Send, Occupied
  <2>4. Cardinality(Occupied(port)') \in Nat /\ Cardinality(Occupied(port)) \in Nat
    BY OccupiedFinite
  <2>5. sent' \in [Senders -> Nat] /\ got' = got /\ calm' = calm
    BY <1>1 DEF Send
  <2> QED
    BY <2>3, <2>4, <2>5 DEF RingType
<1>2. CASE Recv
  <2>1. Dequeue(port).qn = port.qn - 1
    BY DEF Dequeue
  <2>2. port.slot[port.qh] \in Msg
    BY <1>2 DEF Recv, NothingToRecv, RingType
  <2>3. got' \in [Senders -> Nat]
    BY <1>2, <2>2 DEF Recv, Msg
  <2>4. /\ port' \in RingType
        /\ Cardinality(Occupied(port)') = Cardinality(Occupied(port)) - 1
        /\ port'.qn = port.qn - 1
    BY <1>2, <2>1, DequeueFrees, Zenon DEF Recv, Occupied
  <2>5. Cardinality(Occupied(port)) \in Nat
    BY OccupiedFinite
  <2> QED
    BY <1>2, <2>3, <2>4, <2>5 DEF Recv, RingType
<1>3. ASSUME NEW s \in Killable, KillSender(s) PROVE RingInv'
  BY <1>3, DrainFrees, Zenon DEF KillSender
<1>4. CASE UNCHANGED ringVars
  BY <1>4 DEF ringVars, Occupied
<1> QED
  BY <1>1, <1>2, <1>3, <1>4 DEF RingNext

\* core/ports.cc: the ring count is never negative, never exceeds MAX_Q and
\* never undercounts the queued messages, whatever kills, sends and receives
\* do to the ring.
THEOREM RingSafe == RingSpec => [](RingTypeOK /\ CountCoversRing)
<1>1. RingInv => RingTypeOK /\ CountCoversRing
  BY DEF RingInv
<1> QED
  BY <1>1, RingInitInv, RingStep, PTL DEF RingSpec

-----------------------------------------------------------------------------
(* The ring implements the mailbox *)

\* The slot of the i-th queued datagram, and the queue a ring stands for.
Place(r, i) ==
    LET j == r.qh + i - 1 IN IF j < MaxQ THEN j ELSE j - MaxQ

QueueOf(r) == [i \in 1 .. r.qn |-> r.slot[Place(r, i)]]

\* A ring no drain has punched holes into: the tail is where the datagram
\* after the last one goes, and no queued place is empty.
Gapless(r) ==
    /\ r.qt = Place(r, r.qn + 1)
    /\ \A i \in 1 .. r.qn : r.slot[Place(r, i)] # Null

\* Places are slots, and two of at most MaxQ consecutive ones differ.
LEMMA PlaceFacts ==
    ASSUME NEW r \in RingType
    PROVE  /\ \A i \in 1 .. MaxQ : Place(r, i) \in Slot
           /\ \A i, j \in 1 .. MaxQ : Place(r, i) = Place(r, j) => i = j
           /\ Place(r, 1) = r.qh
           /\ \A i \in 1 .. MaxQ : NextSlot(Place(r, i)) = Place(r, i + 1)
<1>1. r.qh \in 0 .. MaxQ - 1 /\ MaxQ \in Nat /\ MaxQ >= 1
  BY MaxQAssumption DEF RingType, Slot
<1> QED
  BY <1>1 DEF Place, Slot, NextSlot

\* A queue is a sequence of datagrams as long as the count says.
LEMMA QueueIsSeq ==
    ASSUME NEW r \in RingType, Gapless(r)
    PROVE  /\ QueueOf(r) \in Seq(Msg)
           /\ Len(QueueOf(r)) = r.qn
           /\ \A i \in 1 .. r.qn : QueueOf(r)[i] = r.slot[Place(r, i)]
<1>1. r.qn \in Nat /\ r.qn <= MaxQ /\ MaxQ \in Nat
  BY MaxQAssumption DEF RingType
<1>2. \A i \in 1 .. r.qn : r.slot[Place(r, i)] \in Msg
  <2> SUFFICES ASSUME NEW i \in 1 .. r.qn PROVE r.slot[Place(r, i)] \in Msg
    OBVIOUS
  <2>1. Place(r, i) \in Slot
    BY <1>1, PlaceFacts
  <2> QED
    BY <2>1 DEF RingType, Gapless
<1>3. QueueOf(r) \in [1 .. r.qn -> Msg]
  BY <1>2 DEF QueueOf
<1> QED
  BY <1>1, <1>3 DEF QueueOf

\* port_send: an enqueue appends to the queue and overwrites no queued slot.
LEMMA EnqueueAppends ==
    ASSUME NEW r \in RingType, NEW m \in Msg, Gapless(r), ~Full(r)
    PROVE  /\ Gapless(Enqueue(r, m))
           /\ QueueOf(Enqueue(r, m)) = Append(QueueOf(r), m)
<1> DEFINE e == Enqueue(r, m)
<1>1. r.qn \in Nat /\ r.qn + 1 <= MaxQ /\ MaxQ \in Nat
  BY MaxQAssumption DEF RingType, Full
<1>2. /\ e \in RingType
      /\ e.qn = r.qn + 1
      /\ e.qt = NextSlot(r.qt)
      /\ e.slot = [r.slot EXCEPT ![r.qt] = m]
      /\ \A i : Place(e, i) = Place(r, i)
  BY EnqueueOccupies DEF Enqueue, Place
<1>3. e.qt = Place(e, e.qn + 1)
  BY <1>1, <1>2, PlaceFacts DEF Gapless
<1>4. e.slot[Place(e, e.qn)] = m
  <2>1. Place(r, r.qn + 1) = r.qt /\ r.qt \in Slot /\ r.slot \in [Slot -> Msg \cup {Null}]
    BY DEF Gapless, RingType
  <2> QED
    BY <1>2, <2>1
<1>5. \A i \in 1 .. r.qn : e.slot[Place(e, i)] = r.slot[Place(r, i)]
  <2> SUFFICES ASSUME NEW i \in 1 .. r.qn
               PROVE  e.slot[Place(r, i)] = r.slot[Place(r, i)]
    BY <1>2
  <2>1. Place(r, i) # r.qt /\ Place(r, i) \in Slot
    BY <1>1, PlaceFacts DEF Gapless
  <2> QED
    BY <1>2, <2>1 DEF RingType
<1>6. Gapless(e)
  <2>1. \A i \in 1 .. e.qn : e.slot[Place(e, i)] # Null
    <3> SUFFICES ASSUME NEW i \in 1 .. e.qn PROVE e.slot[Place(e, i)] # Null
      OBVIOUS
    <3>1. i = e.qn \/ i \in 1 .. r.qn
      BY <1>1, <1>2, SMTT(60)
    <3> QED
      BY <1>4, <1>5, <3>1, NullAssumption, SMTT(60) DEF Gapless
  <2> QED
    BY <1>3, <2>1 DEF Gapless
<1>7. /\ QueueOf(e) \in Seq(Msg) /\ Len(QueueOf(e)) = r.qn + 1
      /\ \A i \in 1 .. e.qn : QueueOf(e)[i] = e.slot[Place(e, i)]
  BY <1>2, <1>6, QueueIsSeq, Zenon
<1>8. /\ QueueOf(r) \in Seq(Msg) /\ Len(QueueOf(r)) = r.qn
      /\ \A i \in 1 .. r.qn : QueueOf(r)[i] = r.slot[Place(r, i)]
  BY QueueIsSeq
<1>9. QueueOf(e) = Append(QueueOf(r), m)
  <2>1. \A i \in 1 .. r.qn + 1 : QueueOf(e)[i] = Append(QueueOf(r), m)[i]
    <3> SUFFICES ASSUME NEW i \in 1 .. r.qn + 1
                 PROVE  QueueOf(e)[i] = Append(QueueOf(r), m)[i]
      BY ZenonT(60)
    <3>0. i = r.qn + 1 \/ i \in 1 .. r.qn
      BY <1>1
    <3>1. CASE i = r.qn + 1
      BY <1>1, <1>2, <1>4, <1>7, <1>8, <3>1
    <3>2. CASE i \in 1 .. r.qn
      BY <1>1, <1>2, <1>5, <1>7, <1>8, <3>2, SMTT(60)
    <3> QED
      BY <3>0, <3>1, <3>2, Zenon
  <2>2. Append(QueueOf(r), m) \in Seq(Msg) /\ Len(Append(QueueOf(r), m)) = r.qn + 1
    BY <1>8
  <2> QED
    BY <1>7, <2>1, <2>2, SameSeq
<1> QED
  BY <1>6, <1>9

\* port_recv: a dequeue hands out the oldest datagram and leaves the rest.
LEMMA DequeueTakesHead ==
    ASSUME NEW r \in RingType, Gapless(r), ~NothingToRecv(r)
    PROVE  /\ Gapless(Dequeue(r))
           /\ QueueOf(r) # <<>>
           /\ Head(QueueOf(r)) = r.slot[r.qh]
           /\ QueueOf(Dequeue(r)) = Tail(QueueOf(r))
<1> DEFINE d == Dequeue(r)
<1>1. r.qn \in Nat /\ r.qn >= 1 /\ r.qn <= MaxQ /\ MaxQ \in Nat
  BY MaxQAssumption DEF RingType, NothingToRecv
<1>2. /\ d \in RingType
      /\ d.qn = r.qn - 1
      /\ d.qh = NextSlot(r.qh)
      /\ d.qt = r.qt
      /\ d.slot = [r.slot EXCEPT ![r.qh] = Null]
  BY DequeueFrees DEF Dequeue
<1>3. \A i \in 1 .. r.qn : Place(d, i) = Place(r, i + 1)
  <2>1. r.qh \in 0 .. MaxQ - 1
    BY DEF RingType, Slot
  <2> QED
    BY <1>1, <1>2, <2>1 DEF Place, NextSlot
<1>4. \A i \in 1 .. d.qn : d.slot[Place(d, i)] = r.slot[Place(r, i + 1)]
  <2> SUFFICES ASSUME NEW i \in 1 .. d.qn
               PROVE  d.slot[Place(d, i)] = r.slot[Place(r, i + 1)]
    OBVIOUS
  <2>1. Place(d, i) = Place(r, i + 1) /\ i + 1 \in 1 .. MaxQ /\ i + 1 # 1
    BY <1>1, <1>2, <1>3, SMTT(60)
  <2>2. Place(r, i + 1) # r.qh /\ Place(r, i + 1) \in Slot
    BY <1>1, <2>1, PlaceFacts
  <2> QED
    BY <1>2, <2>1, <2>2 DEF RingType
<1>5. Gapless(d)
  <2>1. d.qt = Place(d, d.qn + 1)
    BY <1>1, <1>2, <1>3, SMTT(60) DEF Gapless
  <2>2. \A i \in 1 .. d.qn : d.slot[Place(d, i)] # Null
    BY <1>1, <1>2, <1>4, SMTT(60) DEF Gapless
  <2> QED
    BY <2>1, <2>2 DEF Gapless
<1>6. /\ QueueOf(d) \in Seq(Msg) /\ Len(QueueOf(d)) = r.qn - 1
      /\ \A i \in 1 .. d.qn : QueueOf(d)[i] = d.slot[Place(d, i)]
  BY <1>2, <1>5, QueueIsSeq, ZenonT(60)
<1>7. /\ QueueOf(r) \in Seq(Msg) /\ Len(QueueOf(r)) = r.qn
      /\ \A i \in 1 .. r.qn : QueueOf(r)[i] = r.slot[Place(r, i)]
  BY QueueIsSeq
<1>8. QueueOf(r) # <<>> /\ Head(QueueOf(r)) = r.slot[r.qh]
  BY <1>1, <1>7, PlaceFacts
<1>9. QueueOf(d) = Tail(QueueOf(r))
  <2>1. /\ Tail(QueueOf(r)) \in Seq(Msg) /\ Len(Tail(QueueOf(r))) = r.qn - 1
        /\ \A i \in 1 .. r.qn - 1 : Tail(QueueOf(r))[i] = QueueOf(r)[i + 1]
    BY <1>1, <1>7, <1>8
  <2>2. \A i \in 1 .. r.qn - 1 : QueueOf(d)[i] = Tail(QueueOf(r))[i]
    BY <1>1, <1>2, <1>4, <1>6, <1>7, <2>1, SMTT(60)
  <2> QED
    BY <1>6, <2>1, <2>2, SameSeq
<1> QED
  BY <1>5, <1>8, <1>9

\* The invariant the refinement needs on top of RingInv: until the first kill
\* the ring has no gaps.
CalmInv == RingInv /\ (calm => Gapless(port))

LEMMA QueueIsQueueOf == Queue = QueueOf(port) /\ Queue' = QueueOf(port')
  BY DEF Queue, QueueOf, Place

\* core/ports.cc implements the bounded mailbox of abi/ABI.md until a kill
\* drains the ring: every send appends one datagram, every receive takes the
\* oldest one, for every ring size and wherever qh and qt wrap.
THEOREM RingIsMailbox == RingSpec => ImplementsMailbox
<1>1. RingInit => CalmInv /\ Mailbox!Init
  <2> SUFFICES ASSUME RingInit PROVE CalmInv /\ Mailbox!Init
    OBVIOUS
  <2>1. RingInv
    BY RingInitInv
  <2>2. port.qn = 0 /\ port.qh = 0 /\ port.qt = 0
    BY DEF RingInit, EmptyRing
  <2>3. Gapless(port) /\ QueueOf(port) = <<>>
    BY <2>2, MaxQAssumption DEF Gapless, Place, QueueOf
  <2> QED
    BY <2>1, <2>3, QueueIsQueueOf DEF CalmInv, RingInit, Mailbox!Init
<1>2. CalmInv /\ [RingNext]_ringVars
          => CalmInv' /\ [calm' => Mailbox!Next]_<<Queue, sent, got>>
  <2> SUFFICES ASSUME CalmInv, [RingNext]_ringVars
               PROVE  CalmInv' /\ [calm' => Mailbox!Next]_<<Queue, sent, got>>
    OBVIOUS
  <2>0. RingInv' /\ port \in RingType
    BY RingStep DEF CalmInv, RingInv, RingTypeOK
  <2>1. ASSUME NEW s \in Senders, Send(s)
        PROVE  (calm' => Gapless(port')) /\ (calm' => Mailbox!Next)
    <3> SUFFICES ASSUME calm' PROVE Gapless(port') /\ Mailbox!Send(s)
      BY DEF Mailbox!Next
    <3> DEFINE m == [from |-> s, n |-> sent[s] + 1]
    <3>1. m \in Msg /\ Gapless(port) /\ ~Full(port) /\ port' = Enqueue(port, m)
      BY <2>1 DEF Msg, Send, CalmInv, RingInv, RingTypeOK
    <3>2. Gapless(port') /\ Queue' = Append(Queue, m)
      BY <2>0, <3>1, EnqueueAppends, QueueIsQueueOf, SMTT(60)
    <3>3. Len(Queue) < MaxQ
      BY <2>0, <3>1, QueueIsSeq, QueueIsQueueOf, MaxQAssumption, SMTT(60) DEF Full, RingType
    <3> QED
      BY <2>1, <3>2, <3>3, SMTT(60) DEF Send, Mailbox!Send
  <2>2. CASE Recv
    <3> SUFFICES ASSUME calm' PROVE Gapless(port') /\ Mailbox!Recv
      BY <2>0, <2>2 DEF Mailbox!Next, CalmInv
    <3>1. Gapless(port) /\ ~NothingToRecv(port) /\ port' = Dequeue(port)
      BY <2>2 DEF Recv, CalmInv
    <3>2. /\ Gapless(port')
          /\ Queue # <<>> /\ Head(Queue) = port.slot[port.qh]
          /\ Queue' = Tail(Queue)
      BY <2>0, <3>1, DequeueTakesHead, QueueIsQueueOf
    <3> QED
      BY <2>2, <3>2, Zenon DEF Recv, Mailbox!Recv
  <2>3. ASSUME NEW s \in Killable, KillSender(s) PROVE ~calm'
    BY <2>3 DEF KillSender
  <2>4. CASE UNCHANGED ringVars
    BY <2>0, <2>4 DEF ringVars, CalmInv, Queue
  <2> QED
    BY <2>0, <2>1, <2>2, <2>3, <2>4, SMTT(60) DEF RingNext, CalmInv
<1> QED
  BY <1>1, <1>2, PTL DEF RingSpec, ImplementsMailbox

-----------------------------------------------------------------------------
(* Sessions and the port table: Kernel *)

\* Rings, and ports, whose queued messages are in M.
RingOver(M) == [qn : Int, qh : Int, qt : Int, slot : [Slot -> M \cup {Null}]]

PortOver(M) ==
    [used : BOOLEAN, kernel : BOOLEAN, creator : 0 .. MaxSessions - 1,
     name : PortNames \cup {""}, by : Nat, ring : RingOver(M)]

LEMMA RingGrows ==
    ASSUME NEW M, NEW N, M \subseteq N, NEW r \in RingOver(M)
    PROVE  r \in RingOver(N)
  BY DEF RingOver

LEMMA EnqueueOver ==
    ASSUME NEW M, NEW m \in M, NEW r \in RingOver(M)
    PROVE  Enqueue(r, m) \in RingOver(M)
  <1>1. [r.slot EXCEPT ![r.qt] = m] \in [Slot -> M \cup {Null}]
    BY Zenon DEF RingOver
  <1>2. NextSlot(r.qt) \in Int
    BY MaxQAssumption DEF RingOver, NextSlot
  <1> QED
    BY <1>1, <1>2 DEF RingOver, Enqueue

LEMMA DequeueOver ==
    ASSUME NEW M, NEW r \in RingOver(M)
    PROVE  Dequeue(r) \in RingOver(M)
  <1>1. [r.slot EXCEPT ![r.qh] = Null] \in [Slot -> M \cup {Null}]
    BY Zenon DEF RingOver
  <1>2. NextSlot(r.qh) \in Int
    BY MaxQAssumption DEF RingOver, NextSlot
  <1> QED
    BY <1>1, <1>2 DEF RingOver, Dequeue

\* ports_drain_session removes every message of the session.
LEMMA DrainOver ==
    ASSUME NEW M, NEW v, NEW r \in RingOver(M)
    PROVE  Drain(r, v) \in RingOver({m \in M : m.from # v})
  <1> DEFINE sl == [i \in Slot |-> IF i \in SlotsOf(r, v) THEN Null ELSE r.slot[i]]
             N == {m \in M : m.from # v}
  <1>1. Cardinality(SlotsOf(r, v)) \in Nat
    <2>1. IsFiniteSet(Slot)
      BY FS_Interval, MaxQAssumption DEF Slot
    <2>2. SlotsOf(r, v) \subseteq Slot
      BY DEF SlotsOf, Occupied
    <2> QED
      BY <2>1, <2>2, FS_Subset, FS_CardinalityType
  <1>2. sl \in [Slot -> N \cup {Null}]
    <2> SUFFICES ASSUME NEW i \in Slot PROVE sl[i] \in N \cup {Null}
      OBVIOUS
    <2> QED
      BY DEF RingOver, SlotsOf, Occupied
  <1> HIDE DEF sl, N
  <1>3. PICK k \in Int : k = r.qn - Cardinality(SlotsOf(r, v))
    BY <1>1 DEF RingOver
  <1>4. Drain(r, v) = [qn |-> k, qh |-> r.qh, qt |-> r.qt, slot |-> sl]
    BY <1>3 DEF Drain, sl
  <1>5. Drain(r, v) \in RingOver(N)
    BY <1>2, <1>4 DEF RingOver
  <1> QED
    BY <1>5 DEF N

LEMMA EmptyOver == ASSUME NEW M PROVE FreePort \in PortOver(M)
  <1>1. EmptyRing \in RingOver(M)
    BY DEF EmptyRing, RingOver
  <1> QED
    BY <1>1, MaxSessionsAssumption DEF FreePort, PortOver

\* A port, and a table, where a ring is replaced.
WithRing(po, rg) == [po EXCEPT !.ring = rg]
WithRingAt(pt, p, rg) == [pt EXCEPT ![p].ring = rg]

LEMMA PortWith ==
    ASSUME NEW L, NEW M, NEW po \in PortOver(L), NEW rg \in RingOver(M)
    PROVE  /\ WithRing(po, rg) \in PortOver(M)
           /\ WithRing(po, rg).used = po.used
           /\ WithRing(po, rg).ring = rg
  BY DEF PortOver, WithRing

\* Ports as ports_init and port_create fill them in.
LEMMA PortFields ==
    ASSUME NEW M, NEW n \in PortNames, NEW s \in 0 .. MaxSessions - 1, NEW b \in Nat
    PROVE  /\ [FreePort EXCEPT !.used = TRUE, !.kernel = TRUE, !.name = n] \in PortOver(M)
           /\ [FreePort EXCEPT !.used = TRUE, !.kernel = TRUE, !.name = n].used
           /\ [FreePort EXCEPT !.used = TRUE, !.creator = s, !.by = b, !.name = n] \in PortOver(M)
           /\ [FreePort EXCEPT !.used = TRUE, !.creator = s, !.by = b, !.name = n].used
  <1> DEFINE u == [FreePort EXCEPT !.used = TRUE]
             k == [u EXCEPT !.kernel = TRUE]
             c == [u EXCEPT !.creator = s]
             d == [c EXCEPT !.by = b]
  <1>0. FreePort \in PortOver(M)
    BY EmptyOver
  <1>1. u \in PortOver(M) /\ u.used
    BY <1>0 DEF PortOver
  <1> HIDE DEF u
  <1>2. k \in PortOver(M) /\ k.used
    BY <1>1 DEF PortOver
  <1>3. c \in PortOver(M) /\ c.used
    BY <1>1 DEF PortOver
  <1> HIDE DEF k, c
  <1>4. d \in PortOver(M) /\ d.used
    BY <1>3 DEF PortOver
  <1> HIDE DEF d
  <1>5. [k EXCEPT !.name = n] \in PortOver(M) /\ [k EXCEPT !.name = n].used
    BY <1>2 DEF PortOver
  <1>6. [d EXCEPT !.name = n] \in PortOver(M) /\ [d EXCEPT !.name = n].used
    BY <1>4 DEF PortOver
  <1> QED
    BY <1>5, <1>6 DEF u, k, c, d

-----------------------------------------------------------------------------
(* The port table *)

\* Port tables with messages in M, and none in a port that is not in use.
Table(M) ==
    {pt \in [Port -> PortOver(M)] : \A p \in Port : ~pt[p].used => Occupied(pt[p].ring) = {}}

LEMMA TableGrows ==
    ASSUME NEW M, NEW N, M \subseteq N, NEW pt \in Table(M)
    PROVE  pt \in Table(N)
  BY RingGrows DEF Table, PortOver

\* A port in use gets another ring.
LEMMA TableWith ==
    ASSUME NEW M, NEW pt \in Table(M), NEW p \in Port, pt[p].used, NEW rg \in RingOver(M)
    PROVE  WithRingAt(pt, p, rg) \in Table(M)
  <1>1. pt[p] \in PortOver(M) /\ pt \in [Port -> PortOver(M)]
    BY DEF Table
  <1>2. PICK new \in PortOver(M) : new = WithRing(pt[p], rg) /\ new.used
    BY <1>1, PortWith
  <1>3. WithRingAt(pt, p, rg) = [pt EXCEPT ![p] = new]
    BY <1>2 DEF WithRingAt, WithRing
  <1>4. [pt EXCEPT ![p] = new] \in Table(M)
    BY <1>1, <1>2 DEF Table
  <1> QED
    BY <1>3, <1>4

LEMMA TableRing ==
    ASSUME NEW M, NEW pt \in Table(M), NEW p \in Port
    PROVE  pt[p].ring \in RingOver(M) /\ pt[p].used \in BOOLEAN
  BY DEF Table, PortOver

LEMMA TableDrain ==
    ASSUME NEW M, NEW pt \in Table(M), NEW v
    PROVE  /\ DrainSession(pt, v) \in Table({m \in M : m.from # v})
           /\ \A p \in Port : DrainSession(pt, v)[p].used = pt[p].used
  <1> DEFINE N == {m \in M : m.from # v}
             new == DrainSession(pt, v)
  <1>1. ASSUME NEW p \in Port
        PROVE  /\ new[p] \in PortOver(N) /\ new[p].used = pt[p].used
               /\ ~pt[p].used => new[p] = pt[p]
    <2>0. pt[p] \in PortOver(M) /\ pt[p].ring \in RingOver(M)
      BY DEF Table, PortOver
    <2>1. CASE pt[p].used
      <3>1. Drain(pt[p].ring, v) \in RingOver(N)
        BY <2>0, DrainOver
      <3>2. new[p] = WithRing(pt[p], Drain(pt[p].ring, v))
        BY <2>1 DEF DrainSession, WithRing
      <3> HIDE DEF N, new
      <3>3. /\ WithRing(pt[p], Drain(pt[p].ring, v)) \in PortOver(N)
            /\ WithRing(pt[p], Drain(pt[p].ring, v)).used = pt[p].used
        BY <2>0, <3>1, PortWith
      <3> QED
        BY <2>1, <3>2, <3>3
    <2>2. CASE ~pt[p].used
      <3>1. Occupied(pt[p].ring) = {}
        BY <2>2 DEF Table
      <3>2. pt[p].ring \in RingOver(N)
        BY <2>0, <3>1 DEF RingOver, Occupied
      <3>3. new[p] = pt[p]
        BY <2>2 DEF DrainSession
      <3> QED
        BY <2>0, <3>2, <3>3 DEF PortOver
    <2> QED
      BY <2>1, <2>2
  <1>2. new \in [Port -> PortOver(N)]
    BY <1>1 DEF DrainSession
  <1> HIDE DEF new
  <1>3. \A p \in Port : ~new[p].used => Occupied(new[p].ring) = {}
    BY <1>1, ZenonT(60) DEF Table
  <1> QED
    BY <1>1, <1>2, <1>3, Zenon DEF new, Table

LEMMA TableReply ==
    ASSUME NEW M, NEW pt \in Table(M), NEW ht, NEW s \in Sid, NEW h \in Handle,
           ht[s][h] \in Port \cup {-1},
           ht[s][h] >= 0 => pt[ht[s][h]].used /\ [from |-> s, inc |-> inc[s]] \in M
    PROVE  Reply(pt, ht, s, h) \in Table(M)
  <1>1. CASE ht[s][h] >= 0 /\ ~Full(pt[ht[s][h]].ring)
    <2>1. PICK p \in Port : p = ht[s][h]
      BY <1>1
    <2>2. PICK m \in M : m = [from |-> s, inc |-> inc[s]]
      BY <1>1
    <2>3. Enqueue(pt[p].ring, m) \in RingOver(M)
      BY TableRing, EnqueueOver
    <2>4. Reply(pt, ht, s, h) = WithRingAt(pt, p, Enqueue(pt[p].ring, m))
      BY <1>1, <2>1, <2>2 DEF Reply, WithRingAt
    <2> QED
      BY <1>1, <2>1, <2>3, <2>4, TableWith
  <1>2. CASE ~(ht[s][h] >= 0 /\ ~Full(pt[ht[s][h]].ring))
    BY <1>2, SMTT(60) DEF Reply
  <1> QED
    BY <1>1, <1>2

-----------------------------------------------------------------------------
(* The inductive invariant *)

\* The messages the tables allow: one of a slot whose last session was killed
\* is from the slot's present session, which is alive.
Current ==
    {m \in KMsg : lastEnd[m.from] = "kill" => m.inc = inc[m.from] /\ Alive(state, m.from)}

SessInv ==
    /\ state \in [Sid -> SessionState] /\ running \in 0 .. MaxSessions - 1
    /\ htab \in [Sid -> [Handle -> Port \cup {-1}]]
    /\ inc \in [Sid -> Nat] /\ granted \in [Sid -> [Handle -> Nat]]
    /\ lastEnd \in [Sid -> {"kill", "exit"}]
    /\ running # 0 /\ ~Alive(state, running) => lastEnd[running] = "kill"
    /\ KilledHoldsNoHandle

KInv == SessInv /\ ports \in Table(Current)

LEMMA KInvImplies == KInv => NoMailFromKilled /\ KilledHoldsNoHandle
  <1> SUFFICES ASSUME KInv, NEW p \in Port, NEW i \in Occupied(ports[p].ring)
               PROVE  LET m == ports[p].ring.slot[i]
                      IN  lastEnd[m.from] = "kill" =>
                              m.inc = inc[m.from] /\ Alive(state, m.from)
    BY DEF KInv, SessInv, NoMailFromKilled
  <1>1. ports[p].ring \in RingOver(Current)
    BY TableRing DEF KInv
  <1>2. ports[p].ring.slot[i] \in Current
    BY <1>1 DEF RingOver, Occupied
  <1> QED
    BY <1>2, SMTT(60) DEF Current

\* A running session with a handle is alive, so it may be the sender of a
\* message.
LEMMA HolderIsCurrent ==
    ASSUME SessInv, NEW s \in Sid, running = s, NEW h \in Handle, htab[s][h] >= 0
    PROVE  Alive(state, s) /\ [from |-> s, inc |-> inc[s]] \in Current
  <1>1. Alive(state, s)
    BY DEF SessInv, KilledHoldsNoHandle, Sid
  <1> QED
    BY <1>1 DEF SessInv, Current, KMsg

LEMMA KInitInv == KernelInit => KInv
  <1> SUFFICES ASSUME KernelInit PROVE KInv
    OBVIOUS
  <1>1. SessInv
    BY MaxSessionsAssumption DEF KernelInit, SessInv, KilledHoldsNoHandle, Sid, SessionState
  <1>2. Occupied(EmptyRing) = {} /\ FreePort.ring = EmptyRing
    BY DEF Occupied, EmptyRing, FreePort
  <1>3. FreePort \in PortOver(Current)
    BY EmptyOver
  <1>4. PICK reg \in PortOver(Current) :
            /\ reg = [FreePort EXCEPT !.used = TRUE, !.kernel = TRUE, !.name = "registry"]
            /\ reg.used
    <2>1. "registry" \in PortNames /\ 0 \in 0 .. MaxSessions - 1 /\ 0 \in Nat
      BY MaxSessionsAssumption DEF PortNames
    <2> QED
      BY <2>1, PortFields, Zenon
  <1>5. ports = [p \in Port |-> IF p = 0 THEN reg ELSE FreePort]
    BY <1>4 DEF KernelInit
  <1> QED
    BY <1>1, <1>2, <1>3, <1>4, <1>5, Zenon DEF KInv, Table

-----------------------------------------------------------------------------
(* The steps of the scheduler touch no ring and no handle *)

LEMMA LoopInv == ASSUME KInv, Loop PROVE KInv'
  <1>1. PICK s \in Sid : /\ IsPicked(state, next_rr, s) /\ running' = s
                         /\ state' = [Reaped(state) EXCEPT ![s] = "RUNNING"]
    BY Zenon DEF Loop
  <1>2. UNCHANGED <<ports, htab, granted, inc, lastEnd>>
    BY DEF Loop, portVars
  <1>3. /\ state' \in [Sid -> SessionState]
        /\ Alive(state', s)
        /\ \A u \in Sid : Alive(state, u) => Alive(state', u)
    BY <1>1 DEF KInv, SessInv, Reaped, Alive, IsPicked, Runnable, SessionState
  <1>4. SessInv'
    <2>1. running' # 0 /\ running' \in 0 .. MaxSessions - 1
      BY <1>1, MaxSessionsAssumption DEF Sid
    <2> QED
      BY <1>1, <1>2, <1>3, <2>1, Zenon DEF KInv, SessInv, KilledHoldsNoHandle
  <1>5. Current \subseteq Current'
    BY <1>2, <1>3 DEF Current, KMsg
  <1> QED
    BY <1>2, <1>4, <1>5, TableGrows DEF KInv

LEMMA YieldInv == ASSUME KInv, Yield PROVE KInv'
  <1>1. running \in Sid /\ running' = 0
    BY MaxSessionsAssumption DEF Yield, KInv, SessInv, Sid
  <1>2. UNCHANGED <<ports, htab, granted, inc, lastEnd>>
    BY DEF Yield, portVars
  <1>3. /\ state' \in [Sid -> SessionState]
        /\ \A u \in Sid : Alive(state, u) => Alive(state', u)
    BY <1>1 DEF Yield, KInv, SessInv, Alive, SessionState
  <1>4. SessInv'
    BY <1>1, <1>2, <1>3, MaxSessionsAssumption DEF KInv, SessInv, KilledHoldsNoHandle
  <1>5. Current \subseteq Current'
    BY <1>2, <1>3 DEF Current, KMsg
  <1> QED
    BY <1>2, <1>4, <1>5, TableGrows DEF KInv

\* A session that exits keeps what it left; nothing is said of it.
LEMMA ExitInv == ASSUME KInv, Exit PROVE KInv'
  <1>1. PICK s \in Sid : /\ running = s /\ running' = 0
                         /\ state' = [state EXCEPT ![s] = "ZOMBIE"]
                         /\ lastEnd' = [lastEnd EXCEPT ![s] = "exit"]
    <2>1. running \in Sid
      BY MaxSessionsAssumption DEF Exit, KInv, SessInv, Sid
    <2> QED
      BY <2>1, Zenon DEF Exit
  <1>2. UNCHANGED <<ports, htab, granted, inc>>
    BY DEF Exit, portVars
  <1>3. /\ state' \in [Sid -> SessionState] /\ lastEnd' \in [Sid -> {"kill", "exit"}]
        /\ \A u \in Sid : lastEnd'[u] = "kill" =>
              lastEnd[u] = "kill" /\ (Alive(state, u) => Alive(state', u))
    BY <1>1 DEF KInv, SessInv, Alive, SessionState
  <1>4. SessInv'
    <2>1. running' = 0 /\ 0 \in 0 .. MaxSessions - 1
      BY <1>1, MaxSessionsAssumption
    <2>2. KilledHoldsNoHandle'
      BY <1>2, <1>3 DEF KInv, SessInv, KilledHoldsNoHandle
    <2> QED
      BY <1>2, <1>3, <2>1, <2>2 DEF KInv, SessInv
  <1>5. Current \subseteq Current'
    BY <1>2, <1>3 DEF Current, KMsg
  <1> QED
    BY <1>2, <1>4, <1>5, TableGrows DEF KInv

-----------------------------------------------------------------------------
(* The calls of a session *)

\* A live session is given a handle.
LEMMA GrantInv ==
    ASSUME SessInv, NEW s \in Sid, Alive(state, s), NEW h \in Handle, NEW p \in Port,
           Grant(s, h, p), UNCHANGED sessVars
    PROVE  SessInv' /\ Current' = Current
  <1>1. UNCHANGED <<state, running, inc, lastEnd>>
    BY DEF sessVars
  <1>2. /\ htab' \in [Sid -> [Handle -> Port \cup {-1}]]
        /\ granted' \in [Sid -> [Handle -> Nat]]
    BY DEF SessInv, Grant
  <1>3. \A u \in Sid, i \in Handle :
            \/ u = s /\ granted'[u][i] = inc[u]
            \/ htab'[u][i] = htab[u][i] /\ granted'[u][i] = granted[u][i]
    BY DEF SessInv, Grant
  <1>4. KilledHoldsNoHandle'
    BY <1>1, <1>3 DEF SessInv, KilledHoldsNoHandle
  <1> QED
    BY <1>1, <1>2, <1>4 DEF SessInv, Current

LEMMA CreateInv ==
    ASSUME KInv, NEW s \in Sid, NEW n \in PortNames, PortCreate(s, n)
    PROVE  KInv'
  <1>1. PICK p \in Port, h \in Handle :
            /\ Grant(s, h, p)
            /\ ports' = [ports EXCEPT ![p] = [FreePort EXCEPT !.used = TRUE, !.creator = s,
                                                              !.by = inc[s], !.name = n]]
    BY Zenon DEF PortCreate
  <1>2. SessInv' /\ Current' = Current
    BY <1>1, GrantInv DEF PortCreate, KInv
  <1>3. s \in 0 .. MaxSessions - 1 /\ inc[s] \in Nat
    BY MaxSessionsAssumption DEF KInv, SessInv, Sid
  <1>4. PICK po \in PortOver(Current) :
            po = [FreePort EXCEPT !.used = TRUE, !.creator = s, !.by = inc[s], !.name = n]
            /\ po.used
    BY <1>3, PortFields, Zenon
  <1>5. ports' = [ports EXCEPT ![p] = po]
    BY <1>1, <1>4
  <1>6. ports' \in Table(Current)
    BY <1>4, <1>5, Zenon DEF KInv, Table
  <1> QED
    BY <1>2, <1>6 DEF KInv

LEMMA BindInv ==
    ASSUME KInv, NEW s \in Sid, NEW n \in PortNames, PortBind(s, n)
    PROVE  KInv'
  <1>1. PICK p \in Port, h \in Handle : Grant(s, h, p)
    BY DEF PortBind
  <1>2. SessInv' /\ Current' = Current
    BY <1>1, GrantInv DEF PortBind, KInv
  <1> QED
    BY <1>2 DEF KInv, PortBind

\* A send and a receive change one ring.
LEMMA SendRecvInv ==
    ASSUME KInv, NEW s \in Sid, NEW h \in Handle, PortSend(s, h) \/ PortRecv(s, h)
    PROVE  KInv'
  <1>1. UNCHANGED <<state, running, inc, lastEnd, htab, granted>> /\ running = s
    BY DEF PortSend, PortRecv, sessVars
  <1>2. SessInv' /\ Current' = Current
    BY <1>1 DEF KInv, SessInv, KilledHoldsNoHandle, Current
  <1>3. PICK p \in Port : p = htab[s][h] /\ htab[s][h] >= 0 /\ ports[p].used
    BY DEF PortSend, PortRecv, ValidHandle, PortOf, KInv, SessInv
  <1>4. PICK m \in Current : m = [from |-> s, inc |-> inc[s]]
    BY <1>1, <1>3, HolderIsCurrent, ZenonT(60) DEF KInv
  <1>5. \/ ports' = WithRingAt(ports, p, Enqueue(ports[p].ring, m))
        \/ ports' = WithRingAt(ports, p, Dequeue(ports[p].ring))
    BY <1>3, <1>4 DEF PortSend, PortRecv, PortOf, WithRingAt
  <1>6. /\ Enqueue(ports[p].ring, m) \in RingOver(Current)
        /\ Dequeue(ports[p].ring) \in RingOver(Current)
    BY TableRing, EnqueueOver, DequeueOver DEF KInv
  <1>7. ports' \in Table(Current)
    BY <1>3, <1>5, <1>6, TableWith DEF KInv
  <1> QED
    BY <1>2, <1>7 DEF KInv

\* KILL: the session is gone, its messages and its handles with it.  It may
\* be the caller, who then gets no answer.
LEMMA KillInv ==
    ASSUME KInv, NEW s \in Sid, NEW h \in Handle, NEW v \in Sid, RegistryKill(s, h, v)
    PROVE  KInv'
  <1> DEFINE N == {m \in Current : m.from # v}
             drained == DrainSession(ports, v)
  <1>1. /\ running = s /\ running' = running /\ inc' = inc
        /\ state' = [state EXCEPT ![v] = "ZOMBIE"]
        /\ lastEnd' = [lastEnd EXCEPT ![v] = "kill"]
        /\ htab' = [htab EXCEPT ![v] = [i \in Handle |-> -1]]
        /\ granted' = [granted EXCEPT ![v] = [i \in Handle |-> 0]]
        /\ ports' = Reply(drained, htab', s, h)
    BY DEF RegistryKill, CallsRegistry, ClearHandles
  <1>2. /\ state' \in [Sid -> SessionState] /\ lastEnd' \in [Sid -> {"kill", "exit"}]
        /\ htab' \in [Sid -> [Handle -> Port \cup {-1}]]
        /\ granted' \in [Sid -> [Handle -> Nat]]
    BY <1>1 DEF KInv, SessInv, SessionState
  <1>3. /\ lastEnd'[v] = "kill" /\ \A i \in Handle : htab'[v][i] = -1
        /\ \A u \in Sid \ {v} : /\ state'[u] = state[u] /\ lastEnd'[u] = lastEnd[u]
                                /\ htab'[u] = htab[u] /\ granted'[u] = granted[u]
    BY <1>1, SMTT(60) DEF KInv, SessInv
  <1>4. SessInv'
    <2>1. KilledHoldsNoHandle'
      BY <1>1, <1>3 DEF KInv, SessInv, KilledHoldsNoHandle, Alive
    <2>2. ~Alive(state', s) => lastEnd'[s] = "kill"
      BY <1>1, <1>3, MaxSessionsAssumption DEF KInv, SessInv, Alive, Sid
    <2> QED
      BY <1>1, <1>2, <2>1, <2>2, SMTT(60) DEF KInv, SessInv
  <1>5. N \subseteq Current'
    BY <1>1, <1>3 DEF Current, KMsg, Alive
  <1>6. drained \in Table(N) /\ \A p \in Port : drained[p].used = ports[p].used
    BY TableDrain, SMTT(60) DEF KInv
  <1>7. htab'[s][h] >= 0 =>
            drained[htab'[s][h]].used /\ [from |-> s, inc |-> inc[s]] \in N
    <2> SUFFICES ASSUME htab'[s][h] >= 0
                 PROVE  drained[htab'[s][h]].used /\ [from |-> s, inc |-> inc[s]] \in N
      OBVIOUS
    <2>1. s # v /\ htab'[s][h] = htab[s][h]
      BY <1>3, SMTT(60)
    <2>2. htab[s][h] \in Port /\ ports[htab[s][h]].used
      BY <2>1 DEF RegistryKill, CallsRegistry, ValidHandle, PortOf, KInv, SessInv
    <2>3. [from |-> s, inc |-> inc[s]] \in Current
      BY <1>1, <2>1, HolderIsCurrent DEF KInv
    <2> QED
      BY <1>6, <2>1, <2>2, <2>3, SMTT(60)
  <1> HIDE DEF N, drained
  <1>8. htab'[s][h] \in Port \cup {-1}
    BY <1>2, SMTT(60)
  <1>9. ports' \in Table(N)
    BY <1>1, <1>6, <1>7, <1>8, TableReply, Zenon
  <1> QED
    BY <1>4, <1>5, <1>9, TableGrows DEF KInv

\* SPAWN: the slot was free; if its last session was killed, nothing of that
\* session is left.
LEMMA SpawnInv ==
    ASSUME KInv, NEW s \in Sid, NEW h \in Handle, RegistrySpawn(s, h)
    PROVE  KInv'
  <1>1. PICK v \in Sid : /\ state[v] = "FREE"
                         /\ state' = [state EXCEPT ![v] = "RUNNABLE"]
                         /\ inc' = [inc EXCEPT ![v] = @ + 1]
    BY ZenonT(60) DEF RegistrySpawn, IsFirstFree
  <1>2. /\ running = s /\ UNCHANGED <<running, htab, granted, lastEnd>>
        /\ ports' = Reply(ports, htab, s, h)
    BY DEF RegistrySpawn, CallsRegistry
  <1>3. htab[s][h] \in Port /\ htab[s][h] >= 0 /\ ports[htab[s][h]].used
    BY DEF RegistrySpawn, CallsRegistry, ValidHandle, PortOf, KInv, SessInv
  <1>4. /\ state' \in [Sid -> SessionState] /\ inc' \in [Sid -> Nat]
        /\ ~Alive(state, v)
        /\ \A u \in Sid \ {v} : state'[u] = state[u] /\ inc'[u] = inc[u]
    BY <1>1 DEF KInv, SessInv, SessionState, Alive
  <1>5. Alive(state, s) /\ [from |-> s, inc |-> inc[s]] \in Current
    BY <1>2, <1>3, HolderIsCurrent, SMTT(60) DEF KInv
  <1>6. SessInv'
    <2>1. KilledHoldsNoHandle'
      BY <1>2, <1>4, SMTT(60) DEF KInv, SessInv, KilledHoldsNoHandle, Alive
    <2>2. Alive(state', s)
      BY <1>4, <1>5, SMTT(60) DEF Alive
    <2> QED
      BY <1>2, <1>4, <2>1, <2>2, SMTT(60) DEF KInv, SessInv
  <1>7. Current \subseteq Current'
    BY <1>2, <1>4, SMTT(60) DEF Current, KMsg, Alive
  <1>8. ports' \in Table(Current)
    BY <1>2, <1>3, <1>5, TableReply DEF KInv
  <1> QED
    BY <1>6, <1>7, <1>8, TableGrows DEF KInv

\* sched_kill: a killed session leaves no message in any ring and no handle,
\* however it is interleaved with sends, receives, exits and spawns into its
\* slot, for every size of the tables.
THEOREM KilledLeavesNothing == KernelSpec => [](NoMailFromKilled /\ KilledHoldsNoHandle)
<1>1. KInv /\ [KernelNext]_kernelVars => KInv'
  <2> SUFFICES ASSUME KInv, [KernelNext]_kernelVars PROVE KInv'
    OBVIOUS
  <2>1. CASE UNCHANGED kernelVars
    <3>1. UNCHANGED <<state, running, ports, htab, inc, granted, lastEnd>>
      BY <2>1 DEF kernelVars
    <3>2. SessInv' /\ Current' = Current
      BY <3>1 DEF KInv, SessInv, KilledHoldsNoHandle, Current
    <3> QED
      BY <3>1, <3>2 DEF KInv
  <2> QED
    BY <2>1, LoopInv, YieldInv, ExitInv, CreateInv, BindInv, SendRecvInv, KillInv, SpawnInv, SMTT(60)
       DEF KernelNext, Halt
<1> QED
  BY <1>1, KInitInv, KInvImplies, PTL DEF KernelSpec
=============================================================================
