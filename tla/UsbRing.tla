------------------------------ MODULE UsbRing ------------------------------
(***************************************************************************)
(* The control transfers of the usb service (services/usb/xfer.go): the    *)
(* EP0 transfer ring of a device slot, whose producer and consumer agree   *)
(* by cycle bits and a Link TRB at the lap boundary, the submission of a   *)
(* transfer as two or three TRBs, of which a full ring may refuse any, and *)
(* the doorbell that asks the controller to process one transfer.          *)
(***************************************************************************)
EXTENDS Naturals, SequencesExt

CONSTANTS
    SlotIds,     \* device slots that can be enabled
    DataSlots,   \* data TRBs of a ring; the Link TRB follows them
    MaxSubmits   \* bound: submissions of a behaviour

VARIABLES
    slots,     \* the EP0 ring of each enabled slot
    pendingDB, \* slots whose doorbell is outstanding
    count,     \* submissions so far; a submission is named by its number
    accepted,  \* per slot: submissions that returned success, in order
    completed  \* per slot: completions, each the TRBs it was made of

usbVars == <<slots, pendingDB, count, accepted, completed>>

LinkIdx == DataSlots

\* A TRB carries its type, its cycle bit, the submission it belongs to and,
\* for a data stage, whether the data go to the host.
LinkTRB(cycle) == [type |-> "link", cycle |-> cycle, of |-> 0, in |-> FALSE]
Zeroed == [type |-> "none", cycle |-> FALSE, of |-> 0, in |-> FALSE]

NewTransferRing ==
    [trbs |-> [i \in 0 .. LinkIdx |-> IF i = LinkIdx THEN LinkTRB(FALSE) ELSE Zeroed],
     pcycle |-> FALSE, ccycle |-> FALSE, enq |-> 0, deq |-> 0, queued |-> 0]

RingFull(r) == r.queued >= DataSlots

\* Fault: the producer goes on with the cycle of the last lap.
LapKeepsCycle(r) == [r EXCEPT !.trbs[LinkIdx] = LinkTRB(r.pcycle), !.enq = 0]

\* At the lap boundary the producer rewrites the Link TRB and toggles.
Lap(r) == [r EXCEPT !.trbs[LinkIdx] = LinkTRB(r.pcycle), !.pcycle = ~@, !.enq = 0]

\* Enqueue on a ring that is not full.
Enqueue(r, trb) ==
    LET at == IF r.enq = LinkIdx THEN Lap(r) ELSE r
    IN  [at EXCEPT !.trbs[at.enq] = [trb EXCEPT !.cycle = at.pcycle], !.enq = @ + 1, !.queued = @ + 1]

\* Consume: the dequeue follows a link, then takes the TRB if its cycle bit
\* says that it is the consumer's.
FollowLink(r) ==
    IF r.trbs[r.deq].type = "link" THEN [r EXCEPT !.ccycle = ~@, !.deq = 0] ELSE r

Consumable(r) ==
    LET at == FollowLink(r) IN /\ at.trbs[at.deq].type # "link"
                               /\ at.trbs[at.deq].cycle = at.ccycle

Consume(r) ==
    IF r.queued = 0 THEN [ok |-> FALSE, ring |-> r]
    ELSE LET at == FollowLink(r)
         IN  IF Consumable(r)
             THEN [ok |-> TRUE, trb |-> at.trbs[at.deq],
                   ring |-> [at EXCEPT !.deq = (@ + 1) % (LinkIdx + 1), !.queued = @ - 1]]
             ELSE [ok |-> FALSE, ring |-> at]

-----------------------------------------------------------------------------
UsbInit ==
    /\ slots = << >> /\ pendingDB = {} /\ count = 0
    /\ accepted = [s \in SlotIds |-> << >>]
    /\ completed = [s \in SlotIds |-> << >>]

Enabled == DOMAIN slots

\* An enabled slot is fetched, its ring left as it is.
EnableSlot(s) ==
    /\ s \notin Enabled
    /\ slots' = [x \in Enabled \cup {s} |-> IF x = s THEN NewTransferRing ELSE slots[x]]
    /\ UNCHANGED <<pendingDB, count, accepted, completed>>

\* The stages of a transfer: the data stage is there when WLength is not 0.
Stages(n, data) ==
    LET Stage(type) == [type |-> type, cycle |-> FALSE, of |-> n, in |-> type = "data" /\ data = "in"]
    IN  IF data # "none" THEN <<Stage("setup"), Stage("data"), Stage("status")>>
        ELSE <<Stage("setup"), Stage("status")>>

\* The stages are queued one by one; the first that finds the ring full ends
\* the submission with an error, and the stages before it stay.
Queue(r, stages) == FoldLeft(LAMBDA q, trb : IF RingFull(q) THEN q ELSE Enqueue(q, trb), r, stages)

\* The doorbell is rung only for a transfer that was queued whole.
SubmitControlTransfer(s, data) ==
    /\ s \in Enabled /\ count < MaxSubmits
    /\ LET stages == Stages(count + 1, data)
           ring == Queue(slots[s], stages)
           whole == ring.queued = slots[s].queued + Len(stages)
       IN  /\ slots' = [slots EXCEPT ![s] = ring]
           /\ pendingDB' = IF whole THEN pendingDB \cup {s} ELSE pendingDB
           /\ accepted' = IF whole THEN [accepted EXCEPT ![s] = Append(@, [of |-> {count + 1}, in |-> data = "in"])]
                          ELSE accepted
    /\ count' = count + 1
    /\ UNCHANGED completed

RingDoorbell(s) ==
    /\ s \in Enabled
    /\ pendingDB' = pendingDB \cup {s}
    /\ UNCHANGED <<slots, count, accepted, completed>>

RECURSIVE Drive(_, _)

AtSetup(td, trb) == [seenSetup |-> TRUE, in |-> FALSE, of |-> {trb.of}, ended |-> FALSE]

\* What a transfer descriptor is known to be after one more TRB of it.
Absorb(td, trb) ==
    CASE trb.type = "setup" -> AtSetup(td, trb)
      [] trb.type = "data" -> [td EXCEPT !.in = trb.in, !.of = @ \cup {trb.of}]
      [] trb.type = "status" -> [td EXCEPT !.ended = td.seenSetup, !.of = @ \cup {trb.of}]

\* TRBs are consumed up to the first status stage that follows a setup stage.
Drive(r, td) ==
    LET c == Consume(r)
    IN  IF td.ended \/ ~c.ok THEN [ring |-> IF td.ended THEN r ELSE c.ring, td |-> td]
        ELSE Drive(c.ring, Absorb(td, c.trb))

\* A completion takes the doorbell with it; a ring that ends before a status
\* stage leaves it pending.
Process(s) ==
    /\ s \in pendingDB
    /\ LET d == Drive(slots[s], [seenSetup |-> FALSE, in |-> FALSE, of |-> {}, ended |-> FALSE])
       IN  /\ slots' = [slots EXCEPT ![s] = d.ring]
           /\ pendingDB' = IF d.td.ended THEN pendingDB \ {s} ELSE pendingDB
           /\ completed' = IF d.td.ended
                           THEN [completed EXCEPT ![s] = Append(@, [of |-> d.td.of, in |-> d.td.in])]
                           ELSE completed
    /\ UNCHANGED <<count, accepted>>

UsbNext ==
    \E s \in SlotIds :
        \/ EnableSlot(s)
        \/ \E data \in {"none", "in", "out"} : SubmitControlTransfer(s, data)
        \/ RingDoorbell(s)
        \/ Process(s)

-----------------------------------------------------------------------------
\* services/usb/xfer.go Enqueue, Consume, SubmitControlTransfer, Process: the
\* completions of a slot are its accepted transfers, in order, each made of
\* its own stages only and with its own data direction, whatever submissions a
\* full ring cut short before it; and a TRB that is queued can be consumed.
TransfersAreWhole ==
    \A s \in SlotIds :
        /\ IsPrefix(completed[s], accepted[s])
        /\ s \in Enabled /\ slots[s].queued > 0 => Consumable(slots[s])
=============================================================================
