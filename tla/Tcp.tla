--------------------------------- MODULE Tcp ---------------------------------
(***************************************************************************)
(* One TCP connection of the net service (services/net/tcp.go): the end    *)
(* that dialled and the end that listened, both running this stack, over a *)
(* wire that may lose, duplicate and reorder segments.  The stack has no   *)
(* retransmission, no options and ignores the window field.  A segment     *)
(* that does not parse is dropped, which is a loss.                        *)
(*                                                                         *)
(* The bytes an end writes are numbered 1, 2, ..., so the stream the other *)
(* end should see is 1, 2, ... again.  A step is what the code does under  *)
(* the connection's mutex.                                                 *)
(***************************************************************************)
EXTENDS Integers, SequencesExt

CONSTANTS
    MaxSeg,     \* tcpMaxSeg
    WindowCap,  \* tcpWindowCap
    NumMod,     \* sequence numbers are modulo this (2^32 in the code)
    ISS,        \* first number of the end that dials (1000 in the code)
    Bytes,      \* [Ends -> Nat]: bound on the bytes an end writes
    MaxFaults   \* bound on lost, duplicated, reordered segments and resets

Ends == {"client", "server"}
Peer(e) == IF e = "client" THEN "server" ELSE "client"

VARIABLES
    conn,       \* the two TCPConn records
    wire,       \* segments on their way to each end
    queue,      \* the listener's queue: "empty", "queued" or "taken"
    written,    \* bytes each end has written
    faults

vars == <<conn, wire, queue, written, faults>>

\* a > b and a >= b in modular arithmetic: the difference read as signed.
seqGT(a, b) == LET d == (a - b) % NumMod IN 0 < d /\ 2 * d < NumMod
seqGE(a, b) == a = b \/ seqGT(a, b)

\* A segment; parsing undoes building on every segment the stack builds.
Segment(seq, ack, flags, data) == [seq |-> seq, ack |-> ack, flags |-> flags, data |-> data]

\* A connection: stream is all that was ever appended to rcvBuf, read how
\* much of it Recv has popped.
NewConn(state, iss) ==
    [state |-> state, una |-> iss, nxt |-> iss, rcv |-> 0, finSeq |-> 0,
     finSent |-> FALSE, finPending |-> FALSE, sndBuf |-> <<>>, inFlight |-> <<>>,
     stream |-> <<>>, read |-> 0, theirFin |-> FALSE, err |-> "none"]

\* The handlers work on r = [c |-> the connection, out |-> segments sent].
sendLocked(r, flags, data) ==
    LET c == r.c
        bump == Len(data) + (IF flags \cap {"SYN", "FIN"} # {} THEN 1 ELSE 0)
        implied == IF c.state # "SYN-SENT" THEN {"ACK"} ELSE {}
    IN [c |-> [c EXCEPT !.nxt = (@ + bump) % NumMod,
                        !.finSeq = IF "FIN" \in flags THEN c.nxt ELSE @,
                        !.finSent = @ \/ "FIN" \in flags,
                        !.inFlight = @ \o data],
        out |-> Append(r.out, Segment(c.nxt, c.rcv, flags \cup implied, data))]

RECURSIVE flushLocked(_)
flushLocked(r) ==
    LET c == r.c
        n == CHOOSE k \in {MaxSeg, Len(c.sndBuf), WindowCap - Len(c.inFlight)} :
                \A j \in {MaxSeg, Len(c.sndBuf), WindowCap - Len(c.inFlight)} : k <= j
    IN IF c.state = "ESTABLISHED" /\ c.sndBuf # <<>> /\ Len(c.inFlight) < WindowCap
       THEN flushLocked(sendLocked([r EXCEPT !.c.sndBuf = SubSeq(@, n + 1, Len(@))],
                                   {}, SubSeq(c.sndBuf, 1, n)))
       ELSE r

\* Fault: the FIN does not wait for the queue to drain.
trySendFinAtOnce(r) ==
    IF ~r.c.finPending \/ r.c.state \notin {"ESTABLISHED", "CLOSE-WAIT"} THEN r
    ELSE sendLocked([r EXCEPT !.c.state = IF @ = "ESTABLISHED" THEN "FIN-WAIT" ELSE "LAST-ACK"],
                    {"FIN"}, <<>>)

trySendFinLocked(r) ==
    IF ~r.c.finPending \/ r.c.sndBuf # <<>> \/ r.c.inFlight # <<>>
       \/ r.c.state \notin {"ESTABLISHED", "CLOSE-WAIT"} THEN r
    ELSE sendLocked([r EXCEPT !.c.state = IF @ = "ESTABLISHED" THEN "FIN-WAIT" ELSE "LAST-ACK"],
                    {"FIN"}, <<>>)

\* Fault: the sender takes any acknowledgement for one of all it sent.
ackedAll(c, seg) == Len(c.inFlight)

\* How many bytes an acceptable acknowledgement takes out of flight.
acked(c, seg) == (seg.ack - c.una) % NumMod

\* Fault: the whole acknowledgement step is left out once closing.
processAckEstablished(r, seg) ==
    LET c == r.c
    IN IF "ACK" \in seg.flags /\ seqGT(seg.ack, c.una) /\ seqGE(c.nxt, seg.ack)
       THEN [r EXCEPT !.c.inFlight = SubSeq(@, acked(c, seg) + 1, Len(@)), !.c.una = seg.ack]
       ELSE r

\* Cumulative acknowledgement; a window that opens is filled at once and a
\* deferred FIN sent when nothing is left.
processAck(r, seg) ==
    LET c == r.c
        opened == [r EXCEPT !.c.inFlight = SubSeq(@, acked(c, seg) + 1, Len(@)), !.c.una = seg.ack]
    IN IF "ACK" \in seg.flags /\ seqGT(seg.ack, c.una) /\ seqGE(c.nxt, seg.ack)
       THEN trySendFinLocked(flushLocked(opened))
       ELSE r

\* Fault: a segment past a gap is taken as well.
inOrderAny(c, seg) == ~seqGT(c.rcv, seg.seq)

inOrder(c, seg) == seg.seq = c.rcv

\* Append a payload that continues the stream, and acknowledge it.
deliver(r, seg) ==
    IF seg.data # <<>> /\ inOrder(r.c, seg)
    THEN sendLocked([r EXCEPT !.c.stream = @ \o seg.data,
                              !.c.rcv = (@ + Len(seg.data)) % NumMod], {"ACK"}, <<>>)
    ELSE r

finContinues(c, seg) == "FIN" \in seg.flags /\ (seg.seq + Len(seg.data)) % NumMod = c.rcv

\* A FIN that continues the stream is counted and acknowledged.
takeFin(r, seg) ==
    IF finContinues(r.c, seg)
    THEN sendLocked([r EXCEPT !.c.rcv = (@ + 1) % NumMod], {"ACK"}, <<>>)
    ELSE r

finAcked(c) == seqGE(c.una, (c.finSeq + 1) % NumMod)

\* The switch on the state, by the state the acknowledgement left.
byState(r, seg) ==
    LET c == r.c
        syn == "SYN" \in seg.flags
        ack == "ACK" \in seg.flags
        got == deliver(r, seg)
    IN CASE c.state = "LISTEN" /\ syn /\ ~ack ->
              sendLocked([r EXCEPT !.c.rcv = (seg.seq + 1) % NumMod, !.c.state = "SYN-RCVD"],
                         {"SYN", "ACK"}, <<>>)
         [] c.state = "SYN-SENT" /\ syn /\ ack ->
              flushLocked(sendLocked([r EXCEPT !.c.rcv = (seg.seq + 1) % NumMod,
                                               !.c.una = seg.ack, !.c.inFlight = <<>>,
                                               !.c.state = "ESTABLISHED"], {"ACK"}, <<>>))
         [] c.state = "SYN-RCVD" /\ ack -> [r EXCEPT !.c.state = "ESTABLISHED"]
         [] c.state = "ESTABLISHED" ->
              IF finContinues(got.c, seg)
              THEN [takeFin(got, seg) EXCEPT !.c.state = "CLOSE-WAIT", !.c.err = "remote closed"]
              ELSE got
         [] c.state = "FIN-WAIT" ->
              LET t == takeFin(got, seg)
                  seen == "FIN" \in seg.flags \/ t.c.theirFin
              IN [t EXCEPT !.c.theirFin = seen,
                           !.c.state = IF finAcked(t.c) /\ seen THEN "CLOSED" ELSE @,
                           !.c.err = IF finAcked(t.c) /\ seen THEN "closed" ELSE @]
         [] c.state = "LAST-ACK" /\ ack /\ finAcked(c) ->
              [r EXCEPT !.c.state = "CLOSED", !.c.err = "closed"]
         [] OTHER -> r

\* One inbound segment: reset, acknowledgement, state, and the payload of a
\* segment that completed the handshake.  (A set of one element, so that each
\* stage is evaluated once.)
handle(c, seg) ==
    IF "RST" \in seg.flags /\ c.state \notin {"CLOSED", "LISTEN"}
    THEN {[c |-> [c EXCEPT !.state = "CLOSED", !.err = "reset"], out |-> <<>>]}
    ELSE {IF r.c.state = "ESTABLISHED" THEN deliver(r, seg) ELSE r :
             r \in {byState(a, seg) : a \in {processAck([c |-> c, out |-> <<>>], seg)}}}

\* The state after end e ran r.
Ran(e, r) ==
    /\ conn' = [conn EXCEPT ![e] = r.c]
    /\ wire' = [wire EXCEPT ![Peer(e)] = @ \o r.out]

-----------------------------------------------------------------------------
\* NewTCPStack and Listen: the server's record waits in LISTEN.
Init ==
    /\ conn = [e \in Ends |-> IF e = "client" THEN NewConn("CLOSED", ISS) ELSE NewConn("LISTEN", 0)]
    /\ wire = [e \in Ends |-> <<>>]
    /\ queue = "empty"
    /\ written = [e \in Ends |-> 0]
    /\ faults = 0

Dial ==
    /\ conn["client"] = NewConn("CLOSED", ISS)
    /\ Ran("client", sendLocked([c |-> NewConn("SYN-SENT", ISS), out |-> <<>>], {"SYN"}, <<>>))
    /\ UNCHANGED <<queue, written, faults>>

Accept ==
    /\ queue = "queued"
    /\ queue' = "taken"
    /\ UNCHANGED <<conn, wire, written, faults>>

\* A socket reaches its connection after Connect or Accept.
Held(e) == e = "client" \/ queue = "taken"

Write(e, n) ==
    /\ Held(e) /\ written[e] + n <= Bytes[e]
    /\ conn[e].state = "ESTABLISHED" /\ ~conn[e].finPending
    /\ Ran(e, flushLocked([c |-> [conn[e] EXCEPT !.sndBuf = @ \o [i \in 1 .. n |-> written[e] + i]],
                           out |-> <<>>]))
    /\ written' = [written EXCEPT ![e] = @ + n]
    /\ UNCHANGED <<queue, faults>>

Recv(e) ==
    /\ Held(e) /\ conn[e].read < Len(conn[e].stream)
    /\ conn' = [conn EXCEPT ![e].read = Len(conn[e].stream)]
    /\ UNCHANGED <<wire, queue, written, faults>>

\* Close from any other state is refused and changes nothing.
Close(e) ==
    /\ Held(e) /\ ~conn[e].finPending
    /\ conn[e].state \in {"ESTABLISHED", "CLOSE-WAIT"}
    /\ Ran(e, trySendFinLocked(
                [flushLocked([c |-> conn[e], out |-> <<>>]) EXCEPT !.c.finPending = TRUE]))
    /\ UNCHANGED <<queue, written, faults>>

\* End e handles the i-th segment on its wire; any but the first overtakes.
Deliver(e, i) ==
    /\ i \in DOMAIN wire[e]
    /\ i > 1 => faults < MaxFaults
    /\ faults' = IF i > 1 THEN faults + 1 ELSE faults
    /\ \E r \in handle(conn[e], wire[e][i]) :
          /\ conn' = [conn EXCEPT ![e] = r.c]
          /\ wire' = [wire EXCEPT ![e] = RemoveAt(@, i), ![Peer(e)] = @ \o r.out]
          /\ queue' = IF conn[e].state = "SYN-RCVD" /\ r.c.state = "ESTABLISHED"
                      THEN "queued" ELSE queue
    /\ UNCHANGED written

Lose(e, i) ==
    /\ i \in DOMAIN wire[e] /\ faults < MaxFaults
    /\ wire' = [wire EXCEPT ![e] = RemoveAt(@, i)]
    /\ faults' = faults + 1
    /\ UNCHANGED <<conn, queue, written>>

Duplicate(e, i) ==
    /\ i \in DOMAIN wire[e] /\ faults < MaxFaults
    /\ wire' = [wire EXCEPT ![e] = Append(@, wire[e][i])]
    /\ faults' = faults + 1
    /\ UNCHANGED <<conn, queue, written>>

\* A host on the way refuses the connection.
Reset(e) ==
    /\ faults < MaxFaults /\ conn[e].state \notin {"CLOSED", "LISTEN"}
    /\ wire' = [wire EXCEPT ![e] = Append(@, Segment(0, 0, {"RST"}, <<>>))]
    /\ faults' = faults + 1
    /\ UNCHANGED <<conn, queue, written>>

Next ==
    \/ Dial \/ Accept
    \/ \E e \in Ends :
          \/ \E n \in 1 .. Bytes[e] : Write(e, n)
          \/ Recv(e) \/ Close(e) \/ Reset(e)
          \/ \E i \in 1 .. Len(wire[e]) : Deliver(e, i) \/ Lose(e, i) \/ Duplicate(e, i)

Spec == Init /\ [][Next]_vars

\* The pump runs for ever, so a segment that has arrived is handled.
FairSpec == Spec /\ \A e \in Ends : WF_vars(Deliver(e, 1))

-----------------------------------------------------------------------------
\* The states are the eight of tcp.go; no more than the window is in flight.
TypeOK ==
    /\ \A e \in Ends :
          /\ conn[e].state \in {"CLOSED", "LISTEN", "SYN-SENT", "SYN-RCVD", "ESTABLISHED",
                                "FIN-WAIT", "CLOSE-WAIT", "LAST-ACK"}
          /\ {conn[e].una, conn[e].nxt, conn[e].rcv} \subseteq 0 .. NumMod - 1
          /\ Len(conn[e].inFlight) <= WindowCap
          /\ conn[e].read <= Len(conn[e].stream)
    /\ queue \in {"empty", "queued", "taken"}

\* The stream an end sees (rcvBuf) is always the beginning of what the other
\* end wrote: nothing is lost in the middle, repeated or out of order,
\* whatever the wire does and across the wrap of the sequence numbers.
StreamIsPrefix ==
    \A e \in Ends :
        /\ Len(conn[e].stream) <= written[Peer(e)]
        /\ conn[e].stream = [i \in 1 .. Len(conn[e].stream) |-> i]

\* A byte that has left inFlight is in the other end's stream: processAck
\* never gives up a byte the peer does not have (there is no second copy).
AckedHasArrived ==
    \A e \in Ends :
        written[e] - Len(conn[e].sndBuf) - Len(conn[e].inFlight) <= Len(conn[Peer(e)].stream)

\* When an end reports an orderly close ("net: closed"), both streams are
\* complete: every byte either side wrote has been delivered.
OrderlyCloseIsComplete ==
    \A e \in Ends : conn[e].err = "closed" =>
        \A f \in Ends : Len(conn[f].stream) = written[Peer(f)]

\* The tail of a window-limited Write is still queued when the peer's FIN
\* arrives: in CLOSE-WAIT flushLocked does nothing, so it stays queued.
Stranded(e) == conn[e].state = "CLOSE-WAIT" /\ conn[e].sndBuf # <<>>

\* On a wire without faults Close takes effect: the FIN it defers is sent,
\* unless the tail is stranded.
CloseTakesEffect ==
    \A e \in Ends : conn[e].finPending ~> (conn[e].finSent \/ faults > 0 \/ Stranded(e))

\* tcp.go, Close: "closing after a window-limited Write must not abandon
\* stream tail".  On a wire without faults the deferred FIN is always sent.
TailIsSent == \A e \in Ends : conn[e].finPending ~> (conn[e].finSent \/ faults > 0)
=============================================================================
