----------------------------- MODULE Bluetooth -----------------------------
(***************************************************************************)
(* The discovery and read cycle of the bt service (services/bt): H4 frames *)
(* read from a UART that never blocks (h4.go), HCI commands and events     *)
(* (hci.go), the GATT client (att.go) and the cycle itself (bt_run.go).    *)
(* Bytes arrive one at a time, so that a read can find half a frame.  A    *)
(* byte is a number; opcodes, handles and addresses are one number each    *)
(* where the wire has two or six bytes.  The controller and the peers are  *)
(* external, modelled from the replies the code expects.                   *)
(***************************************************************************)
EXTENDS Integers, SequencesExt

CONSTANTS
    Peers,    \* addresses of the devices that advertise
    Level,    \* battery level of each peer
    MaxAdvs   \* bound: advertising events of a behaviour

VARIABLES
    wire,   \* bytes the controller has sent and the UART has not received
    rx,     \* bytes received and not read; each knows if it begins a frame
    ctl,    \* the controller: advertising events sent, and the peer it is linked to
    flow,   \* where Run is, and what it has learned
    cut,    \* a scan has dropped the first bytes of a frame
    astray  \* a frame was read from a byte that does not begin one

btVars == <<wire, rx, ctl, flow, cut, astray>>

H4Acl == 2
H4Evt == 3
EvtCmdComplete == 14
EvtCmdStatus == 15
EvtLeMeta == 62
ConnComplete == 1
AdvReport == 2
ScanTimeout == 7
StatusOK == 0
Battery == 90
GenericAccess == 91

\* The stages of Run.
Stages == <<"reset", "bdaddr", "params", "enable", "scan", "connect", "complete",
            "mtu", "services", "chars", "read", "done">>
Commands == {"reset", "bdaddr", "params", "enable", "connect"}
Requests == {"mtu", "services", "chars", "read"}
Index(stage) == CHOOSE i \in DOMAIN Stages : Stages[i] = stage
Opcode(command) == 30 + Index(command)

-----------------------------------------------------------------------------
\* h4.go.  A read takes the bytes it finds; those of a frame that is not all
\* there are gone.
NoFrame(err, rest) == [err |-> err, rest |-> rest]

readFrame(q, type) ==
    IF q = << >> THEN NoFrame("eof", q)
    ELSE IF Head(q).b # type THEN NoFrame("type", Tail(q))
    ELSE IF Len(q) < 3 THEN NoFrame("truncated", << >>)
    ELSE IF Len(q) < 3 + q[3].b THEN NoFrame("truncated", << >>)
    ELSE [err |-> "none", code |-> q[2].b, data |-> [i \in 1 .. q[3].b |-> q[3 + i].b],
          rest |-> SubSeq(q, 4 + q[3].b, Len(q))]

\* An event has a code, ACL data a connection handle.
readHCIEvent(q) == readFrame(q, H4Evt)
readACL(q) == readFrame(q, H4Acl)

frame(type, code, data) ==
    LET bytes == <<type, code, Len(data)>> \o data
    IN  [i \in DOMAIN bytes |-> [b |-> bytes[i], begins |-> i = 1]]

-----------------------------------------------------------------------------
\* The controller and the peer it is linked to.  Handles follow the address.
Handle(peer) == peer
ServicesOf(peer) == <<<<peer, peer + 1, GenericAccess>>, <<peer + 2, peer + 4, Battery>>>>
ValueOf(peer, handle) == IF handle = peer + 4 THEN Level[peer] ELSE 99

CmdComplete(command, ret) == frame(H4Evt, EvtCmdComplete, <<1, Opcode(command), StatusOK>> \o ret)
CmdStatus == frame(H4Evt, EvtCmdStatus, <<1, Opcode("connect"), StatusOK>>)
Linked(peer) == frame(H4Evt, EvtLeMeta, <<ConnComplete, StatusOK, Handle(peer), 0, 1, peer, 24, 0, 500>>)
Report(peer) == <<0, 1, peer, 1, H4Evt, 60>>
Advertising(seq) == frame(H4Evt, EvtLeMeta, <<AdvReport, Len(seq)>> \o FlattenSeq([i \in DOMAIN seq |-> Report(seq[i])]))

\* What a command makes the controller send.
Answers(command) ==
    CASE command = "bdaddr" -> CmdComplete(command, <<77>>)
      [] command = "connect" -> CmdStatus \o Linked(Head(flow.reports))
      [] OTHER -> CmdComplete(command, << >>)

\* What a request makes the peer send: an error, or the first entries of a
\* list that need not fit one reply.
Replies(request) ==
    LET peer == ctl.peer
        acl(data) == frame(H4Acl, Handle(peer), data)
        s == ServicesOf(peer)
    IN  {acl(<<1, 0, 0, 0, 10>>)} \cup
        CASE request = "mtu" -> {acl(<<3, 50>>)}
          [] request = "services" -> {acl(<<17, 3>> \o s[1]), acl(<<17, 3>> \o s[1] \o s[2])}
          [] request = "chars" -> {acl(<<9, 4, flow.svc[1] + 1, 2, flow.svc[2], 95>>)}
          [] request = "read" -> {acl(<<11, ValueOf(peer, flow.char)>>)}

\* The service has not exited.
Running == flow.at \notin {"failed", "done"}

\* Scanning is never switched off: reports go on until the controller stops.
Advertise ==
    /\ Running /\ ctl.scanning /\ ctl.advs < MaxAdvs
    /\ \E seq \in {<<x>> : x \in Peers} \cup SetToSeqs(Peers) :
          wire' = wire \o Advertising(seq)
    /\ ctl' = [ctl EXCEPT !.advs = @ + 1]
    /\ UNCHANGED <<rx, flow, cut, astray>>

EndScan ==
    /\ Running /\ ctl.scanning
    /\ wire' = wire \o frame(H4Evt, EvtLeMeta, <<ScanTimeout>>)
    /\ ctl' = [ctl EXCEPT !.scanning = FALSE]
    /\ UNCHANGED <<rx, flow, cut, astray>>

Arrive ==
    /\ Running /\ wire # << >>
    /\ rx' = Append(rx, Head(wire)) /\ wire' = Tail(wire)
    /\ UNCHANGED <<ctl, flow, cut, astray>>

-----------------------------------------------------------------------------
BtInit ==
    /\ wire = << >> /\ rx = << >> /\ cut = FALSE /\ astray = FALSE
    /\ ctl = [scanning |-> FALSE, advs |-> 0, peer |-> 0]
    /\ flow = [at |-> "reset", sent |-> FALSE, reports |-> << >>, peer |-> 0, mtu |-> 23,
               svc |-> << >>, char |-> 0, value |-> -1]

Go(f, stage) == [f EXCEPT !.at = stage, !.sent = FALSE]
Failed == Go(flow, "failed")
Onward(f) == Go(f, Stages[Index(f.at) + 1])

\* Any step that reads one frame; the ghost records reads out of step.
Reads(r, f) ==
    /\ rx' = r.rest /\ flow' = f
    /\ astray' = (astray \/ (rx # << >> /\ ~Head(rx).begins))
    /\ UNCHANGED <<wire, ctl>>

\* hci.go: a command is written, and answered by the controller.
SendCommand ==
    /\ flow.at \in Commands /\ ~flow.sent
    /\ flow' = [flow EXCEPT !.sent = TRUE]
    /\ wire' = wire \o Answers(flow.at)
    /\ ctl' = CASE flow.at = "enable" -> [ctl EXCEPT !.scanning = TRUE]
                [] flow.at = "connect" -> [ctl EXCEPT !.peer = Head(flow.reports)]
                [] OTHER -> ctl
    /\ UNCHANGED <<rx, cut, astray>>

\* Fault: a frame that could not be read is tried again.
commandFullAgain ==
    /\ flow.at \in Commands \ {"connect"} /\ flow.sent
    /\ LET r == readHCIEvent(rx)
           f == IF r.err # "none" THEN flow
                ELSE IF r.code # EvtCmdComplete THEN flow
                ELSE IF Len(r.data) < 3 THEN Failed
                ELSE IF r.data[2] # Opcode(flow.at) THEN flow
                ELSE IF r.data[3] # StatusOK \/ (flow.at = "bdaddr" /\ Len(r.data) < 4) THEN Failed
                ELSE Onward(flow)
       IN  Reads(r, f)
    /\ UNCHANGED cut

\* One turn of the loop of commandFull, with the checks of its caller.
commandFull ==
    /\ flow.at \in Commands \ {"connect"} /\ flow.sent
    /\ LET r == readHCIEvent(rx)
           f == IF r.err # "none" THEN Failed
                ELSE IF r.code # EvtCmdComplete THEN flow
                ELSE IF Len(r.data) < 3 THEN Failed
                ELSE IF r.data[2] # Opcode(flow.at) THEN flow
                ELSE IF r.data[3] # StatusOK \/ (flow.at = "bdaddr" /\ Len(r.data) < 4) THEN Failed
                ELSE Onward(flow)
       IN  Reads(r, f)
    /\ UNCHANGED cut

RECURSIVE parseAdvReports(_, _)
parseAdvReports(body, n) ==
    IF n = 0 THEN [ok |-> TRUE, addrs |-> << >>]
    ELSE IF Len(body) < 4 THEN [ok |-> FALSE, addrs |-> << >>]
    ELSE IF Len(body) < 5 + body[4] THEN [ok |-> FALSE, addrs |-> << >>]
    ELSE LET rest == parseAdvReports(SubSeq(body, 6 + body[4], Len(body)), n - 1)
         IN  [rest EXCEPT !.addrs = <<body[3]>> \o @]

\* Scan returned; Run gives up without a report and connects to the first.
ScanEnds(f) == IF f.reports = << >> THEN Failed ELSE Onward(f)

\* One turn of Scan's loop: every error ends the scan as if nothing was there.
Scan ==
    /\ flow.at = "scan"
    /\ LET r == readHCIEvent(rx)
           ad == parseAdvReports(SubSeq(r.data, 3, Len(r.data)), r.data[2])
           f == IF r.err # "none" THEN ScanEnds(flow)
                ELSE IF r.code # EvtLeMeta \/ r.data = << >> THEN flow
                ELSE IF r.data[1] = ScanTimeout THEN ScanEnds(flow)
                ELSE IF r.data[1] = AdvReport /\ Len(r.data) > 1 /\ ad.ok
                     THEN [flow EXCEPT !.reports = @ \o ad.addrs]
                ELSE flow
       IN  /\ Reads(r, f)
           /\ cut' = (cut \/ r.err = "truncated")

\* One turn of Connect's first loop: the command is accepted.
AwaitStatus ==
    /\ flow.at = "connect" /\ flow.sent
    /\ LET r == readHCIEvent(rx)
           f == IF r.err # "none" THEN Failed
                ELSE IF r.code = EvtCmdStatus /\ Len(r.data) >= 3 /\ r.data[2] = Opcode("connect")
                     THEN IF r.data[3] = StatusOK THEN Onward(flow) ELSE Failed
                ELSE flow
       IN  Reads(r, f)
    /\ UNCHANGED cut

\* One turn of its second: the link is there.
AwaitLink ==
    /\ flow.at = "complete"
    /\ LET r == readHCIEvent(rx)
           f == IF r.err # "none" THEN Failed
                ELSE IF r.code = EvtLeMeta /\ r.data # << >> /\ Head(r.data) = ConnComplete
                     THEN IF Len(r.data) >= 9 /\ r.data[2] = StatusOK
                          THEN Onward([flow EXCEPT !.peer = r.data[6]])
                          ELSE Failed
                ELSE flow
       IN  Reads(r, f)
    /\ UNCHANGED cut

\* The deadlines of Scan and Connect pass.
TimeUp ==
    /\ flow.at \in {"scan", "complete"} \/ (flow.at = "connect" /\ flow.sent)
    /\ flow' = IF flow.at = "scan" THEN ScanEnds(flow) ELSE Failed
    /\ UNCHANGED <<wire, rx, ctl, cut, astray>>

\* att.go sendATT: the request goes out, the peer answers.
SendATT ==
    /\ flow.at \in Requests /\ ~flow.sent
    /\ flow' = [flow EXCEPT !.sent = TRUE]
    /\ IF ctl.peer # 0 THEN \E reply \in Replies(flow.at) : wire' = wire \o reply ELSE UNCHANGED wire
    /\ UNCHANGED <<rx, ctl, cut, astray>>

\* DiscoverServices keeps the services of the kind asked for.
Matches(svc) == svc[3] = Battery

Entries(data, alen) == [i \in 1 .. (Len(data) - 2) \div alen |-> SubSeq(data, 3 + (i - 1) * alen, 2 + i * alen)]

\* What a reply with the expected opcode makes of the flow.
Learn(data) ==
    CASE flow.at = "mtu" ->
            IF Len(data) >= 2 /\ data[1] = 3 THEN Onward([flow EXCEPT !.mtu = IF data[2] < 23 THEN 23 ELSE data[2]])
            ELSE Failed
      [] flow.at = "services" ->
            IF Len(data) >= 2 /\ data[1] = 17 /\ data[2] >= 3 /\ Len(data) - 2 >= data[2]
            THEN LET svcs == SelectSeq(Entries(data, data[2]), Matches)
                 IN  IF svcs = << >> THEN Failed ELSE Onward([flow EXCEPT !.svc = Head(svcs)])
            ELSE Failed
      [] flow.at = "chars" ->
            IF Len(data) >= 2 /\ data[1] = 9 /\ data[2] >= 4
            THEN LET chars == Entries(data, data[2])
                 IN  IF chars = << >> THEN Failed ELSE Onward([flow EXCEPT !.char = Head(chars)[3]])
            ELSE Failed
      [] flow.at = "read" ->
            IF Len(data) >= 1 /\ data[1] = 11 THEN Onward([flow EXCEPT !.value = data[2]]) ELSE Failed

\* The next ACL frame is taken for the reply.
RecvATT ==
    /\ flow.at \in Requests /\ flow.sent
    /\ LET r == readACL(rx) IN Reads(r, IF r.err # "none" THEN Failed ELSE Learn(r.data))
    /\ UNCHANGED cut

BtNext ==
    \/ Advertise \/ EndScan \/ Arrive
    \/ SendCommand \/ commandFull \/ Scan \/ AwaitStatus \/ AwaitLink \/ TimeUp
    \/ SendATT \/ RecvATT

-----------------------------------------------------------------------------
\* services/bt bt_run.go Run: a cycle that ends well has read the battery level
\* of the peer that was reported first, and no frame was read from its middle,
\* unless a scan had ended on half a frame, which Scan does not tell.
GattReadIsRight ==
    \/ cut
    \/ /\ ~astray
       /\ flow.at = "done" => flow.peer = Head(flow.reports) /\ flow.value = Level[flow.peer]
=============================================================================
