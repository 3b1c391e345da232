-------------------------------- MODULE Dhcp --------------------------------
(***************************************************************************)
(* The DHCP client of the net service (services/net/dhcp.go, its callers   *)
(* in netport.go and main.go) against a server on a network that loses,    *)
(* delays and duplicates datagrams.  An exchange is DISCOVER, OFFER,       *)
(* REQUEST, ACK under one transaction id, each request sent at most Tries  *)
(* times; it runs at boot, when the lease is due and when a client of the  *)
(* net port asks for it.  Datagrams that do not parse are lost ones.       *)
(*                                                                         *)
(* The server is external.  It offers the address it has bound to the      *)
(* client while that binding runs, and any address otherwise.              *)
(***************************************************************************)
EXTENDS Integers, Sequences

CONSTANTS
    Addrs,       \* addresses the server gives out
    LeaseTime,   \* the granted lease, in clock ticks
    Tries,       \* renewTries
    BackoffInit, \* renewBackoffInitialMs
    BackoffMax,  \* renewBackoffMaxMs
    MaxNow,      \* bound on the clock
    MaxXid,      \* bound on the exchanges
    MaxFaults    \* bound on lost, late and duplicated datagrams

ASSUME LeaseTimeAssumption == LeaseTime \in Nat

VARIABLES
    now,        \* the kernel's millisecond clock, counted from boot
    ip,         \* Stack.IP: "static" until a lease is adopted
    lease,      \* NetServer.lease
    ex,         \* the exchange under way
    xid,        \* transaction ids used
    replies,    \* datagrams on their way to the client
    srv,        \* the server's binding for this client
    until,      \* ghost: how long the address in use was granted for
    renewals,   \* ghost: successful renewals by the service loop
    lastFail,   \* ghost: when the first of the present failures was
    faults

dhcpVars == <<now, ip, lease, ex, xid, replies, srv, until, renewals, lastFail, faults>>

NoLease == [granted |-> 0, next |-> 0, backoff |-> 0, fails |-> 0]
NoExchange == [phase |-> "idle", trig |-> "none", try |-> 0, offer |-> "none"]

\* A lease carries its length, not when it was granted.
NewLease(length) == [NoLease EXCEPT !.granted = length]
T1Ms(l) == l.granted \div 2
T2Ms(l) == (l.granted * 7) \div 8

Due(l, t) ==
    /\ l.granted # 0
    /\ ~(l.next # 0 /\ t < l.next)
    /\ t >= T2Ms(l) \/ t >= T1Ms(l)

\* A renewal that failed doubles the wait, up to the maximum.
RecordRenewFailure(l, t) ==
    LET b == IF l.backoff = 0 THEN BackoffInit
             ELSE IF 2 * l.backoff > BackoffMax THEN BackoffMax ELSE 2 * l.backoff
    IN [l EXCEPT !.fails = @ + 1, !.backoff = b, !.next = t + b]

Msg(type, id, addr, end) == [type |-> type, xid |-> id, addr |-> addr, until |-> end]

-----------------------------------------------------------------------------
DhcpInit ==
    /\ now = 0 /\ ip = "static" /\ lease = NoLease /\ ex = NoExchange /\ xid = 0
    /\ replies = <<>> /\ srv = [addr |-> "none", until |-> 0]
    /\ until = 0 /\ renewals = 0 /\ lastFail = 0 /\ faults = 0

Tick ==
    /\ now < MaxNow
    /\ now' = now + 1
    /\ UNCHANGED <<ip, lease, ex, xid, replies, srv, until, renewals, lastFail, faults>>

\* acquireLease at boot, the idle branch of ServeNetRenewing, NetOpRenew.
Begin(trig) ==
    /\ ex = NoExchange /\ xid < MaxXid
    /\ CASE trig = "boot" -> xid = 0
         [] trig = "auto" -> Due(lease, now)
         [] trig = "manual" -> lease # NoLease
    /\ xid' = xid + 1
    /\ ex' = [phase |-> "discover", trig |-> trig, try |-> 1, offer |-> "none"]
    /\ UNCHANGED <<now, ip, lease, replies, srv, until, renewals, lastFail, faults>>

\* The request and its reply, lost in either direction.
Exchange(phase, reply) ==
    /\ ex' = [ex EXCEPT !.phase = phase]
    /\ \/ replies' = Append(replies, reply) /\ UNCHANGED faults
       \/ faults < MaxFaults /\ faults' = faults + 1 /\ UNCHANGED replies
    /\ UNCHANGED <<now, ip, lease, xid, until, renewals, lastFail>>

SendDiscover ==
    /\ ex.phase = "discover"
    /\ \E a \in IF now < srv.until THEN {srv.addr} ELSE Addrs :
          Exchange("offer?", Msg("OFFER", xid, a, 0))
    /\ UNCHANGED srv

\* The server acknowledges what it offered, unless it has withdrawn it.
SendRequest ==
    /\ ex.phase = "request"
    /\ \/ /\ srv' = [addr |-> ex.offer, until |-> now + LeaseTime]
          /\ Exchange("ack?", Msg("ACK", xid, ex.offer, now + LeaseTime))
       \/ /\ faults < MaxFaults /\ faults' = faults + 1
          /\ replies' = Append(replies, Msg("NAK", xid, "none", 0))
          /\ ex' = [ex EXCEPT !.phase = "ack?"]
          /\ UNCHANGED <<now, ip, lease, xid, srv, until, renewals, lastFail>>

\* What the caller of DHCPAcquire does with an error.
Fail ==
    /\ ex' = NoExchange
    /\ lease' = IF ex.trig = "auto" THEN RecordRenewFailure(lease, now) ELSE lease
    /\ lastFail' = IF ex.trig = "auto" /\ lease.fails = 0 THEN now ELSE lastFail

Retry ==
    \/ /\ ex.try < Tries
       /\ ex' = [ex EXCEPT !.phase = IF @ = "offer?" THEN "discover" ELSE "request", !.try = @ + 1]
       /\ UNCHANGED <<lease, lastFail>>
    \/ ex.try = Tries /\ Fail

\* Fault: awaitDHCP takes any transaction's datagram.
OursAny(msg) == TRUE

Ours(msg) == msg.xid = xid

\* awaitDHCP hands over a datagram; another transaction's is ignored.
Await ==
    /\ replies # <<>> /\ ex.phase \in {"offer?", "ack?"}
    /\ replies' = Tail(replies)
    /\ LET msg == Head(replies)
       IN \/ /\ ~Ours(msg)
             /\ UNCHANGED <<ex, ip, lease, until, renewals, lastFail>>
          \/ /\ Ours(msg) /\ ex.phase = "offer?" /\ msg.type = "OFFER"
             /\ ex' = [ex EXCEPT !.phase = "request", !.try = 1, !.offer = msg.addr]
             /\ UNCHANGED <<ip, lease, until, renewals, lastFail>>
          \/ /\ Ours(msg) /\ ex.phase = "ack?" /\ msg.type = "ACK"
             /\ ip' = msg.addr
             /\ lease' = NewLease(LeaseTime)
             /\ until' = msg.until
             /\ renewals' = IF ex.trig = "auto" THEN renewals + 1 ELSE renewals
             /\ ex' = NoExchange /\ lastFail' = 0
          \/ /\ Ours(msg)
             /\ <<ex.phase, msg.type>> \notin {<<"offer?", "OFFER">>, <<"ack?", "ACK">>}
             /\ Retry
             /\ UNCHANGED <<ip, until, renewals>>
    /\ UNCHANGED <<now, xid, srv, faults>>

\* The budget of polls is spent; with a reply still to come, it is late.
TimeOut ==
    /\ ex.phase \in {"offer?", "ack?"}
    /\ \/ (\A i \in DOMAIN replies : replies[i].xid # xid) /\ UNCHANGED faults
       \/ (\E i \in DOMAIN replies : replies[i].xid = xid) /\ faults < MaxFaults /\ faults' = faults + 1
    /\ Retry
    /\ UNCHANGED <<now, ip, xid, replies, srv, until, renewals>>

\* Port 68 is bound only during an exchange.
Drop ==
    /\ ex = NoExchange /\ replies # <<>>
    /\ replies' = Tail(replies)
    /\ UNCHANGED <<now, ip, lease, ex, xid, srv, until, renewals, lastFail, faults>>

\* A second copy of a reply, behind all that is on the way.
Duplicate ==
    /\ replies # <<>> /\ faults < MaxFaults
    /\ replies' = Append(replies, Head(replies))
    /\ faults' = faults + 1
    /\ UNCHANGED <<now, ip, lease, ex, xid, srv, until, renewals, lastFail>>

DhcpNext ==
    \/ Tick \/ SendDiscover \/ SendRequest \/ Await \/ TimeOut \/ Drop \/ Duplicate
    \/ \E trig \in {"boot", "auto", "manual"} : Begin(trig)

DhcpSpec == DhcpInit /\ [][DhcpNext]_dhcpVars

-----------------------------------------------------------------------------
\* The types of the variables, at the bounds of the model.
DhcpTypes ==
    /\ now \in 0 .. MaxNow /\ ip \in Addrs \cup {"static"}
    /\ ex.phase \in {"idle", "discover", "offer?", "request", "ack?"} /\ ex.try \in 0 .. Tries
    /\ lease.backoff \in 0 .. BackoffMax /\ xid \in 0 .. MaxXid

\* While the lease the stack adopted is running, the server still has that
\* address bound to this client, for at least as long: no late, repeated or
\* foreign reply makes the stack use an address it was not given.
AddressIsGranted ==
    ip # "static" /\ now < until => srv.addr = ip /\ srv.until >= until

\* The retransmissions do their work: an exchange is given up only after as
\* many lost, late, repeated or refused datagrams as a request has tries.
RetransmitsCover ==
    lease.fails > 0 \/ (ex = NoExchange /\ xid > 0 /\ lease = NoLease) => faults >= Tries

\* The waits after n failures, while none has reached the maximum.
Waits(n) == IF n = 0 THEN 0 ELSE BackoffInit * (2 ^ n - 1)

\* Failed renewals of the service loop keep their distance: the k-th comes
\* after the k - 1 waits before it, each twice the last (up to the maximum).
BackoffSpacesFailures ==
    lease.fails > 0 /\ Waits(lease.fails - 1) <= BackoffMax
        => lease.next - lease.backoff >= lastFail + Waits(lease.fails - 1)

\* netport.go: a renewal "only runs once per lease period".
RenewedOncePerPeriod == renewals <= (2 * now) \div LeaseTime
=============================================================================
