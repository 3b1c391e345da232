------------------------------ MODULE NetPort -------------------------------
(***************************************************************************)
(* The socket service on the "net" port (services/net/netport.go, the UDP  *)
(* demultiplexer of udp.go, the listeners of tcp.go) and its clients       *)
(* (guests/lib/netclient.go over frame.go).  A client waits for the reply  *)
(* with the number of its request and may give up at any moment; the       *)
(* request is carried out all the same.                                    *)
(*                                                                         *)
(* Data are numbered by their source, a UDP port or a TCP connection, in   *)
(* the order they arrive.  A TCP connection is here only what its peer has *)
(* delivered; Tcp models the protocol below.                               *)
(***************************************************************************)
EXTENDS Integers, Sequences, FiniteSets, Functions

CONSTANTS
    Apps,      \* clients
    Kind,      \* [Apps -> {"udp", "tcp"}]: what each opens
    Port,      \* [Apps -> port numbers]
    MaxData,   \* bound on the data from one source
    MaxOpens,  \* bound on the sockets opened (nextID has 16 bits)
    MaxCalls,  \* bound on the requests of a client
    MaxGiveUps \* bound on the requests given up

ASSUME KindAssumption == Kind \in [Apps -> {"udp", "tcp"}]

VARIABLES
    sockets, nextID,  \* NetServer.sockets, nextID
    udp,              \* UDPDemux.ports: [port -> datagrams waiting]
    listeners,        \* TCPStack.conns: listening ports; the listener becomes the connection
    conns,            \* what each connection has delivered and not yet read
    reqs,             \* requests on the "net" port
    inbox,            \* the reply port of each client
    app,              \* the clients
    got,              \* ghost: the data each client has read
    sent,             \* ghost: how many data each source has produced
    since,            \* ghost: how many had been taken from each when a client made its last call
    giveups           \* ghost: requests given up

sockVars == <<sockets, nextID, udp, listeners, conns, reqs, inbox, app, got, sent, since, giveups>>

NoSock == 0
Fresh == [pc |-> "idle", sock |-> NoSock, seq |-> 0, accepted |-> FALSE]
Sources == {<<"port", Port[a]>> : a \in {x \in Apps : Kind[x] = "udp"}} \cup
           {<<"conn", Port[a]>> : a \in {x \in Apps : Kind[x] = "tcp"}}

SockInit ==
    /\ sockets = <<>> /\ nextID = 0 /\ udp = <<>> /\ listeners = <<>> /\ conns = <<>>
    /\ reqs = <<>> /\ inbox = [a \in Apps |-> <<>>] /\ app = [a \in Apps |-> Fresh]
    /\ got = [a \in Apps |-> <<>>] /\ sent = [s \in Sources |-> 0]
    /\ since = [a \in Apps |-> [s \in Sources |-> 0]] /\ giveups = 0

\* What waits at a source, and how much of it has been taken.
Waiting(s) == LET q == IF s[1] = "port" THEN udp ELSE conns
              IN IF s[2] \in DOMAIN q THEN Len(q[s[2]]) ELSE 0
Mark == [s \in Sources |-> sent[s] - Waiting(s)]

Put(f, k, v) == [x \in DOMAIN f \cup {k} |-> IF x = k THEN v ELSE f[x]]

-----------------------------------------------------------------------------
(* Clients *)

\* NetClient.call: a request under the client's next number.
Call(a, op, max) ==
    /\ app[a].pc = "idle" /\ app[a].seq < MaxCalls
    /\ max = 1 \/ (op = "recv" /\ Kind[a] = "tcp")
    /\ op = "open" => app[a].sock = NoSock /\ nextID + Len(reqs) < MaxOpens
    /\ op # "open" => app[a].sock # NoSock
    /\ app' = [app EXCEPT ![a].pc = op, ![a].seq = @ + 1]
    /\ reqs' = Append(reqs, [from |-> a, op |-> op, seq |-> app[a].seq + 1,
                             sock |-> app[a].sock, max |-> max])
    /\ since' = [since EXCEPT ![a] = Mark]
    /\ UNCHANGED <<sockets, nextID, udp, listeners, conns, inbox, got, sent, giveups>>

\* Fault: any reply is taken for the one awaited.
mineAny(a, rep) == TRUE

mine(a, rep) == rep.seq = app[a].seq

\* What a client makes of its reply: open, Recv, Close.  A read of no bytes
\* is how NetListener.Accept polls, and Recv reports it as ErrNetState.
Returned(a, rep) ==
    CASE rep.op = "open" /\ rep.st = 0 -> [app[a] EXCEPT !.pc = "idle", !.sock = rep.sock]
      [] rep.op = "close" /\ rep.st = 0 -> [app[a] EXCEPT !.pc = "idle", !.sock = NoSock]
      [] rep.op = "recv" /\ rep.st = 0 /\ rep.max = 0 ->
            [app[a] EXCEPT !.pc = "idle", !.accepted = rep.data # <<>>]
      [] OTHER -> [app[a] EXCEPT !.pc = "idle"]

\* recvMatch: the matching reply is taken, any other is dropped.
Reply(a) ==
    /\ app[a].pc # "idle" /\ inbox[a] # <<>>
    /\ LET rep == Head(inbox[a])
       IN IF mine(a, rep)
          THEN /\ app' = [app EXCEPT ![a] = Returned(a, rep)]
               /\ got' = [got EXCEPT ![a] = @ \o rep.data]
          ELSE UNCHANGED <<app, got>>
    /\ inbox' = [inbox EXCEPT ![a] = Tail(@)]
    /\ UNCHANGED <<sockets, nextID, udp, listeners, conns, reqs, sent, since, giveups>>

\* The budget of yields is spent before the reply comes.
GiveUp(a) ==
    /\ app[a].pc # "idle" /\ giveups < MaxGiveUps
    /\ app' = [app EXCEPT ![a].pc = "idle"]
    /\ giveups' = giveups + 1
    /\ UNCHANGED <<sockets, nextID, udp, listeners, conns, reqs, inbox, got, sent, since>>

-----------------------------------------------------------------------------
(* The service: dispatch, one request at a time *)

Answer(r, st, sock, data) ==
    inbox' = [inbox EXCEPT ![r.from] = Append(@,
        [op |-> r.op, seq |-> r.seq, max |-> r.max, st |-> st, sock |-> sock, data |-> data])]

Listening(p) == p \in DOMAIN listeners

Bind(p) == IF p \in DOMAIN udp THEN udp ELSE Put(udp, p, <<>>)

\* OPEN: a second listener on a port is refused; a UDP port is shared.
dispatchOpen(r) ==
    LET p == Port[r.from] IN
    /\ IF Kind[r.from] = "tcp" /\ Listening(p)
       THEN Answer(r, -3, NoSock, <<>>) /\ UNCHANGED <<sockets, nextID, udp, listeners>>
       ELSE /\ nextID' = nextID + 1
            /\ sockets' = Put(sockets, nextID + 1, [kind |-> Kind[r.from], port |-> p, tcp |-> FALSE])
            /\ IF Kind[r.from] = "udp"
               THEN udp' = Bind(p) /\ UNCHANGED listeners
               ELSE listeners' = Put(listeners, p, "listen") /\ UNCHANGED udp
            /\ Answer(r, 0, nextID + 1, <<>>)
    /\ UNCHANGED conns

First(q, n) == IF n = 0 \/ q = <<>> THEN <<>> ELSE <<Head(q)>>

Rest(q, n) == IF n = 0 \/ q = <<>> THEN q ELSE Tail(q)

\* RECV: a listening socket first takes over the accepted connection.  One
\* without a connection is answered like one with nothing to read: errState is
\* overwritten before the reply.
dispatchRecv(r) ==
    /\ UNCHANGED nextID
    /\ \/ /\ r.sock \notin DOMAIN sockets
          /\ Answer(r, -1, NoSock, <<>>) /\ UNCHANGED <<sockets, udp, listeners, conns>>
       \/ /\ r.sock \in DOMAIN sockets /\ sockets[r.sock].kind = "udp"
          /\ LET p == sockets[r.sock].port
             IN /\ Answer(r, 0, NoSock, First(udp[p], r.max))
                /\ udp' = [udp EXCEPT ![p] = Rest(@, r.max)]
          /\ UNCHANGED <<sockets, listeners, conns>>
       \/ /\ r.sock \in DOMAIN sockets /\ sockets[r.sock].kind = "tcp"
          /\ LET p == sockets[r.sock].port
                 c == listeners[p] = "queued" \/ sockets[r.sock].tcp
             IN /\ listeners' = [listeners EXCEPT ![p] = IF @ = "queued" THEN "taken" ELSE @]
                /\ sockets' = [sockets EXCEPT ![r.sock].tcp = c]
                /\ IF ~c
                   THEN Answer(r, 0, NoSock, <<>>) /\ UNCHANGED conns
                   ELSE /\ Answer(r, 0, NoSock, First(conns[p], r.max))
                        /\ conns' = [conns EXCEPT ![p] = Rest(@, r.max)]
          /\ UNCHANGED udp

\* CLOSE forgets the socket; its UDP port or listener stays bound.
dispatchClose(r) ==
    /\ sockets' = Restrict(sockets, DOMAIN sockets \ {r.sock})
    /\ Answer(r, IF r.sock \in DOMAIN sockets THEN 0 ELSE -1, NoSock, <<>>)
    /\ UNCHANGED <<nextID, udp, listeners, conns>>

Dispatch ==
    /\ reqs # <<>> /\ reqs' = Tail(reqs)
    /\ \/ Head(reqs).op = "open" /\ dispatchOpen(Head(reqs))
       \/ Head(reqs).op = "recv" /\ dispatchRecv(Head(reqs))
       \/ Head(reqs).op = "close" /\ dispatchClose(Head(reqs))
    /\ UNCHANGED <<app, got, sent, since, giveups>>

-----------------------------------------------------------------------------
(* The network *)

\* UDPDemux.handle: a datagram to an unbound port is dropped.
Datagram(p) ==
    LET s == <<"port", p>> IN
    /\ p \in DOMAIN udp /\ sent[s] < MaxData
    /\ sent' = [sent EXCEPT ![s] = @ + 1]
    /\ udp' = [udp EXCEPT ![p] = Append(@, <<s, sent[s] + 1>>)]
    /\ UNCHANGED <<sockets, nextID, listeners, conns, reqs, inbox, app, got, since, giveups>>

\* A handshake completes on a listener.
Connected(p) ==
    /\ Listening(p) /\ listeners[p] = "listen"
    /\ conns' = Put(conns, p, <<>>)
    /\ listeners' = [listeners EXCEPT ![p] = "queued"]
    /\ UNCHANGED <<sockets, nextID, udp, reqs, inbox, app, got, sent, since, giveups>>

Stream(p) ==
    LET s == <<"conn", p>> IN
    /\ p \in DOMAIN conns /\ sent[s] < MaxData
    /\ sent' = [sent EXCEPT ![s] = @ + 1]
    /\ conns' = [conns EXCEPT ![p] = Append(@, <<s, sent[s] + 1>>)]
    /\ UNCHANGED <<sockets, nextID, udp, listeners, reqs, inbox, app, got, since, giveups>>

SockNext ==
    \/ \E a \in Apps, op \in {"open", "recv", "close"}, max \in 0 .. 1 :
          Call(a, op, max)
    \/ \E a \in Apps : Reply(a) \/ GiveUp(a)
    \/ Dispatch
    \/ \E p \in DOMAIN udp : Datagram(p)
    \/ \E p \in DOMAIN listeners : Connected(p)
    \/ \E p \in DOMAIN conns : Stream(p)

SockSpec == SockInit /\ [][SockNext]_sockVars

-----------------------------------------------------------------------------
\* The types of the variables, at the bounds of the model.
SockTypes ==
    /\ nextID \in 0 .. MaxOpens /\ DOMAIN sockets \subseteq 1 .. nextID
    /\ \A a \in Apps : app[a].sock \in 0 .. nextID
    /\ \A i \in DOMAIN sockets : sockets[i].tcp => sockets[i].port \in DOMAIN conns

Read(s) == {n \in 1 .. MaxData : \E a \in Apps : \E i \in DOMAIN got[a] : got[a][i] = <<s, n>>}
InReply(s) == {n \in 1 .. MaxData : \E a \in Apps : \E i \in DOMAIN inbox[a] :
                 inbox[a][i].data = <<<<s, n>>>>}

\* Every client reads what came from one source in the order it came, and
\* nothing twice; and what a read returns was taken from its queue for that
\* read, after it was asked for, not for one the client gave up on before.
ReadsInOrder ==
    /\ [](\A a \in Apps : \A i, j \in DOMAIN got[a] :
              i < j /\ got[a][i][1] = got[a][j][1] => got[a][i][2] < got[a][j][2])
    /\ [][\A a \in Apps : got'[a] # got[a] =>
              LET d == got'[a][Len(got'[a])] IN since[a][d[1]] < d[2]]_sockVars

\* Data that arrived are waiting, on their way to a client, or read, but for
\* the replies to reads that were given up.
LostOnlyByGivingUp ==
    \A s \in Sources :
        sent[s] - Waiting(s) - Cardinality(Read(s) \cup InReply(s)) <= giveups

\* A socket nobody holds was opened, or its close asked for, by a request
\* that was given up or is still under way.
SocketsAreHeld ==
    Cardinality(DOMAIN sockets) <=
        Cardinality({a \in Apps : app[a].sock # NoSock})
        + Cardinality({a \in Apps : app[a].pc = "open"}) + giveups

\* netclient.go: "Accept blocks until a handshake completes; returns a
\* NetConn": once the service has taken the connection over, a poll of
\* Accept finds it.
AcceptFindsConnection ==
    [][\A a \in Apps : Reply(a) /\ mine(a, Head(inbox[a])) /\ Head(inbox[a]).op = "recv"
          /\ Head(inbox[a]).max = 0 /\ listeners[Port[a]] = "taken" => app'[a].accepted]_sockVars
=============================================================================
