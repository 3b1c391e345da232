------------------------------ MODULE NetStack ------------------------------
(***************************************************************************)
(* Address resolution and echo in the net service's stack                  *)
(* (services/net/netstack.go, arp.go): one goroutine that pumps inbound    *)
(* frames under the lock hmu, handles each inline, and pumps again while a *)
(* call of its own waits for a reply.  The peers are external: the host    *)
(* "near" on the subnet, the gateway "gw", and "far" behind the gateway.   *)
(* A peer answers or its answer is lost.                                   *)
(*                                                                         *)
(* Frames that do not parse or are not for this host change nothing.       *)
(***************************************************************************)
EXTENDS Integers, Sequences, FiniteSets

CONSTANTS
    Budget,      \* polls of Resolve (2000) and of Ping (4000)
    IcmpInCap,   \* icmpInCap
    MaxWire,     \* bound on the frames waiting in the receive window
    MaxPings,    \* bound on the pings made
    MaxRestarts  \* bound on restarts of the service

ASSUME BudgetAssumption == Budget \in Nat

VARIABLES
    mask,      \* a lease has supplied a netmask and a gateway
    cache,     \* hosts in the ARP cache; entries never expire
    wire,      \* inbound frames
    icmpIn,    \* echo replies received, by ping number
    call,      \* the call the goroutine is making
    pings,     \* pings made: the sequence number of the last
    answered,  \* ghost: the ping each finished call returned a reply for
    known,     \* peers that have this host's MAC address (external)
    lost,      \* ghost: a peer learned of us from our request, its reply was lost
    stuck,     \* the goroutine waits for a lock it holds
    restarts

stackVars == <<mask, cache, wire, icmpIn, call, pings, answered, known, lost, stuck, restarts>>

Hosts == {"near", "gw"}
NoCall == [op |-> "idle", dst |-> "none", left |-> 0]

onLink(dst) == ~mask \/ dst # "far"
nextHop(dst) == IF onLink(dst) THEN dst ELSE "gw"
\* The next hop a peer's frames come from, whatever this host believes.
via(src) == IF src = "far" THEN "gw" ELSE src

Room == Len(wire) < MaxWire
Frame(kind, src, seq) == [kind |-> kind, src |-> src, seq |-> seq]

StackInit ==
    /\ mask = FALSE /\ cache = {} /\ wire = <<>> /\ icmpIn = <<>> /\ call = NoCall
    /\ pings = 0 /\ answered = <<>> /\ known = {} /\ lost = FALSE /\ stuck = FALSE /\ restarts = 0

\* sendIPv4 from a handler: Resolve calls pump, and pump locks hmu again.
respond(src) ==
    stuck' = (nextHop(src) \notin cache)

\* Fault: only replies are merged into the cache.
learnFromReply(f) == IF f.kind = "arpReply" THEN cache \cup {f.src} ELSE cache

\* Any ARP frame teaches its sender.
learn(f) == IF f.kind \in {"arpReply", "arpRequest"} THEN cache \cup {f.src} ELSE cache

\* A full icmpIn gives up its oldest reply.
keep(q) == IF Len(q) >= IcmpInCap THEN Tail(q) ELSE q

handleFrame(f) ==
    /\ cache' = learn(f)
    /\ \/ /\ f.kind = "arpRequest"
          /\ known' \in {known, known \cup {f.src}}
          /\ UNCHANGED <<icmpIn, stuck>>
       \/ /\ f.kind = "arpReply"
          /\ UNCHANGED <<known, icmpIn, stuck>>
       \/ /\ f.kind \in {"echoRequest", "tcp"}
          /\ respond(f.src)
          /\ UNCHANGED <<known, icmpIn>>
       \/ /\ f.kind = "echoReply"
          /\ icmpIn' = Append(keep(icmpIn), f.seq)
          /\ UNCHANGED <<known, stuck>>

\* pump takes one frame, if there is one.
pump ==
    \/ /\ wire # <<>>
       /\ wire' = Tail(wire)
       /\ handleFrame(Head(wire))
    \/ /\ wire = <<>>
       /\ UNCHANGED <<wire, cache, known, icmpIn, stuck>>

-----------------------------------------------------------------------------
\* The service loop between calls.
Serve ==
    /\ ~stuck /\ call = NoCall /\ wire # <<>> /\ pump
    /\ UNCHANGED <<mask, call, pings, answered, lost, restarts>>

\* A lease is adopted; its exchange is broadcast and teaches no peer.
AdoptLease ==
    /\ ~stuck /\ call = NoCall /\ ~mask /\ mask' = TRUE
    /\ UNCHANGED <<cache, wire, icmpIn, call, pings, answered, known, lost, stuck, restarts>>

\* The echo request goes out; the peer replies, or something is lost.
SendEcho(dst, seq) ==
    /\ call' = [op |-> "await", dst |-> dst, left |-> Budget]
    /\ wire' \in {wire} \cup
         IF Room /\ via(dst) \in known THEN {Append(wire, Frame("echoReply", dst, seq))} ELSE {}

\* Stack.Ping up to its first wait; the ARP request makes the peer know us.
Ping(dst) ==
    /\ ~stuck /\ call = NoCall /\ pings < MaxPings
    /\ pings' = pings + 1
    /\ \/ nextHop(dst) \in cache /\ SendEcho(dst, pings') /\ UNCHANGED <<known, lost>>
       \/ /\ nextHop(dst) \notin cache
          /\ call' = [op |-> "resolve", dst |-> dst, left |-> Budget]
          /\ \/ UNCHANGED <<known, wire, lost>>
             \/ /\ nextHop(dst) \in Hosts
                /\ known' = known \cup {nextHop(dst)}
                /\ \/ Room /\ wire' = Append(wire, Frame("arpReply", nextHop(dst), 0)) /\ UNCHANGED lost
                   \/ lost' = TRUE /\ UNCHANGED wire
    /\ UNCHANGED <<mask, cache, icmpIn, answered, stuck, restarts>>

\* A poll of Resolve: the cache, the budget, then one frame.
PollResolve ==
    /\ ~stuck /\ call.op = "resolve"
    /\ \/ /\ nextHop(call.dst) \in cache /\ call.left > 0
          /\ SendEcho(call.dst, pings)
          /\ UNCHANGED <<cache, known, icmpIn, stuck, pings>>
       \/ /\ call.left = 0 /\ call' = NoCall
          /\ UNCHANGED <<wire, cache, known, icmpIn, stuck, pings>>
       \/ /\ nextHop(call.dst) \notin cache /\ call.left > 0
          /\ call' = [call EXCEPT !.left = @ - 1]
          /\ pump
          /\ UNCHANGED pings
    /\ UNCHANGED <<mask, answered, lost, restarts>>

matches(j) == icmpIn[j] = pings

RemoveReply(j) == SubSeq(icmpIn, 1, j - 1) \o SubSeq(icmpIn, j + 1, Len(icmpIn))

\* A poll of Ping: the replies received, the budget, then one frame.
PollReply ==
    /\ ~stuck /\ call.op = "await"
    /\ \/ \E j \in DOMAIN icmpIn :
          /\ call.left > 0 /\ matches(j) /\ \A i \in 1 .. j - 1 : ~matches(i)
          /\ icmpIn' = RemoveReply(j)
          /\ answered' = Append(answered, <<pings, icmpIn[j]>>)
          /\ call' = NoCall
          /\ UNCHANGED <<wire, cache, known, stuck>>
       \/ /\ call.left = 0 /\ call' = NoCall
          /\ UNCHANGED <<wire, cache, known, icmpIn, stuck, answered>>
       \/ /\ call.left > 0 /\ \A j \in DOMAIN icmpIn : ~matches(j)
          /\ call' = [call EXCEPT !.left = @ - 1]
          /\ pump
          /\ UNCHANGED answered
    /\ UNCHANGED <<mask, pings, lost, restarts>>

\* A peer asks for this host's MAC address, or, knowing it, sends to it.
PeerAsks(h) ==
    /\ Room /\ wire' = Append(wire, Frame("arpRequest", h, 0))
    /\ UNCHANGED <<mask, cache, icmpIn, call, pings, answered, known, lost, stuck, restarts>>

PeerSends(src, kind) ==
    /\ Room /\ via(src) \in known /\ wire' = Append(wire, Frame(kind, src, 0))
    /\ UNCHANGED <<mask, cache, icmpIn, call, pings, answered, known, lost, stuck, restarts>>

\* The supervisor starts the service anew; the peers' tables stay.
RestartNet ==
    /\ restarts < MaxRestarts /\ restarts' = restarts + 1
    /\ mask' = FALSE /\ cache' = {} /\ icmpIn' = <<>> /\ call' = NoCall /\ stuck' = FALSE
    /\ UNCHANGED <<wire, pings, answered, known, lost>>

StackNext ==
    \/ Serve \/ AdoptLease \/ PollResolve \/ PollReply \/ RestartNet
    \/ \E dst \in {"near", "far"} : Ping(dst)
    \/ \E h \in Hosts : PeerAsks(h)
    \/ \E src \in {"near", "far"}, kind \in {"echoRequest", "tcp"} : PeerSends(src, kind)

StackSpec == StackInit /\ [][StackNext]_stackVars

-----------------------------------------------------------------------------
\* The receive window and the replies kept stay within their limits.
StackTypes ==
    /\ mask \in BOOLEAN /\ cache \subseteq Hosts /\ known \subseteq Hosts
    /\ Len(wire) <= MaxWire /\ Len(icmpIn) <= IcmpInCap
    /\ call.op \in {"idle", "resolve", "await"} /\ call.left \in 0 .. Budget

\* The service stops itself only while its tables are colder than its
\* peers': after a restart, without a netmask, or when the reply to its own
\* ARP request was lost.  Otherwise every peer that can reach it is in the
\* cache before its first datagram is handled.
StuckOnlyWhenCold == stuck => restarts > 0 \/ ~mask \/ lost

\* A ping returns the reply to that ping, never one to an earlier ping that
\* was given up.
RepliesMatch == \A i \in DOMAIN answered : answered[i][1] = answered[i][2]

=============================================================================
