------------------------------- MODULE MCNet -------------------------------
(***************************************************************************)
(* The parts of the net service, each at its own bounds: a behaviour       *)
(* belongs to one part, and the others stay in their initial states.       *)
(***************************************************************************)
EXTENDS Dhcp, NetStack, NetPort, WindowRing

VARIABLES
    part,
    tConn, tWire, tQueue, tWritten, tFaults

tcpVars == <<tConn, tWire, tQueue, tWritten, tFaults>>
vars == <<part, tcpVars, dhcpVars, stackVars, sockVars, windowVars>>

CONSTANTS Parts, TcpFaults

\* A client of each kind.
MCKind == [a |-> "udp", t |-> "tcp"]
MCPort == [a |-> 7, t |-> 80]

MCBytes == [e \in {"client", "server"} |-> IF e = "client" THEN 3 ELSE 1]

\* Sequence numbers wrap around within the first bytes.
Tcp == INSTANCE Tcp WITH
    MaxSeg <- 1, WindowCap <- 2, NumMod <- 16, ISS <- 13, Bytes <- MCBytes, MaxFaults <- TcpFaults,
    conn <- tConn, wire <- tWire, queue <- tQueue, written <- tWritten, faults <- tFaults

Init ==
    /\ part \in Parts
    /\ Tcp!Init /\ DhcpInit /\ StackInit /\ SockInit /\ WindowInit

TcpStep == part = "tcp" /\ Tcp!Next /\ UNCHANGED <<part, dhcpVars, stackVars, sockVars, windowVars>>
DhcpStep == part = "dhcp" /\ DhcpNext /\ UNCHANGED <<part, tcpVars, stackVars, sockVars, windowVars>>
StackStep == part = "stack" /\ StackNext /\ UNCHANGED <<part, tcpVars, dhcpVars, sockVars, windowVars>>
SockStep == part = "port" /\ SockNext /\ UNCHANGED <<part, tcpVars, dhcpVars, stackVars, windowVars>>
WindowStep == part = "ring" /\ WindowNext /\ UNCHANGED <<part, tcpVars, dhcpVars, stackVars, sockVars>>

Next == TcpStep \/ DhcpStep \/ StackStep \/ SockStep \/ WindowStep

Spec == Init /\ [][Next]_vars

\* The service pumps its frames.  Fairness is asked of a wire without faults
\* only: CloseTakesEffect promises nothing of the others.
FairSpec ==
    /\ Init /\ [][Next]_vars
    /\ \A e \in {"client", "server"} :
          WF_vars(part = "tcp" /\ tFaults = 0 /\ Tcp!Deliver(e, 1) /\ UNCHANGED <<part, dhcpVars, stackVars, sockVars, windowVars>>)

\* The types of all the parts.
NetTypeOK == Tcp!TypeOK /\ DhcpTypes /\ StackTypes /\ SockTypes

\* Tcp: what an end has received is a prefix of what the other has written.
StreamIsPrefix == Tcp!StreamIsPrefix
\* Tcp: bytes taken for acknowledged have reached the other end.
AckedHasArrived == Tcp!AckedHasArrived
\* Tcp: a FIN arrives after every byte written before it.
OrderlyCloseIsComplete == Tcp!OrderlyCloseIsComplete
\* Tcp: a close is told to the peer, but for the tail left in CLOSE-WAIT.
CloseTakesEffect == Tcp!CloseTakesEffect
\* Tcp: the same without the exception.
TailIsSent == Tcp!TailIsSent
=============================================================================
