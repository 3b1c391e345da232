------------------------------ MODULE Packets -------------------------------
(***************************************************************************)
(* The packet formats of the net service: the Internet checksum, IPv4 and  *)
(* ICMP (services/net/ip.go), Ethernet framing (eth.go), UDP (udp.go), the *)
(* options of a DHCP message (dhcp.go) and dotted addresses (arp.go).      *)
(* Each format is a pair of functions on sequences of bytes; an input is   *)
(* chosen once and the properties are about that input.                    *)
(*                                                                         *)
(* A byte is below Base and a word is two of them.  A header keeps the     *)
(* fields the parsers look at, one byte or word each.                      *)
(***************************************************************************)
EXTENDS Integers, SequencesExt

CONSTANTS
    Base,     \* values of a byte (256 in the code)
    EthPayloadM, \* the most a frame carries (1512 in the code)
    MinPad,   \* EthMinLen - EthHdrLen: payloads are padded to this
    IpLen,    \* bytes of an address in a DHCP option (4 in the code)
    Inputs    \* the inputs examined: records with a field "kind"

VARIABLE input

Word == Base * Base
Bad == [err |-> TRUE]
Zeros(n) == [i \in 1 .. n |-> 0]
From(s, n) == SubSeq(s, n, Len(s))

-----------------------------------------------------------------------------
(* The Internet checksum *)

RECURSIVE Fold(_)
Fold(sum) == IF sum < Word THEN sum ELSE Fold((sum % Word) + (sum \div Word))

RECURSIVE WordSum(_)
WordSum(b) == IF Len(b) = 0 THEN 0
              ELSE IF Len(b) = 1 THEN b[1] * Base
              ELSE b[1] * Base + b[2] + WordSum(From(b, 3))

Checksum(b) == Word - 1 - Fold(WordSum(b))

-----------------------------------------------------------------------------
(* IPv4: version, total length, fragment offset, ttl, protocol, checksum,  *)
(* source, destination                                                     *)

IP4HdrLen == 10
VersionIhl == 5

BuildIP4(p) ==
    LET ttl == IF p.ttl = 0 THEN 4 ELSE p.ttl
        hdr(sum) == <<VersionIhl, IP4HdrLen + Len(p.payload), 0, ttl, p.proto, 0,
                      sum \div Base, sum % Base, p.src, p.dst>>
    IN IF Len(p.payload) > EthPayloadM - IP4HdrLen THEN Bad ELSE hdr(Checksum(hdr(0))) \o p.payload

\* The payload ends where the length says: Ethernet pads short frames.
Payload(b) == SubSeq(b, IP4HdrLen + 1, b[2])

\* Fault: the checksum is not looked at.
ChecksIgnored(b) == Len(b) >= IP4HdrLen /\ b[1] = VersionIhl /\ b[2] \in IP4HdrLen .. Len(b) /\ b[3] = 0

Checks(b) ==
    /\ Len(b) >= IP4HdrLen
    /\ b[1] = VersionIhl
    /\ b[2] \in IP4HdrLen .. Len(b)
    /\ b[3] = 0
    /\ Checksum(SubSeq(b, 1, IP4HdrLen)) = 0

ParseIP4(b) ==
    IF ~Checks(b) THEN Bad
    ELSE [ttl |-> b[4], proto |-> b[5], src |-> b[9], dst |-> b[10], payload |-> Payload(b)]

\* BuildEth pads, ParseEth keeps the padding.
BuildEth(payload) ==
    payload \o (IF Len(payload) < MinPad THEN Zeros(MinPad - Len(payload)) ELSE <<>>)

-----------------------------------------------------------------------------
(* ICMP echo and UDP *)

BuildICMP(m) ==
    LET out(sum) == <<m.type, 0, sum \div Base, sum % Base, m.id, m.seq>> \o m.data
    IN out(Checksum(out(0)))

ParseICMP(b) ==
    IF Len(b) < 6 \/ Checksum(b) # 0 THEN Bad
    ELSE [type |-> b[1], id |-> b[5], seq |-> b[6], data |-> From(b, 7)]

BuildEchoReply(m) == BuildICMP([m EXCEPT !.type = 0])

UDPHdrLen == 5

\* The addresses and the length are summed as well, ahead of the segment; a
\* datagram between zero addresses goes unsummed.
PseudoHeader(d) == <<d.from, d.to, UDPHdrLen + Len(d.data)>>

BuildUDP(d) ==
    LET out(sum) == <<d.srcPort, d.dstPort, UDPHdrLen + Len(d.data), sum \div Base, sum % Base>> \o d.data
    IN IF d.from = 0 /\ d.to = 0 THEN out(0) ELSE out(Checksum(PseudoHeader(d) \o out(0)))

ParseUDP(b) ==
    IF Len(b) < UDPHdrLen THEN Bad
    ELSE IF b[3] < UDPHdrLen \/ b[3] > Len(b) THEN Bad
    ELSE [srcPort |-> b[1], dstPort |-> b[2], data |-> SubSeq(b, UDPHdrLen + 1, b[3])]

-----------------------------------------------------------------------------
(* DHCP options: 0 pads, 255 (here the largest byte) ends.  OptType must   *)
(* have length 1 and OptMask length IpLen; OptLease is taken only at that  *)
(* length; any other code is skipped.                                      *)

OptPad == 0
OptMask == 1
OptType == 2
OptLease == 3
OptHostname == 4
OptParamReqList == 5
OptEnd == Base - 1

NoOptions == [type |-> 0, mask |-> <<>>, lease |-> <<>>]

WrongLength(code, len) ==
    (code = OptType /\ len # 1) \/ (code = OptMask /\ len # IpLen)

WithOption(m, code, val) ==
    CASE code = OptType -> [m EXCEPT !.type = val[1]]
      [] code = OptMask -> [m EXCEPT !.mask = val]
      [] code = OptLease /\ Len(val) = IpLen -> [m EXCEPT !.lease = val]
      [] OTHER -> m

RECURSIVE ParseOptions(_, _)
ParseOptions(b, m) ==
    IF b = <<>> THEN Bad
    ELSE IF b[1] = OptPad THEN ParseOptions(Tail(b), m)
    ELSE IF b[1] = OptEnd THEN m
    ELSE IF Len(b) < 2 \/ (Len(b) >= 2 /\ 2 + b[2] > Len(b)) THEN Bad
    ELSE IF WrongLength(b[1], b[2]) THEN Bad
    ELSE ParseOptions(From(b, 3 + b[2]), WithOption(m, b[1], SubSeq(b, 3, 2 + b[2])))

dhcpOpt(code, val) == <<code, Len(val)>> \o val

DHCPDiscover == 1

\* The options of a DISCOVER: a host name or a parameter list that is empty is
\* left out.
BuildDiscover(hostname, params) ==
    LET given(code, val) == IF val = <<>> THEN <<>> ELSE dhcpOpt(code, val)
    IN  dhcpOpt(OptType, <<DHCPDiscover>>) \o given(OptHostname, hostname)
            \o given(OptParamReqList, params) \o <<OptEnd>>

\* The grammar: options are pads and complete entries up to the first end.
RECURSIVE Starts(_, _)
Starts(b, i) ==
    IF i > Len(b) \/ b[i] = OptEnd THEN {i}
    ELSE {i} \cup Starts(b, IF b[i] = OptPad THEN i + 1
                            ELSE IF i = Len(b) THEN i + 2 ELSE i + 2 + b[i + 1])

-----------------------------------------------------------------------------
(* Dotted addresses: decimal digits and dots *)

Dot == 10  \* not a digit

RECURSIVE Digits(_)
Digits(n) == IF n < 10 THEN <<n>> ELSE Append(Digits(n \div 10), n % 10)
String(ip) == Digits(ip[1]) \o <<Dot>> \o Digits(ip[2])
DotSplit(s) == LET dot == CHOOSE i \in DOMAIN s : s[i] = Dot
            IN <<SubSeq(s, 1, dot - 1), From(s, dot + 1)>>
Octet(p) == FoldLeft(LAMBDA v, d : v * 10 + d, 0, p)
ParseIP(s) ==
    IF \E k \in 1 .. 2 : LET p == DotSplit(s)[k] IN Len(p) \notin 1 .. 3 \/ Octet(p) > 255 THEN Bad
    ELSE <<Octet(DotSplit(s)[1]), Octet(DotSplit(s)[2])>>

-----------------------------------------------------------------------------
Init == input = [kind |-> "none"]
Pick == input.kind = "none" /\ input' \in Inputs
Next == Pick
Spec == Init /\ [][Next]_input

\* A datagram survives the wire: what the stack builds, framed and padded by
\* Ethernet, parses to the same datagram (a zero TTL becomes the default), a UDP
\* checksum covers the addresses, the options of a DISCOVER are read back whatever
\* bytes the host name holds, and a printed address parses to itself.
BuiltIsParsed ==
    /\ input.kind = "ip" =>
          LET b == BuildIP4(input.p) IN
          IF Len(input.p.payload) + IP4HdrLen > EthPayloadM THEN b = Bad
          ELSE ParseIP4(BuildEth(b)) = [input.p EXCEPT !.ttl = IF @ = 0 THEN 4 ELSE @]
    /\ input.kind = "icmp" => ParseICMP(BuildEchoReply(ParseICMP(BuildICMP(input.p))))
                                = [input.p EXCEPT !.type = 0]
    /\ input.kind = "udp" =>
          LET d == [srcPort |-> 1, dstPort |-> 2, data |-> input.p.payload]
              b == BuildUDP([from |-> input.p.src, to |-> input.p.dst] @@ d)
          IN /\ ParseUDP(b \o Zeros(2)) = d
             /\ ParseOptions(BuildDiscover(d.data, d.data), NoOptions)
                    = [NoOptions EXCEPT !.type = DHCPDiscover]
             /\ input.p.src + input.p.dst > 0 =>
                  Checksum(PseudoHeader([from |-> input.p.src, to |-> input.p.dst] @@ d) \o b) = 0
    /\ input.kind = "addr" => ParseIP(String(input.p)) = input.p

\* Damage is noticed: an IP header with one wrong byte is not taken for another
\* datagram, and a DHCP message "truncated mid-options" (dhcp.go) never passes:
\* an accepted one has an end at an option boundary, and every prefix that
\* stops before that end is refused.
DamageIsRejected ==
    /\ input.kind = "ip" /\ BuildIP4(input.p) # Bad =>
          \A i \in 1 .. IP4HdrLen : \A v \in 0 .. Base - 1 :
              LET b == BuildIP4(input.p) IN b[i] # v => ParseIP4([b EXCEPT ![i] = v]) = Bad
    /\ input.kind = "dhcp" =>
          LET b == input.b
              ends == {i \in Starts(b, 1) : i <= Len(b) /\ b[i] = OptEnd}
          IN /\ ParseOptions(b, NoOptions) # Bad => ends # {}
             /\ \A n \in 0 .. Len(b) : (\A i \in ends : n < i)
                   => ParseOptions(SubSeq(b, 1, n), NoOptions) = Bad
=============================================================================
