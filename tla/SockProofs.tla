----------------------------- MODULE SockProofs -----------------------------
(***************************************************************************)
(* The sockets of the net service: for every set of clients and ports, a   *)
(* client reads what came for it in the order it came.                     *)
(***************************************************************************)
EXTENDS NetPort, TLAPS

Datum == Sources \X Nat

\* Datum d comes before datum e, if they are of one source.
Before(d, e) == d[1] = e[1] => d[2] < e[2]

\* What one client has read (g) and has on its reply port (b) is in order, and
\* nothing of it is newer than the marks m, one for each source.
InOrder(g, b, m) ==
    /\ \A i \in DOMAIN g : g[i][2] <= m[g[i][1]]
    /\ \A i \in DOMAIN b, d \in Datum : b[i].data = <<d>> => d[2] <= m[d[1]]
    /\ \A i, j \in DOMAIN g : i < j => Before(g[i], g[j])
    /\ \A i \in DOMAIN g, j \in DOMAIN b, d \in Datum : b[j].data = <<d>> => Before(g[i], d)
    /\ \A i, j \in DOMAIN b, d, e \in Datum :
          i < j /\ b[i].data = <<d>> /\ b[j].data = <<e>> => Before(d, e)

Answers == [op : {"open", "recv", "close"}, seq : Nat, max : 0 .. 1, st : {-3, -1, 0},
            sock : Nat, data : {<<>>} \cup {<<d>> : d \in Datum}]

\* recvMatch drops a reply, or the client reads what is in it.
LEMMA ReplyInOrder ==
    ASSUME NEW g \in Seq(Datum), NEW b \in Seq(Answers), NEW m \in [Sources -> Nat],
           b # <<>>, InOrder(g, b, m)
    PROVE  /\ InOrder(g, Tail(b), m)
           /\ g \o Head(b).data \in Seq(Datum) /\ InOrder(g \o Head(b).data, Tail(b), m)
  <1> DEFINE t == Tail(b)
  <1>0. Len(b) \in Nat /\ Len(b) # 0
    OBVIOUS
  <1>1. PICK k \in Nat : Len(b) = k + 1
    <2>1. Len(b) - 1 \in Nat /\ Len(b) = (Len(b) - 1) + 1
      BY <1>0
    <2> QED
      BY <2>1, Zenon
  <1>2. t \in Seq(Answers) /\ DOMAIN t = 1 .. k /\ DOMAIN b = 1 .. k + 1
    BY <1>1
  <1>3. \A i \in 1 .. k : t[i] = b[i + 1] /\ i + 1 \in DOMAIN b
    BY <1>1, <1>2
  <1> HIDE DEF t
  <1>4. InOrder(g, t, m)
    <2>1. \A i \in DOMAIN t, d \in Datum : t[i].data = <<d>> => d[2] <= m[d[1]]
      <3> SUFFICES ASSUME NEW i \in 1 .. k, NEW d \in Datum, t[i].data = <<d>>
                   PROVE  d[2] <= m[d[1]]
        BY <1>2, Zenon
      <3>1. i + 1 \in DOMAIN b /\ b[i + 1].data = <<d>>
        BY <1>3, SMTT(60)
      <3> QED
        BY <3>1, Zenon DEF InOrder
    <2>2. \A i \in DOMAIN g, j \in DOMAIN t, d \in Datum : t[j].data = <<d>> => Before(g[i], d)
      BY <1>2, <1>3, ZenonT(60) DEF InOrder
    <2>3. \A i, j \in DOMAIN t, d, e \in Datum :
              i < j /\ t[i].data = <<d>> /\ t[j].data = <<e>> => Before(d, e)
      <3> SUFFICES ASSUME NEW i \in DOMAIN t, NEW j \in DOMAIN t, NEW d \in Datum, NEW e \in Datum,
                          i < j, t[i].data = <<d>>, t[j].data = <<e>>
                   PROVE  Before(d, e)
        OBVIOUS
      <3>1. i + 1 < j + 1 /\ b[i + 1].data = <<d>> /\ b[j + 1].data = <<e>>
            /\ i + 1 \in DOMAIN b /\ j + 1 \in DOMAIN b
        BY <1>2, <1>3, SMTT(60)
      <3> QED
        BY <3>1, SMTT(60) DEF InOrder
    <2> QED
      BY <2>1, <2>2, <2>3, SMTT(60) DEF InOrder
  <1>5. Head(b) = b[1] /\ b[1] \in Answers /\ 1 \in DOMAIN b
    BY <1>1, <1>2
  <1>6. CASE b[1].data = <<>>
    <2>1. g \o Head(b).data = g
      BY <1>5, <1>6
    <2> QED
      BY <1>4, <2>1, Zenon DEF t
  <1>7. ASSUME NEW d \in Datum, b[1].data = <<d>>
        PROVE  g \o <<d>> \in Seq(Datum) /\ InOrder(g \o <<d>>, t, m)
    <2> DEFINE h == g \o <<d>>
    <2>1. PICK l \in Nat : l = Len(g) /\ DOMAIN g = 1 .. l
      OBVIOUS
    <2>2. h \in Seq(Datum) /\ DOMAIN h = 1 .. l + 1
      BY <2>1
    <2>3. h[l + 1] = d /\ \A i \in 1 .. l : h[i] = g[i]
      BY <2>1
    <2> HIDE DEF h
    <2>4. \A i \in DOMAIN h : (i \in DOMAIN g /\ h[i] = g[i]) \/ (i = l + 1 /\ h[i] = d)
      BY <2>1, <2>2, <2>3
    <2>5. \A i \in DOMAIN h : h[i][2] <= m[h[i][1]]
      BY <1>5, <1>7, <2>4, SMTT(60) DEF InOrder
    <2>6. \A i, j \in DOMAIN h : i < j => Before(h[i], h[j])
      <3> SUFFICES ASSUME NEW i \in DOMAIN h, NEW j \in DOMAIN h, i < j
                   PROVE  Before(h[i], h[j])
        OBVIOUS
      <3>1. i \in 1 .. l /\ i \in DOMAIN g /\ h[i] = g[i]
        BY <2>1, <2>2, <2>3, SMTT(60)
      <3> QED
        BY <1>5, <1>7, <2>4, <3>1 DEF InOrder
    <2>7. \A i \in DOMAIN h, j \in DOMAIN t, e \in Datum : t[j].data = <<e>> => Before(h[i], e)
      <3> SUFFICES ASSUME NEW i \in DOMAIN h, NEW j \in 1 .. k, NEW e \in Datum, t[j].data = <<e>>
                   PROVE  Before(h[i], e)
        BY <1>2, Zenon
      <3>1. j + 1 \in DOMAIN b /\ 1 < j + 1 /\ b[j + 1].data = <<e>>
        BY <1>3, SMTT(60)
      <3> QED
        BY <1>5, <1>7, <2>4, <3>1, Zenon DEF InOrder
    <2>8. InOrder(h, t, m)
      BY <1>4, <2>5, <2>6, <2>7, Zenon DEF InOrder
    <2> QED
      BY <2>2, <2>8 DEF h
  <1>8. b[1].data = <<>> \/ \E d \in Datum : b[1].data = <<d>>
    BY <1>5 DEF Answers
  <1> QED
    BY <1>4, <1>5, <1>6, <1>7, <1>8, Zenon DEF t

\* A reply without data goes to the end of the port; so does one with the datum
\* that comes next, and its mark moves on.
LEMMA AnswerInOrder ==
    ASSUME NEW g \in Seq(Datum), NEW b \in Seq(Answers), NEW m \in [Sources -> Nat],
           InOrder(g, b, m), NEW r \in Answers, NEW n \in [Sources -> Nat],
           \/ r.data = <<>> /\ n = m
           \/ \E s \in Sources : r.data = <<<<s, m[s] + 1>>>> /\ n = [m EXCEPT ![s] = @ + 1]
    PROVE  Append(b, r) \in Seq(Answers) /\ InOrder(g, Append(b, r), n)
  <1> DEFINE c == Append(b, r)
  <1>1. PICK k \in Nat : k = Len(b) /\ DOMAIN b = 1 .. k
    OBVIOUS
  <1>2. c \in Seq(Answers) /\ DOMAIN c = 1 .. k + 1
    BY <1>1
  <1>3. c[k + 1] = r /\ \A i \in 1 .. k : c[i] = b[i]
    BY <1>1
  <1> HIDE DEF c
  <1>4. \A i \in DOMAIN c : (i \in DOMAIN b /\ c[i] = b[i]) \/ (i = k + 1 /\ c[i] = r)
    BY <1>1, <1>2, <1>3
  <1>5. \A i, j \in DOMAIN c : i < j => i \in DOMAIN b /\ c[i] = b[i]
    BY <1>1, <1>2, <1>3
  <1>6. \A s \in Sources : m[s] <= n[s]
    OBVIOUS
  <1>7. \A d \in Datum : d[1] \in Sources /\ d[2] \in Nat
    BY DEF Datum
  <1>8. \A d \in Datum : d[2] <= m[d[1]] => d[2] <= n[d[1]]
    BY <1>6, <1>7
  <1>9. \A d \in Datum : r.data = <<d>> =>
            d[2] <= n[d[1]] /\ \A e \in Datum : e[2] <= m[e[1]] => Before(e, d)
    BY <1>7 DEF Before
  <1>10. \A i \in DOMAIN g : g[i] \in Datum
    BY SMTT(60)
  <1>11. \A i \in DOMAIN g : g[i][2] <= n[g[i][1]]
    BY <1>8, <1>10, SMTT(60) DEF InOrder
  <1>12. \A i \in DOMAIN c, d \in Datum : c[i].data = <<d>> => d[2] <= n[d[1]]
    BY <1>4, <1>8, <1>9, Zenon DEF InOrder
  <1>13. \A i \in DOMAIN g, j \in DOMAIN c, d \in Datum : c[j].data = <<d>> => Before(g[i], d)
    BY <1>4, <1>9, <1>10, Zenon DEF InOrder
  <1>14. \A i, j \in DOMAIN c, d, e \in Datum :
          i < j /\ c[i].data = <<d>> /\ c[j].data = <<e>> => Before(d, e)
    BY <1>4, <1>5, <1>9, ZenonT(60) DEF InOrder
  <1>15. InOrder(g, c, n)
    BY <1>11, <1>12, <1>13, <1>14, SMTT(60) DEF InOrder
  <1> QED
    BY <1>2, <1>15 DEF c

\* Queue q holds the last of the n data that source s has produced, in order.
Tails(s, n, q) == /\ q \in Seq(Datum) /\ Len(q) <= n
                  /\ \A i \in 1 .. Len(q) : q[i] = <<s, n - Len(q) + i>>

SockTypeOK ==
    /\ sockets \in [DOMAIN sockets -> [kind : {"udp", "tcp"}, port : {Port[a] : a \in Apps}, tcp : BOOLEAN]]
    /\ \A i \in DOMAIN sockets :
          /\ sockets[i].kind = "udp" => sockets[i].port \in DOMAIN udp
          /\ sockets[i].kind = "tcp" => sockets[i].port \in DOMAIN listeners
          /\ sockets[i].tcp => sockets[i].port \in DOMAIN conns
    /\ nextID \in Nat
    /\ \A p \in DOMAIN udp : <<"port", p>> \in Sources
    /\ \A p \in DOMAIN listeners : <<"conn", p>> \in Sources /\ (listeners[p] # "listen" <=> p \in DOMAIN conns)
    /\ \A p \in DOMAIN conns : p \in DOMAIN listeners
    /\ reqs \in Seq([from : Apps, op : {"open", "recv", "close"}, seq : Nat, sock : Nat, max : 0 .. 1])
    /\ inbox \in [Apps -> Seq(Answers)]
    /\ app \in [Apps -> [pc : {"idle", "open", "recv", "close"}, sock : Nat, seq : Nat, accepted : BOOLEAN]]
    /\ got \in [Apps -> Seq(Datum)]
    /\ sent \in [Sources -> Nat]

SockInv ==
    /\ SockTypeOK
    /\ \A p \in DOMAIN udp : Tails(<<"port", p>>, sent[<<"port", p>>], udp[p])
    /\ \A p \in DOMAIN conns : Tails(<<"conn", p>>, sent[<<"conn", p>>], conns[p])
    /\ \A a \in Apps : InOrder(got[a], inbox[a], Mark)

\* What waits for a source, by the kind of the source.
LEMMA WaitingIs ==
    ASSUME NEW x
    PROVE  /\ Waiting(<<"port", x>>) = IF x \in DOMAIN udp THEN Len(udp[x]) ELSE 0
           /\ Waiting(<<"conn", x>>) = IF x \in DOMAIN conns THEN Len(conns[x]) ELSE 0
           /\ Waiting(<<"port", x>>)' = IF x \in DOMAIN udp' THEN Len(udp'[x]) ELSE 0
           /\ Waiting(<<"conn", x>>)' = IF x \in DOMAIN conns' THEN Len(conns'[x]) ELSE 0
  BY DEF Waiting

LEMMA MarkIsNat == ASSUME SockInv PROVE Mark \in [Sources -> Nat]
  <1> SUFFICES ASSUME NEW s \in Sources PROVE sent[s] - Waiting(s) \in Nat
    BY DEF Mark
  <1>1. sent[s] \in Nat
    BY DEF SockInv, SockTypeOK
  <1>2. \E p : s = <<"port", p>> \/ s = <<"conn", p>>
    BY DEF Sources
  <1>3. PICK p : s = <<"port", p>> \/ s = <<"conn", p>>
    BY <1>2
  <1>4. CASE s = <<"port", p>>
    BY <1>1, <1>4 DEF SockInv, Tails, Waiting
  <1>5. CASE s = <<"conn", p>>
    BY <1>1, <1>5 DEF SockInv, Tails, Waiting
  <1> QED
    BY <1>3, <1>4, <1>5

LEMMA TailsShrinks ==
    ASSUME NEW s \in Sources, NEW n \in Nat, NEW q, Tails(s, n, q), q # <<>>
    PROVE  /\ Head(q) = <<s, (n - Len(q)) + 1>> /\ Head(q) \in Datum
           /\ Tails(s, n, Tail(q)) /\ Len(Tail(q)) = Len(q) - 1
  <1>1. q \in Seq(Datum) /\ Len(q) \in Nat /\ Len(q) # 0 /\ Len(q) <= n
    BY DEF Tails
  <1>2. Len(q) - 1 \in Nat
    BY <1>1
  <1>3. PICK k \in Nat : k = Len(q) - 1
    BY <1>2, Zenon
  <1> DEFINE t == Tail(q)
  <1>4. t \in Seq(Datum) /\ Len(t) = k /\ \A i \in 1 .. k : t[i] = q[i + 1]
    BY <1>1, <1>3
  <1> HIDE DEF t
  <1>5. ASSUME NEW i \in 1 .. k PROVE t[i] = <<s, n - k + i>>
    <2>1. i + 1 \in 1 .. Len(q) /\ n - Len(q) + (i + 1) = n - k + i
      BY <1>1, <1>3
    <2>2. q[i + 1] = <<s, n - Len(q) + (i + 1)>>
      BY <2>1 DEF Tails
    <2> QED
      BY <1>4, <2>1, <2>2, SMTT(60)
  <1>6. Tails(s, n, t)
    BY <1>1, <1>3, <1>4, <1>5 DEF Tails
  <1>7. 1 \in 1 .. Len(q) /\ Head(q) = q[1] /\ q[1] \in Datum
    BY <1>1
  <1>8. Head(q) = <<s, (n - Len(q)) + 1>>
    BY <1>7 DEF Tails
  <1> QED
    BY <1>3, <1>4, <1>6, <1>7, <1>8 DEF t

LEMMA TailsGrows ==
    ASSUME NEW s \in Sources, NEW n \in Nat, NEW q, Tails(s, n, q)
    PROVE  Tails(s, n + 1, Append(q, <<s, n + 1>>)) /\ Len(Append(q, <<s, n + 1>>)) = Len(q) + 1
  <1> DEFINE d == <<s, n + 1>>
             t == Append(q, d)
  <1>1. q \in Seq(Datum) /\ Len(q) \in Nat /\ Len(q) <= n
    BY DEF Tails
  <1>2. PICK k \in Nat : k = Len(q)
    BY <1>1
  <1>3. d \in Datum
    BY DEF Datum
  <1> HIDE DEF d
  <1>4. t \in Seq(Datum) /\ Len(t) = k + 1 /\ t[k + 1] = d /\ \A i \in 1 .. k : t[i] = q[i]
    BY <1>1, <1>2, <1>3
  <1> HIDE DEF t
  <1>5. ASSUME NEW i \in 1 .. k + 1 PROVE t[i] = <<s, (n + 1) - (k + 1) + i>>
    <2>1. CASE i = k + 1
      <3>1. (n + 1) - (k + 1) + i = n + 1
        BY <2>1
      <3> QED
        BY <1>4, <2>1, <3>1 DEF d
    <2>2. CASE i \in 1 .. k
      <3>1. (n + 1) - (k + 1) + i = n - k + i
        BY <2>2
      <3>2. q[i] = <<s, n - k + i>>
        BY <1>2, <2>2 DEF Tails
      <3> QED
        BY <1>4, <2>2, <3>1, <3>2
    <2> QED
      BY <2>1, <2>2
  <1>6. Tails(s, n + 1, t)
    BY <1>1, <1>2, <1>4, <1>5, SMTT(60) DEF Tails
  <1> QED
    BY <1>2, <1>4, <1>6 DEF t, d

LEMMA MarksGrow ==
    ASSUME NEW g \in Seq(Datum), NEW b \in Seq(Answers), InOrder(g, b, Mark),
           NEW n \in [Sources -> Nat], Mark \in [Sources -> Nat],
           \A s \in Sources : Mark[s] <= n[s]
    PROVE  InOrder(g, b, n)
  <1>1. \A d \in Datum : d[1] \in Sources /\ d[2] \in Nat
    BY DEF Datum
  <1>2. \A d \in Datum : d[2] <= Mark[d[1]] => d[2] <= n[d[1]]
    BY <1>1
  <1>3. \A i \in DOMAIN g : g[i] \in Datum
    OBVIOUS
  <1>4. \A i \in DOMAIN g : g[i][2] <= n[g[i][1]]
    BY <1>2, <1>3 DEF InOrder
  <1>5. \A i \in DOMAIN b, d \in Datum : b[i].data = <<d>> => d[2] <= n[d[1]]
    BY <1>2 DEF InOrder
  <1> QED
    BY <1>4, <1>5, Zenon DEF InOrder

Requests == [from : Apps, op : {"open", "recv", "close"}, seq : Nat, sock : Nat, max : 0 .. 1]

\* A request is answered without a datum, or with the next one of a source.
Served(r) == \E st \in {-3, -1, 0}, sock \in Nat : \E data :
    /\ Answer(r, st, sock, data)
    /\ \/ data = <<>> /\ Mark' = Mark
       \/ \E s \in Sources : data = <<<<s, Mark[s] + 1>>>> /\ Mark' = [Mark EXCEPT ![s] = @ + 1]

\* An answer keeps everything in order if it takes no datum, or the next one.
LEMMA AnsweredInOrder ==
    ASSUME SockInv, got' = got, NEW r \in Requests, NEW st \in {-3, -1, 0}, NEW sock \in Nat,
           NEW data, Answer(r, st, sock, data),
           \/ data = <<>> /\ Mark' = Mark
           \/ \E s \in Sources : data = <<<<s, Mark[s] + 1>>>> /\ Mark' = [Mark EXCEPT ![s] = @ + 1]
    PROVE  /\ inbox' \in [Apps -> Seq(Answers)]
           /\ \A a \in Apps : InOrder(got'[a], inbox'[a], Mark')
           /\ Served(r)
  <1> DEFINE rec == [op |-> r.op, seq |-> r.seq, max |-> r.max, st |-> st, sock |-> sock, data |-> data]
             b == inbox[r.from]
  <1>1. Mark \in [Sources -> Nat]
    BY MarkIsNat
  <1>2. Mark' \in [Sources -> Nat] /\ \A s \in Sources : Mark[s] <= Mark'[s]
    BY <1>1
  <1>3. data \in {<<>>} \cup {<<d>> : d \in Datum}
    BY <1>1, SMTT(60) DEF Datum
  <1>4. rec \in Answers /\ rec.data = data
    BY <1>3 DEF Requests, Answers
  <1> HIDE DEF rec
  <1>5. r.from \in Apps /\ inbox \in [Apps -> Seq(Answers)] /\ got \in [Apps -> Seq(Datum)]
        /\ \A a \in Apps : InOrder(got[a], inbox[a], Mark)
    BY DEF SockInv, SockTypeOK, Requests
  <1>6. inbox' = [inbox EXCEPT ![r.from] = Append(b, rec)]
    BY SMTT(60) DEF Answer, rec
  <1>7. Append(b, rec) \in Seq(Answers) /\ InOrder(got[r.from], Append(b, rec), Mark')
    BY <1>1, <1>2, <1>4, <1>5, AnswerInOrder, Zenon
  <1>8. \A a \in Apps : InOrder(got[a], inbox[a], Mark')
    BY <1>1, <1>2, <1>5, MarksGrow, Zenon
  <1>9. Served(r)
    BY Zenon DEF Served
  <1> HIDE DEF b
  <1> QED
    BY <1>5, <1>6, <1>7, <1>8, <1>9

LEMMA SockInitInv == SockInit => SockInv
  <1> SUFFICES ASSUME SockInit PROVE SockInv
    OBVIOUS
  <1>1. SockTypeOK
    BY DEF SockInit, SockTypeOK, Fresh, NoSock
  <1>2. \A a \in Apps : DOMAIN got[a] = {} /\ DOMAIN inbox[a] = {}
    BY SMTT(60) DEF SockInit
  <1>3. \A a \in Apps : InOrder(got[a], inbox[a], Mark)
    BY <1>2 DEF InOrder
  <1> QED
    BY <1>1, <1>3 DEF SockInv, SockInit

LEMMA MarkStays == UNCHANGED <<udp, conns, sent>> => Mark' = Mark
  BY SMTT(60) DEF Mark, Waiting

LEMMA CallInv ==
    ASSUME SockInv, NEW a \in Apps, NEW op \in {"open", "recv", "close"}, NEW max \in 0 .. 1,
           Call(a, op, max)
    PROVE  SockInv'
  <1>1. UNCHANGED <<sockets, nextID, udp, listeners, conns, inbox, got, sent>> /\ Mark' = Mark
    BY MarkStays DEF Call
  <1> DEFINE q == [from |-> a, op |-> op, seq |-> app[a].seq + 1, sock |-> app[a].sock, max |-> max]
             x == [app[a] EXCEPT !.pc = op, !.seq = @ + 1]
  <1>2. app[a] \in [pc : {"idle", "open", "recv", "close"}, sock : Nat, seq : Nat, accepted : BOOLEAN]
    BY DEF SockInv, SockTypeOK
  <1>3. q \in Requests /\ x \in [pc : {"idle", "open", "recv", "close"}, sock : Nat, seq : Nat, accepted : BOOLEAN]
    <2>1. app[a].seq + 1 \in Nat /\ app[a].sock \in Nat
      BY <1>2, SMTT(60)
    <2>2. q \in Requests
      BY <2>1 DEF Requests
    <2>3. [app[a] EXCEPT !.pc = op] \in [pc : {"idle", "open", "recv", "close"}, sock : Nat, seq : Nat, accepted : BOOLEAN]
      BY <1>2
    <2>4. x \in [pc : {"idle", "open", "recv", "close"}, sock : Nat, seq : Nat, accepted : BOOLEAN]
      BY <2>1, <2>3, Zenon
    <2> QED
      BY <2>2, <2>4
  <1>4. reqs' = Append(reqs, q) /\ app' = [app EXCEPT ![a] = x]
    BY Zenon DEF Call
  <1> HIDE DEF q, x
  <1>5. reqs \in Seq(Requests) /\ app \in [Apps -> [pc : {"idle", "open", "recv", "close"}, sock : Nat, seq : Nat, accepted : BOOLEAN]]
    BY DEF SockInv, SockTypeOK, Requests
  <1>6. /\ reqs' \in Seq(Requests)
        /\ app' \in [Apps -> [pc : {"idle", "open", "recv", "close"}, sock : Nat, seq : Nat, accepted : BOOLEAN]]
    BY <1>3, <1>4, <1>5, SMTT(60)
  <1>7. SockTypeOK'
    BY <1>1, <1>6, SMTT(60) DEF SockInv, SockTypeOK, Requests
  <1> QED
    BY <1>1, <1>7 DEF SockInv

LEMMA ReplyInv == ASSUME SockInv, NEW a \in Apps, Reply(a) PROVE SockInv'
  <1>1. UNCHANGED <<sockets, nextID, udp, listeners, conns, reqs, sent>> /\ Mark' = Mark
    BY MarkStays, SMTT(60) DEF Reply
  <1> DEFINE b == inbox[a]
             g == got[a]
             rep == Head(b)
             State == [pc : {"idle", "open", "recv", "close"}, sock : Nat, seq : Nat, accepted : BOOLEAN]
  <1>2. /\ inbox \in [Apps -> Seq(Answers)] /\ got \in [Apps -> Seq(Datum)] /\ app \in [Apps -> State]
        /\ Mark \in [Sources -> Nat] /\ InOrder(g, b, Mark)
        /\ \A x \in Apps : InOrder(got[x], inbox[x], Mark)
    BY MarkIsNat, SMTT(60) DEF SockInv, SockTypeOK
  <1>3. b # <<>> /\ b \in Seq(Answers) /\ g \in Seq(Datum)
    BY <1>2 DEF Reply
  <1>4. /\ InOrder(g, Tail(b), Mark)
        /\ g \o rep.data \in Seq(Datum) /\ InOrder(g \o rep.data, Tail(b), Mark)
    BY <1>2, <1>3, ReplyInOrder
  <1>5. rep \in Answers /\ Tail(b) \in Seq(Answers)
    BY <1>3
  <1>6. inbox' = [inbox EXCEPT ![a] = Tail(b)]
    BY DEF Reply
  <1>7. \/ app' = [app EXCEPT ![a] = Returned(a, rep)] /\ got' = [got EXCEPT ![a] = g \o rep.data]
        \/ app' = app /\ got' = got
    BY Zenon DEF Reply
  <1>8. Returned(a, rep) \in State
    <2>1. app[a] \in State /\ rep.sock \in Nat
      BY <1>2, <1>5, SMTT(60) DEF Answers
    <2> QED
      BY <2>1, Zenon DEF Returned, NoSock
  <1>9. app' \in [Apps -> State]
    BY <1>2, <1>7, <1>8, Zenon
  <1> DEFINE gd == g \o rep.data
             tb == Tail(b)
  <1>10. InOrder(g, tb, Mark) /\ gd \in Seq(Datum) /\ InOrder(gd, tb, Mark) /\ tb \in Seq(Answers)
         /\ inbox' = [inbox EXCEPT ![a] = tb]
         /\ (got' = [got EXCEPT ![a] = gd] \/ got' = got)
    BY <1>4, <1>5, <1>6, <1>7, Zenon
  <1> HIDE DEF gd, tb, State
  <1>11. inbox' \in [Apps -> Seq(Answers)] /\ got' \in [Apps -> Seq(Datum)]
    BY <1>2, <1>10, ZenonT(60)
  <1>12. \A x \in Apps : InOrder(got'[x], inbox'[x], Mark)
    <2> SUFFICES ASSUME NEW x \in Apps PROVE InOrder(got'[x], inbox'[x], Mark)
      OBVIOUS
    <2>1. CASE x = a
      <3>1. inbox'[x] = tb /\ (got'[x] = gd \/ got'[x] = g)
        BY <1>2, <1>10, <2>1
      <3> QED
        BY <1>10, <3>1
    <2>2. CASE x # a
      <3>1. inbox'[x] = inbox[x] /\ got'[x] = got[x]
        BY <1>2, <1>10, <2>2, SMTT(60)
      <3> QED
        BY <1>2, <3>1
    <2> QED
      BY <2>1, <2>2
  <1>13. SockTypeOK'
    BY <1>1, <1>9, <1>11, SMTT(60) DEF SockInv, SockTypeOK, State
  <1> QED
    BY <1>1, <1>12, <1>13 DEF SockInv

LEMMA GiveUpInv == ASSUME SockInv, NEW a \in Apps, GiveUp(a) PROVE SockInv'
  <1>1. UNCHANGED <<sockets, nextID, udp, listeners, conns, reqs, inbox, got, sent>> /\ Mark' = Mark
    BY MarkStays DEF GiveUp
  <1>2. SockTypeOK'
    BY <1>1, ZenonT(60) DEF SockInv, SockTypeOK, GiveUp
  <1> QED
    BY <1>1, <1>2 DEF SockInv

\* A datum arrives at the end of its queue: the mark stays.
LEMMA DatagramInv == ASSUME SockInv, NEW p \in DOMAIN udp, Datagram(p) PROVE SockInv' /\ Mark' = Mark
  <1> DEFINE s == <<"port", p>>
  <1>1. s \in Sources /\ sent \in [Sources -> Nat] /\ sent[s] \in Nat /\ Tails(s, sent[s], udp[p])
    BY DEF SockInv, SockTypeOK
  <1> DEFINE q == Append(udp[p], <<s, sent[s] + 1>>)
  <1>2. Tails(s, sent[s] + 1, q) /\ Len(q) = Len(udp[p]) + 1
    BY <1>1, TailsGrows
  <1>3. /\ sent' = [sent EXCEPT ![s] = sent[s] + 1] /\ udp' = [udp EXCEPT ![p] = q]
        /\ UNCHANGED <<sockets, nextID, listeners, conns, reqs, inbox, app, got>>
    BY DEF Datagram
  <1> HIDE DEF q
  <1>4. /\ sent' \in [Sources -> Nat] /\ sent'[s] = sent[s] + 1
        /\ \A t \in Sources : t # s => sent'[t] = sent[t]
        /\ DOMAIN udp' = DOMAIN udp /\ udp'[p] = q /\ \A x \in DOMAIN udp : x # p => udp'[x] = udp[x]
    BY <1>1, <1>3
  <1>5. Len(udp[p]) \in Nat
    BY <1>1 DEF Tails
  <1>6. ASSUME NEW t \in Sources PROVE sent'[t] - Waiting(t)' = sent[t] - Waiting(t)
    <2>1. PICK x : t = <<"port", x>> \/ t = <<"conn", x>>
      BY DEF Sources
    <2>2. CASE t = <<"conn", x>>
      BY <1>3, <1>4, <2>2 DEF Waiting
    <2>3. CASE t = <<"port", x>> /\ x # p
      BY <1>3, <1>4, <2>3, SMTT(60) DEF Waiting
    <2>4. CASE t = s
      <3>1. Waiting(s) = Len(udp[p]) /\ Waiting(s)' = Len(udp[p]) + 1
        BY <1>2, <1>4 DEF Waiting
      <3> QED
        BY <1>1, <1>4, <1>5, <2>4, <3>1, SMTT(60)
    <2> QED
      BY <2>1, <2>2, <2>3, <2>4
  <1>7. Mark' = Mark
    BY <1>6 DEF Mark
  <1>8. \A x \in DOMAIN udp' : Tails(<<"port", x>>, sent'[<<"port", x>>], udp'[x])
    <2> SUFFICES ASSUME NEW x \in DOMAIN udp PROVE Tails(<<"port", x>>, sent'[<<"port", x>>], udp'[x])
      BY <1>4
    <2>1. CASE x = p
      BY <1>2, <1>4, <2>1
    <2>2. CASE x # p
      <3>1. <<"port", x>> \in Sources /\ <<"port", x>> # s /\ Tails(<<"port", x>>, sent[<<"port", x>>], udp[x])
        BY <2>2 DEF SockInv, SockTypeOK
      <3> QED
        BY <1>4, <2>2, <3>1
    <2> QED
      BY <2>1, <2>2, SMTT(60)
  <1>9. \A x \in DOMAIN conns : Tails(<<"conn", x>>, sent'[<<"conn", x>>], conns[x])
    <2> SUFFICES ASSUME NEW x \in DOMAIN conns PROVE Tails(<<"conn", x>>, sent'[<<"conn", x>>], conns[x])
      OBVIOUS
    <2>1. <<"conn", x>> \in Sources /\ <<"conn", x>> # s /\ Tails(<<"conn", x>>, sent[<<"conn", x>>], conns[x])
      BY SMTT(60) DEF SockInv, SockTypeOK
    <2> QED
      BY <1>4, <2>1
  <1>10. SockTypeOK'
    BY <1>3, <1>4, SMTT(60) DEF SockInv, SockTypeOK
  <1> QED
    BY <1>3, <1>7, <1>8, <1>9, <1>10 DEF SockInv

LEMMA StreamInv == ASSUME SockInv, NEW p \in DOMAIN conns, Stream(p) PROVE SockInv' /\ Mark' = Mark
  <1> DEFINE s == <<"conn", p>>
  <1>1. s \in Sources /\ sent \in [Sources -> Nat] /\ sent[s] \in Nat /\ Tails(s, sent[s], conns[p])
    BY DEF SockInv, SockTypeOK
  <1> DEFINE q == Append(conns[p], <<s, sent[s] + 1>>)
  <1>2. Tails(s, sent[s] + 1, q) /\ Len(q) = Len(conns[p]) + 1
    BY <1>1, TailsGrows
  <1>3. /\ sent' = [sent EXCEPT ![s] = sent[s] + 1] /\ conns' = [conns EXCEPT ![p] = q]
        /\ UNCHANGED <<sockets, nextID, listeners, udp, reqs, inbox, app, got>>
    BY DEF Stream
  <1> HIDE DEF q
  <1>4. /\ sent' \in [Sources -> Nat] /\ sent'[s] = sent[s] + 1
        /\ \A t \in Sources : t # s => sent'[t] = sent[t]
        /\ DOMAIN conns' = DOMAIN conns /\ conns'[p] = q /\ \A x \in DOMAIN conns : x # p => conns'[x] = conns[x]
    BY <1>1, <1>3
  <1>5. Len(conns[p]) \in Nat
    BY <1>1, SMTT(60) DEF Tails
  <1>6. ASSUME NEW t \in Sources PROVE sent'[t] - Waiting(t)' = sent[t] - Waiting(t)
    <2>1. PICK x : t = <<"port", x>> \/ t = <<"conn", x>>
      BY DEF Sources
    <2>2. CASE t = <<"port", x>>
      BY <1>3, <1>4, <2>2, SMTT(60) DEF Waiting
    <2>3. CASE t = <<"conn", x>> /\ x # p
      BY <1>3, <1>4, <2>3, SMTT(60) DEF Waiting
    <2>4. CASE t = s
      <3>1. Waiting(s) = Len(conns[p]) /\ Waiting(s)' = Len(conns[p]) + 1
        BY <1>2, <1>4, SMTT(60) DEF Waiting
      <3> QED
        BY <1>1, <1>4, <1>5, <2>4, <3>1, SMTT(60)
    <2> QED
      BY <2>1, <2>2, <2>3, <2>4
  <1>7. Mark' = Mark
    BY <1>6 DEF Mark
  <1>8. \A x \in DOMAIN conns' : Tails(<<"conn", x>>, sent'[<<"conn", x>>], conns'[x])
    <2> SUFFICES ASSUME NEW x \in DOMAIN conns PROVE Tails(<<"conn", x>>, sent'[<<"conn", x>>], conns'[x])
      BY <1>4
    <2>1. CASE x = p
      BY <1>2, <1>4, <2>1, SMTT(60)
    <2>2. CASE x # p
      <3>1. <<"conn", x>> \in Sources /\ <<"conn", x>> # s /\ Tails(<<"conn", x>>, sent[<<"conn", x>>], conns[x])
        BY <2>2 DEF SockInv, SockTypeOK
      <3> QED
        BY <1>4, <2>2, <3>1, SMTT(60)
    <2> QED
      BY <2>1, <2>2, SMTT(60)
  <1>9. \A x \in DOMAIN udp : Tails(<<"port", x>>, sent'[<<"port", x>>], udp[x])
    <2> SUFFICES ASSUME NEW x \in DOMAIN udp PROVE Tails(<<"port", x>>, sent'[<<"port", x>>], udp[x])
      OBVIOUS
    <2>1. <<"port", x>> \in Sources /\ <<"port", x>> # s /\ Tails(<<"port", x>>, sent[<<"port", x>>], udp[x])
      BY SMTT(60) DEF SockInv, SockTypeOK
    <2> QED
      BY <1>4, <2>1
  <1>10. SockTypeOK'
    BY <1>3, <1>4, SMTT(60) DEF SockInv, SockTypeOK
  <1> QED
    BY <1>3, <1>7, <1>8, <1>9, <1>10 DEF SockInv

LEMMA EmptyTails == ASSUME NEW s, NEW n \in Nat PROVE Tails(s, n, <<>>)
  BY DEF Tails

LEMMA ConnectedInv == ASSUME SockInv, NEW p \in DOMAIN listeners, Connected(p) PROVE SockInv' /\ Mark' = Mark
  <1>1. p \notin DOMAIN conns /\ <<"conn", p>> \in Sources /\ sent \in [Sources -> Nat]
    BY DEF SockInv, SockTypeOK, Connected
  <1>2. /\ DOMAIN conns' = DOMAIN conns \cup {p} /\ conns'[p] = <<>>
        /\ \A x \in DOMAIN conns : conns'[x] = conns[x]
        /\ DOMAIN listeners' = DOMAIN listeners /\ listeners'[p] = "queued"
        /\ \A x \in DOMAIN listeners : x # p => listeners'[x] = listeners[x]
        /\ UNCHANGED <<sockets, nextID, udp, reqs, inbox, app, got, sent>>
    BY <1>1, SMTT(60) DEF Connected, Put
  <1>3. \A t \in Sources : Waiting(t)' = Waiting(t)
    BY <1>1, <1>2, SMTT(60) DEF Waiting
  <1>4. Mark' = Mark
    BY <1>2, <1>3, SMTT(60) DEF Mark
  <1>5. \A x \in DOMAIN conns' : Tails(<<"conn", x>>, sent[<<"conn", x>>], conns'[x])
    BY <1>1, <1>2, EmptyTails DEF SockInv
  <1>6. SockTypeOK'
    BY <1>1, <1>2 DEF SockInv, SockTypeOK
  <1> QED
    BY <1>2, <1>4, <1>5, <1>6, SMTT(60) DEF SockInv

\* The request in hand.
LEMMA TakenRequest ==
    ASSUME SockInv, Dispatch
    PROVE  /\ Head(reqs) \in Requests /\ reqs' \in Seq(Requests)
           /\ UNCHANGED <<app, got, sent>>
  <1>1. reqs \in Seq(Requests) /\ reqs # <<>> /\ reqs' = Tail(reqs)
    BY DEF SockInv, SockTypeOK, Requests, Dispatch
  <1> QED
    BY <1>1, SMTT(60) DEF Dispatch

LEMMA OpenInv ==
    ASSUME SockInv, Dispatch, Kind \in [Apps -> {"udp", "tcp"}],
           NEW r \in Requests, r = Head(reqs), dispatchOpen(r)
    PROVE  SockInv' /\ Served(r)
  <1> DEFINE p == Port[r.from]
  <1>1. reqs' \in Seq(Requests) /\ UNCHANGED <<app, got, sent, conns>> /\ r.from \in Apps
        /\ sent \in [Sources -> Nat]
    BY TakenRequest, SMTT(60) DEF dispatchOpen, Requests, SockInv, SockTypeOK
  <1>2. CASE Kind[r.from] = "tcp" /\ Listening(p)
    <2>1. Answer(r, -3, 0, <<>>) /\ UNCHANGED <<sockets, nextID, udp, listeners>>
      BY <1>2 DEF dispatchOpen, NoSock
    <2>2. Mark' = Mark
      BY <1>1, <2>1, MarkStays, SMTT(60)
    <2>3. Served(r) /\ inbox' \in [Apps -> Seq(Answers)] /\ \A a \in Apps : InOrder(got'[a], inbox'[a], Mark')
      <3>1. -3 \in {-3, -1, 0} /\ 0 \in Nat
        OBVIOUS
      <3> QED
        BY <1>1, <2>1, <2>2, <3>1, AnsweredInOrder, ZenonT(60)
    <2>4. SockTypeOK'
      BY <1>1, <2>1, <2>3, ZenonT(60) DEF SockInv, SockTypeOK, Requests
    <2> QED
      BY <1>1, <2>1, <2>3, <2>4 DEF SockInv
  <1>3. CASE ~(Kind[r.from] = "tcp" /\ Listening(p))
    <2> DEFINE rec == [kind |-> Kind[r.from], port |-> p, tcp |-> FALSE]
    <2>1. /\ nextID' = nextID + 1 /\ sockets' = Put(sockets, nextID + 1, rec)
          /\ Answer(r, 0, nextID + 1, <<>>)
          /\ \/ Kind[r.from] = "udp" /\ udp' = Bind(p) /\ listeners' = listeners
             \/ Kind[r.from] = "tcp" /\ p \notin DOMAIN listeners
                /\ listeners' = Put(listeners, p, "listen") /\ udp' = udp
      BY <1>1, <1>3 DEF dispatchOpen, Listening
    <2>2. nextID + 1 \in Nat
      BY SMTT(60) DEF SockInv, SockTypeOK
    <2>3. /\ \A x \in DOMAIN udp : x \in DOMAIN udp' /\ udp'[x] = udp[x]
          /\ \A x \in DOMAIN udp' : x \in DOMAIN udp \/ (x = p /\ Kind[r.from] = "udp" /\ udp'[x] = <<>>)
          /\ Kind[r.from] = "udp" => p \in DOMAIN udp'
      BY <2>1, SMTT(60) DEF Bind, Put
    <2>4. /\ \A x \in DOMAIN listeners : x \in DOMAIN listeners' /\ listeners'[x] = listeners[x]
          /\ \A x \in DOMAIN listeners' : x \in DOMAIN listeners
                \/ (x = p /\ x \notin DOMAIN listeners /\ Kind[r.from] = "tcp" /\ listeners'[x] = "listen")
          /\ Kind[r.from] = "tcp" => p \in DOMAIN listeners'
      BY <2>1 DEF Put
    <2>5. ASSUME NEW t \in Sources PROVE Waiting(t)' = Waiting(t)
      <3>1. PICK x : t = <<"port", x>> \/ t = <<"conn", x>>
        BY SMTT(60) DEF Sources
      <3>2. CASE t = <<"port", x>>
        <4>1. /\ Waiting(t) = IF x \in DOMAIN udp THEN Len(udp[x]) ELSE 0
              /\ Waiting(t)' = IF x \in DOMAIN udp' THEN Len(udp'[x]) ELSE 0
          BY <3>2, WaitingIs, Zenon
        <4>2. CASE x \in DOMAIN udp
          BY <2>3, <4>1, <4>2
        <4>3. CASE x \in DOMAIN udp' /\ x \notin DOMAIN udp
          <5>1. udp'[x] = <<>>
            BY <2>3, <4>3
          <5> QED
            BY <4>1, <4>3, <5>1
        <4>4. CASE x \notin DOMAIN udp' /\ x \notin DOMAIN udp
          BY <4>1, <4>4
        <4> QED
          BY <4>2, <4>3, <4>4, SMTT(60)
      <3>3. CASE t = <<"conn", x>>
        BY <1>1, <3>3, WaitingIs, Zenon
      <3> QED
        BY <3>1, <3>2, <3>3, SMTT(60)
    <2>6. Mark' = Mark
      BY <1>1, <2>5 DEF Mark
    <2>7. Served(r) /\ inbox' \in [Apps -> Seq(Answers)] /\ \A a \in Apps : InOrder(got'[a], inbox'[a], Mark')
      BY <1>1, <2>1, <2>2, <2>6, AnsweredInOrder
    <2>8. /\ Kind[r.from] = "udp" => <<"port", p>> \in Sources
          /\ Kind[r.from] = "tcp" => <<"conn", p>> \in Sources
      BY <1>1, SMTT(60) DEF Sources
    <2>9. \A x \in DOMAIN udp' : <<"port", x>> \in Sources /\ Tails(<<"port", x>>, sent[<<"port", x>>], udp'[x])
      <3> SUFFICES ASSUME NEW x \in DOMAIN udp'
                   PROVE  <<"port", x>> \in Sources /\ Tails(<<"port", x>>, sent[<<"port", x>>], udp'[x])
        OBVIOUS
      <3>1. CASE x \in DOMAIN udp
        <4>1. <<"port", x>> \in Sources /\ Tails(<<"port", x>>, sent[<<"port", x>>], udp[x])
          BY <3>1, SMTT(60) DEF SockInv, SockTypeOK
        <4> QED
          BY <2>3, <3>1, <4>1, SMTT(60)
      <3>2. CASE x = p /\ Kind[r.from] = "udp" /\ udp'[x] = <<>>
        <4>1. sent[<<"port", x>>] \in Nat
          BY <1>1, <2>8, <3>2, SMTT(60)
        <4> QED
          BY <2>8, <3>2, <4>1, EmptyTails, SMTT(60)
      <3> QED
        BY <2>3, <3>1, <3>2, SMTT(60)
    <2>10. /\ \A x \in DOMAIN listeners' : <<"conn", x>> \in Sources
                                           /\ (listeners'[x] # "listen" <=> x \in DOMAIN conns)
           /\ \A x \in DOMAIN conns : x \in DOMAIN listeners'
      <3> HIDE DEF p
      <3>1. /\ \A x \in DOMAIN listeners : <<"conn", x>> \in Sources
                                           /\ (listeners[x] # "listen" <=> x \in DOMAIN conns)
            /\ \A x \in DOMAIN conns : x \in DOMAIN listeners
        BY SMTT(60) DEF SockInv, SockTypeOK
      <3> QED
        BY <2>4, <2>8, <3>1, SMTT(60)
    <2>11. rec \in [kind : {"udp", "tcp"}, port : {Port[a] : a \in Apps}, tcp : BOOLEAN]
           /\ rec.kind = Kind[r.from] /\ rec.port = p /\ ~rec.tcp
      BY <1>1
    <2> HIDE DEF rec
    <2>12. /\ \A k \in DOMAIN sockets' : (k = nextID + 1 /\ sockets'[k] = rec)
                                         \/ (k \in DOMAIN sockets /\ sockets'[k] = sockets[k])
           /\ sockets' = [k \in DOMAIN sockets' |-> sockets'[k]]
      BY <2>1 DEF Put
    <2>13. sockets' \in [DOMAIN sockets' -> [kind : {"udp", "tcp"}, port : {Port[a] : a \in Apps}, tcp : BOOLEAN]]
      <3> DEFINE S == [kind : {"udp", "tcp"}, port : {Port[a] : a \in Apps}, tcp : BOOLEAN]
      <3>1. \A k \in DOMAIN sockets : sockets[k] \in S
        BY SMTT(60) DEF SockInv, SockTypeOK
      <3>2. rec \in S
        BY <2>11
      <3> HIDE DEF S
      <3>3. \A k \in DOMAIN sockets' : sockets'[k] \in S
        BY <2>12, <3>1, <3>2
      <3>4. sockets' \in [DOMAIN sockets' -> S]
        BY <2>12, <3>3, SMTT(60)
      <3> QED
        BY <3>4, SMTT(60) DEF S
    <2>14. \A k \in DOMAIN sockets' :
              /\ sockets'[k].kind = "udp" => sockets'[k].port \in DOMAIN udp'
              /\ sockets'[k].kind = "tcp" => sockets'[k].port \in DOMAIN listeners'
              /\ sockets'[k].tcp => sockets'[k].port \in DOMAIN conns
      BY <2>3, <2>4, <2>11, <2>12, ZenonT(60) DEF SockInv, SockTypeOK
    <2>15. SockTypeOK'
      BY <1>1, <2>1, <2>2, <2>7, <2>9, <2>10, <2>13, <2>14, Zenon DEF SockInv, SockTypeOK, Requests
    <2> QED
      BY <1>1, <2>7, <2>9, <2>15 DEF SockInv
  <1> QED
    BY <1>2, <1>3, SMTT(60)

LEMMA CloseInv ==
    ASSUME SockInv, Dispatch, NEW r \in Requests, r = Head(reqs), dispatchClose(r)
    PROVE  SockInv' /\ Served(r)
  <1>1. reqs' \in Seq(Requests) /\ UNCHANGED <<app, got, sent, conns, udp, listeners, nextID>>
    BY TakenRequest DEF dispatchClose
  <1>2. Mark' = Mark
    BY <1>1, MarkStays, SMTT(60)
  <1>3. \E st \in {-3, -1, 0} : Answer(r, st, 0, <<>>)
    BY DEF dispatchClose, NoSock
  <1>4. Served(r) /\ inbox' \in [Apps -> Seq(Answers)] /\ \A a \in Apps : InOrder(got'[a], inbox'[a], Mark')
    BY <1>1, <1>2, <1>3, AnsweredInOrder, SMTT(60)
  <1>5. /\ \A k \in DOMAIN sockets' : k \in DOMAIN sockets /\ sockets'[k] = sockets[k]
        /\ sockets' = [k \in DOMAIN sockets' |-> sockets'[k]]
    BY DEF dispatchClose, Restrict
  <1>6. sockets' \in [DOMAIN sockets' -> [kind : {"udp", "tcp"}, port : {Port[a] : a \in Apps}, tcp : BOOLEAN]]
    <2> DEFINE S == [kind : {"udp", "tcp"}, port : {Port[a] : a \in Apps}, tcp : BOOLEAN]
    <2>1. \A k \in DOMAIN sockets : sockets[k] \in S
      BY DEF SockInv, SockTypeOK
    <2> HIDE DEF S
    <2>2. sockets' \in [DOMAIN sockets' -> S]
      BY <1>5, <2>1, SMTT(60)
    <2> QED
      BY <2>2, SMTT(60) DEF S
  <1>7. SockTypeOK'
    BY <1>1, <1>4, <1>5, <1>6, ZenonT(60) DEF SockInv, SockTypeOK, Requests
  <1> QED
    BY <1>1, <1>4, <1>7 DEF SockInv

\* The oldest datum of a queue is the next after the mark of its source, and
\* the mark moves on to it when it leaves the queue.
LEMMA MarkMoves ==
    ASSUME SockInv, NEW s \in Sources, NEW q, q # <<>>, Tails(s, sent[s], q), sent' = sent,
           Waiting(s) = Len(q), Waiting(s)' = Len(q) - 1,
           \A t \in Sources : t # s => Waiting(t)' = Waiting(t)
    PROVE  Head(q) = <<s, Mark[s] + 1>> /\ Mark' = [Mark EXCEPT ![s] = @ + 1]
  <1>1. sent[s] \in Nat /\ Len(q) \in Nat
    BY DEF SockInv, SockTypeOK, Tails
  <1>2. Head(q) = <<s, (sent[s] - Len(q)) + 1>>
    BY <1>1, TailsShrinks
  <1>3. sent[s] - (Len(q) - 1) = (sent[s] - Len(q)) + 1
    BY <1>1
  <1>4. Mark[s] = sent[s] - Len(q)
    BY DEF Mark
  <1>5. Mark' = [t \in Sources |-> sent[t] - Waiting(t)']
    BY DEF Mark
  <1>6. \A t \in Sources : sent[t] - Waiting(t)' = IF t = s THEN Mark[s] + 1 ELSE Mark[t]
    BY <1>3, <1>4 DEF Mark
  <1>7. Mark = [t \in Sources |-> Mark[t]]
    BY SMTT(60) DEF Mark
  <1>8. Mark' = [t \in Sources |-> IF t = s THEN Mark[s] + 1 ELSE Mark[t]]
    BY <1>5, <1>6
  <1>9. [Mark EXCEPT ![s] = @ + 1] = [t \in Sources |-> IF t = s THEN Mark[s] + 1 ELSE Mark[t]]
    BY <1>7
  <1> QED
    BY <1>2, <1>4, <1>8, <1>9

\* RECV takes the oldest datum of its queue or none: the mark of the source
\* moves on by what the reply holds.
LEMMA RecvUdpInv ==
    ASSUME SockInv, Dispatch, NEW r \in Requests, r = Head(reqs), dispatchRecv(r),
           r.sock \in DOMAIN sockets, sockets[r.sock].kind = "udp"
    PROVE  SockInv' /\ Served(r)
  <1>0. PICK p : p = sockets[r.sock].port
    OBVIOUS
  <1> DEFINE s == <<"port", p>>
             q == udp[p]
  <1>1. reqs' \in Seq(Requests) /\ UNCHANGED <<app, got, sent, conns, sockets, listeners, nextID>>
    BY TakenRequest, SMTT(60) DEF dispatchRecv
  <1>2. p \in DOMAIN udp /\ s \in Sources /\ sent[s] \in Nat /\ Tails(s, sent[s], q)
    BY <1>0, ZenonT(60) DEF SockInv, SockTypeOK
  <1>3. Answer(r, 0, 0, First(q, r.max)) /\ udp' = [udp EXCEPT ![p] = Rest(q, r.max)]
    BY <1>0 DEF dispatchRecv, NoSock
  <1>4. CASE r.max = 0 \/ q = <<>>
    <2>1. First(q, r.max) = <<>> /\ DOMAIN udp' = DOMAIN udp /\ \A x \in DOMAIN udp : udp'[x] = udp[x]
      BY <1>2, <1>3, <1>4, SMTT(60) DEF First, Rest
    <2>5. \A t \in Sources : Waiting(t)' = Waiting(t)
      BY <1>1, <2>1, SMTT(60) DEF Waiting
    <2>2. Mark' = Mark
      BY <1>1, <2>5, SMTT(60) DEF Mark
    <2>3. Served(r) /\ inbox' \in [Apps -> Seq(Answers)] /\ \A a \in Apps : InOrder(got'[a], inbox'[a], Mark')
      BY <1>1, <1>3, <2>1, <2>2, AnsweredInOrder, ZenonT(60)
    <2>4. SockTypeOK'
      BY <1>1, <2>1, <2>3, ZenonT(60) DEF SockInv, SockTypeOK, Requests
    <2> QED
      BY <1>1, <2>1, <2>3, <2>4 DEF SockInv
  <1>5. CASE ~(r.max = 0 \/ q = <<>>)
    <2>1. First(q, r.max) = <<Head(q)>> /\ udp' = [udp EXCEPT ![p] = Tail(q)]
      BY <1>3, <1>5, SMTT(60) DEF First, Rest
    <2> DEFINE tq == Tail(q)
    <2>2. /\ Head(q) = <<s, (sent[s] - Len(q)) + 1>>
          /\ Tails(s, sent[s], tq) /\ Len(tq) = Len(q) - 1 /\ Len(q) \in Nat
      <3>1. Len(q) \in Nat
        BY <1>2 DEF Tails
      <3> QED
        BY <1>2, <1>5, <3>1, TailsShrinks, SMTT(60)
    <2> HIDE DEF tq
    <2>3. DOMAIN udp' = DOMAIN udp /\ udp'[p] = tq /\ \A x \in DOMAIN udp : x # p => udp'[x] = udp[x]
      BY <1>2, <2>1 DEF tq
    <2>4. /\ Waiting(s) = Len(q) /\ Waiting(s)' = Len(q) - 1
          /\ \A t \in Sources : t # s => Waiting(t)' = Waiting(t)
      <3>1. Waiting(s) = Len(q) /\ Waiting(s)' = Len(q) - 1
        BY <1>2, <2>2, <2>3, SMTT(60) DEF Waiting
      <3>2. ASSUME NEW t \in Sources, t # s PROVE Waiting(t)' = Waiting(t)
        <4>1. PICK x : t = <<"port", x>> \/ t = <<"conn", x>>
          BY SMTT(60) DEF Sources
        <4>2. CASE t = <<"port", x>>
          <5>1. x # p
            BY <3>2, <4>2
          <5> QED
            BY <2>3, <4>2, <5>1, WaitingIs, ZenonT(60)
        <4>3. CASE t = <<"conn", x>>
          BY <1>1, <4>3, WaitingIs, Zenon
        <4> QED
          BY <4>1, <4>2, <4>3, SMTT(60)
      <3> QED
        BY <3>1, <3>2, SMTT(60)
    <2>5. Head(q) = <<s, Mark[s] + 1>> /\ Mark' = [Mark EXCEPT ![s] = @ + 1]
      BY <1>1, <1>2, <1>5, <2>4, MarkMoves, SMTT(60)
    <2>6. First(q, r.max) = <<<<s, Mark[s] + 1>>>>
      BY <2>1, <2>5, SMTT(60)
    <2>7. Served(r) /\ inbox' \in [Apps -> Seq(Answers)] /\ \A a \in Apps : InOrder(got'[a], inbox'[a], Mark')
      BY <1>1, <1>2, <1>3, <2>5, <2>6, AnsweredInOrder, Zenon
    <2>8. \A x \in DOMAIN udp' : Tails(<<"port", x>>, sent[<<"port", x>>], udp'[x])
      BY <2>2, <2>3 DEF SockInv
    <2>9. SockTypeOK'
      BY <1>1, <2>3, <2>7, ZenonT(60) DEF SockInv, SockTypeOK, Requests
    <2> QED
      BY <1>1, <2>7, <2>8, <2>9 DEF SockInv
  <1> QED
    BY <1>4, <1>5

LEMMA RecvTcpInv ==
    ASSUME SockInv, Dispatch, NEW r \in Requests, r = Head(reqs), dispatchRecv(r),
           r.sock \in DOMAIN sockets, sockets[r.sock].kind = "tcp"
    PROVE  SockInv' /\ Served(r)
  <1>0. PICK p : p = sockets[r.sock].port
    BY SMTT(60)
  <1> DEFINE s == <<"conn", p>>
             q == conns[p]
             c == listeners[p] = "queued" \/ sockets[r.sock].tcp
  <1>1. reqs' \in Seq(Requests) /\ UNCHANGED <<app, got, sent, udp, nextID>>
    BY TakenRequest, SMTT(60) DEF dispatchRecv
  <1>2. /\ p \in DOMAIN listeners /\ s \in Sources /\ sent[s] \in Nat
        /\ c => p \in DOMAIN conns /\ Tails(s, sent[s], q)
    BY <1>0, Zenon DEF SockInv, SockTypeOK
  <1>3. /\ listeners' = [listeners EXCEPT ![p] = IF @ = "queued" THEN "taken" ELSE @]
        /\ sockets' = [sockets EXCEPT ![r.sock] = [@ EXCEPT !.tcp = c]]
        /\ IF ~c THEN Answer(r, 0, 0, <<>>) /\ conns' = conns
           ELSE Answer(r, 0, 0, First(q, r.max))
                /\ conns' = [conns EXCEPT ![p] = Rest(q, r.max)]
    BY <1>0 DEF dispatchRecv, NoSock
  <1>4. DOMAIN conns' = DOMAIN conns
    BY <1>3
  <1>5. DOMAIN listeners' = DOMAIN listeners
        /\ \A x \in DOMAIN listeners : (listeners'[x] # "listen") = (listeners[x] # "listen")
    BY <1>2, <1>3
  <1>6. /\ sockets' \in [DOMAIN sockets' -> [kind : {"udp", "tcp"}, port : {Port[a] : a \in Apps}, tcp : BOOLEAN]]
        /\ \A k \in DOMAIN sockets' :
              /\ sockets'[k].kind = "udp" => sockets'[k].port \in DOMAIN udp
              /\ sockets'[k].kind = "tcp" => sockets'[k].port \in DOMAIN listeners
              /\ sockets'[k].tcp => sockets'[k].port \in DOMAIN conns
    <2> DEFINE S == [kind : {"udp", "tcp"}, port : {Port[a] : a \in Apps}, tcp : BOOLEAN]
               x == [sockets[r.sock] EXCEPT !.tcp = c]
    <2>1. sockets \in [DOMAIN sockets -> S] /\ sockets[r.sock] \in S
      BY Zenon DEF SockInv, SockTypeOK
    <2>2. c \in BOOLEAN
      BY <2>1
    <2>3. x \in S /\ x.kind = "tcp" /\ x.port = p /\ x.tcp = c
      <3> HIDE DEF c
      <3> QED
        BY <1>0, <2>1, <2>2
    <2>4. sockets' = [sockets EXCEPT ![r.sock] = x]
      BY <1>3
    <2> HIDE DEF S, x
    <2>5. /\ sockets' \in [DOMAIN sockets' -> S] /\ DOMAIN sockets' = DOMAIN sockets
          /\ sockets'[r.sock] = x /\ \A k \in DOMAIN sockets : k # r.sock => sockets'[k] = sockets[k]
      BY <2>1, <2>3, <2>4
    <2>6. \A k \in DOMAIN sockets' :
              /\ sockets'[k].kind = "udp" => sockets'[k].port \in DOMAIN udp
              /\ sockets'[k].kind = "tcp" => sockets'[k].port \in DOMAIN listeners
              /\ sockets'[k].tcp => sockets'[k].port \in DOMAIN conns
      <3> HIDE DEF c
      <3> QED
        BY <1>2, <2>3, <2>5, ZenonT(60) DEF SockInv, SockTypeOK
    <2> QED
      BY <2>5, <2>6 DEF S
  <1>7. CASE ~c \/ r.max = 0 \/ q = <<>>
    <2>1. /\ \E st \in {-3, -1, 0} : Answer(r, st, 0, <<>>)
          /\ \A x \in DOMAIN conns : conns'[x] = conns[x]
      BY <1>2, <1>3, <1>7 DEF First, Rest
    <2>2. \A t \in Sources : Waiting(t)' = Waiting(t)
      BY <1>1, <1>4, <2>1 DEF Waiting
    <2>3. Mark' = Mark
      BY <1>1, <2>2, SMTT(60) DEF Mark
    <2>4. Served(r) /\ inbox' \in [Apps -> Seq(Answers)] /\ \A a \in Apps : InOrder(got'[a], inbox'[a], Mark')
      BY <1>1, <2>1, <2>3, AnsweredInOrder, SMTT(60)
    <2>5. SockTypeOK'
      BY <1>1, <1>4, <1>5, <1>6, <2>4, ZenonT(60) DEF SockInv, SockTypeOK, Requests
    <2> QED
      BY <1>1, <1>4, <2>1, <2>4, <2>5 DEF SockInv
  <1>8. CASE ~(~c \/ r.max = 0 \/ q = <<>>)
    <2>1. /\ First(q, r.max) = <<Head(q)>> /\ conns' = [conns EXCEPT ![p] = Tail(q)]
          /\ Answer(r, 0, 0, First(q, r.max)) /\ q # <<>>
          /\ p \in DOMAIN conns /\ Tails(s, sent[s], q)
      BY <1>2, <1>3, <1>8 DEF First, Rest
    <2> HIDE DEF c
    <2> DEFINE tq == Tail(q)
    <2>2. Tails(s, sent[s], tq) /\ Len(tq) = Len(q) - 1
      BY <1>2, <2>1, TailsShrinks
    <2> HIDE DEF tq
    <2>3. conns'[p] = tq /\ \A x \in DOMAIN conns : x # p => conns'[x] = conns[x]
      BY <2>1 DEF tq
    <2>4. /\ Waiting(s) = Len(q) /\ Waiting(s)' = Len(q) - 1
          /\ \A t \in Sources : t # s => Waiting(t)' = Waiting(t)
      <3>1. Waiting(s) = Len(q) /\ Waiting(s)' = Len(q) - 1
        BY <1>4, <2>1, <2>2, <2>3, SMTT(60) DEF Waiting
      <3>2. ASSUME NEW t \in Sources, t # s PROVE Waiting(t)' = Waiting(t)
        <4>1. PICK x : t = <<"port", x>> \/ t = <<"conn", x>>
          BY SMTT(60) DEF Sources
        <4> QED
          BY <1>1, <1>4, <2>3, <3>2, <4>1, SMTT(60) DEF Waiting
      <3> QED
        BY <3>1, <3>2, SMTT(60)
    <2>5. Head(q) = <<s, Mark[s] + 1>> /\ Mark' = [Mark EXCEPT ![s] = @ + 1]
      BY <1>1, <1>2, <2>1, <2>4, MarkMoves, Zenon
    <2>6. First(q, r.max) = <<<<s, Mark[s] + 1>>>>
      BY <2>1, <2>5, ZenonT(60)
    <2>7. Served(r) /\ inbox' \in [Apps -> Seq(Answers)] /\ \A a \in Apps : InOrder(got'[a], inbox'[a], Mark')
      BY <1>1, <1>2, <2>1, <2>5, <2>6, AnsweredInOrder, Zenon
    <2>8. \A x \in DOMAIN conns' : Tails(<<"conn", x>>, sent[<<"conn", x>>], conns'[x])
      BY <1>4, <2>2, <2>3 DEF SockInv
    <2>9. SockTypeOK'
      BY <1>1, <1>4, <1>5, <1>6, <2>7, Zenon DEF SockInv, SockTypeOK, Requests
    <2> QED
      BY <1>1, <2>7, <2>8, <2>9 DEF SockInv
  <1> QED
    BY <1>7, <1>8

LEMMA RecvInv ==
    ASSUME SockInv, Dispatch, NEW r \in Requests, r = Head(reqs), dispatchRecv(r)
    PROVE  SockInv' /\ Served(r)
  <1>1. CASE r.sock \notin DOMAIN sockets
    <2>1. reqs' \in Seq(Requests)
          /\ UNCHANGED <<app, got, sent, conns, udp, listeners, nextID, sockets>>
      BY <1>1, TakenRequest, SMTT(60) DEF dispatchRecv
    <2>2. Answer(r, -1, 0, <<>>) /\ Mark' = Mark
      BY <1>1, <2>1, MarkStays, SMTT(60) DEF dispatchRecv, NoSock
    <2>3. Served(r) /\ inbox' \in [Apps -> Seq(Answers)] /\ \A a \in Apps : InOrder(got'[a], inbox'[a], Mark')
      BY <2>1, <2>2, AnsweredInOrder, SMTT(60)
    <2>4. SockTypeOK'
      BY <2>1, <2>3, Zenon DEF SockInv, SockTypeOK, Requests
    <2> QED
      BY <2>1, <2>3, <2>4, SMTT(60) DEF SockInv
  <1>2. CASE r.sock \in DOMAIN sockets
    <2>1. sockets[r.sock].kind \in {"udp", "tcp"}
      BY <1>2 DEF SockInv, SockTypeOK
    <2> QED
      BY <1>2, <2>1, RecvUdpInv, RecvTcpInv
  <1> QED
    BY <1>1, <1>2, SMTT(60)

-----------------------------------------------------------------------------
(* A reply to the request in hand holds a datum that was taken for it *)

\* Replies b to a client whose last request had number n, made when m was taken
\* from each source.
Later(b, n, m) ==
    \A i \in DOMAIN b :
        /\ b[i].seq <= n
        /\ \A d \in Datum : b[i].seq = n /\ b[i].data = <<d>> => m[d[1]] < d[2]

FreshInv ==
    /\ since \in [Apps -> [Sources -> Nat]]
    /\ \A a \in Apps : \A s \in Sources : since[a][s] <= Mark[s]
    /\ \A i \in DOMAIN reqs : reqs[i].seq <= app[reqs[i].from].seq
    /\ \A a \in Apps : Later(inbox[a], app[a].seq, since[a])

LEMMA Numbered ==
    ASSUME SockInv
    PROVE  /\ \A i \in DOMAIN reqs : reqs[i].from \in Apps /\ reqs[i].seq \in Nat
           /\ \A a \in Apps : app[a].seq \in Nat
           /\ \A a \in Apps : \A i \in DOMAIN inbox[a] : inbox[a][i].seq \in Nat
  <1>1. /\ reqs \in Seq(Requests) /\ inbox \in [Apps -> Seq(Answers)]
        /\ app \in [Apps -> [pc : {"idle", "open", "recv", "close"}, sock : Nat, seq : Nat, accepted : BOOLEAN]]
    BY Zenon DEF SockInv, SockTypeOK, Requests
  <1>2. \A i \in DOMAIN reqs : reqs[i] \in Requests
    BY <1>1
  <1>3. \A r \in Requests : r.from \in Apps /\ r.seq \in Nat
    BY DEF Requests
  <1>4. \A a \in Apps : \A i \in DOMAIN inbox[a] : inbox[a][i] \in Answers
    <2> SUFFICES ASSUME NEW a \in Apps PROVE \A i \in DOMAIN inbox[a] : inbox[a][i] \in Answers
      OBVIOUS
    <2>1. inbox[a] \in Seq(Answers)
      BY <1>1
    <2> QED
      BY <2>1
  <1>5. \A r \in Answers : r.seq \in Nat
    BY DEF Answers
  <1> QED
    BY <1>1, <1>2, <1>3, <1>4, <1>5

LEMMA FreshCall ==
    ASSUME SockInv, FreshInv, NEW a \in Apps, NEW op \in {"open", "recv", "close"},
           NEW max \in 0 .. 1, Call(a, op, max)
    PROVE  FreshInv'
  <1>1. Mark' = Mark /\ inbox' = inbox
    BY MarkStays DEF Call
  <1>2. /\ Mark \in [Sources -> Nat] /\ since \in [Apps -> [Sources -> Nat]]
        /\ since' = [since EXCEPT ![a] = Mark]
    BY MarkIsNat DEF Call, FreshInv
  <1>3. since' \in [Apps -> [Sources -> Nat]] /\ since'[a] = Mark /\ \A x \in Apps : x # a => since'[x] = since[x]
    BY <1>2
  <1>4. \A x \in Apps : \A s \in Sources : since'[x][s] <= Mark'[s]
    BY <1>1, <1>2, <1>3 DEF FreshInv
  <1>5. PICK n \in Nat : n = app[a].seq
    BY DEF SockInv, SockTypeOK
  <1>6. /\ \A x \in Apps : app'[x].seq = IF x = a THEN n + 1 ELSE app[x].seq
        /\ \A x \in Apps : app[x].seq \in Nat
    BY <1>5 DEF Call, SockInv, SockTypeOK
  <1> DEFINE q == [from |-> a, op |-> op, seq |-> n + 1, sock |-> app[a].sock, max |-> max]
  <1>7. reqs' = Append(reqs, q) /\ q.seq = n + 1 /\ q.from = a /\ reqs \in Seq(Requests)
    BY <1>5, Zenon DEF Call, SockInv, SockTypeOK, Requests
  <1> HIDE DEF q
  <1>8. \A i \in DOMAIN reqs' : (i \in DOMAIN reqs /\ reqs'[i] = reqs[i]) \/ reqs'[i] = q
    BY <1>7
  <1>9. \A i \in DOMAIN reqs : reqs[i].from \in Apps /\ reqs[i].seq \in Nat
    BY Numbered
  <1>10. \A i \in DOMAIN reqs' : reqs'[i].seq <= app'[reqs'[i].from].seq
    <2> SUFFICES ASSUME NEW i \in DOMAIN reqs' PROVE reqs'[i].seq <= app'[reqs'[i].from].seq
      OBVIOUS
    <2>1. CASE reqs'[i] = q
      BY <1>6, <1>7, <2>1
    <2>2. CASE i \in DOMAIN reqs /\ reqs'[i] = reqs[i]
      <3>1. reqs[i].seq <= app[reqs[i].from].seq /\ reqs[i].from \in Apps /\ reqs[i].seq \in Nat
        BY <1>9, <2>2 DEF FreshInv
      <3>2. app[reqs[i].from].seq \in Nat /\ app'[reqs[i].from].seq >= app[reqs[i].from].seq
        BY <1>5, <1>6, <3>1
      <3>3. app'[reqs[i].from].seq \in Nat
        BY <1>6, <3>1
      <3> QED
        BY <2>2, <3>1, <3>2, <3>3
    <2> QED
      BY <1>8, <2>1, <2>2
  <1>11. \A i \in DOMAIN inbox[a] : inbox[a][i].seq \in Nat
    BY Numbered
  <1>12. Later(inbox[a], n + 1, since'[a])
    BY <1>5, <1>11 DEF FreshInv, Later
  <1>13. \A x \in Apps : Later(inbox'[x], app'[x].seq, since'[x])
    BY <1>1, <1>3, <1>6, <1>12 DEF FreshInv
  <1> QED
    BY <1>3, <1>4, <1>10, <1>13 DEF FreshInv

\* The numbers stay and every reply port keeps or loses its first reply.
LEMMA FreshKept ==
    ASSUME SockInv, FreshInv, Mark' = Mark, since' = since, reqs' = reqs,
           \A x \in Apps : app'[x].seq = app[x].seq,
           \A x \in Apps : \A i \in DOMAIN inbox'[x] : \E j \in DOMAIN inbox[x] : inbox'[x][i] = inbox[x][j]
    PROVE  FreshInv'
  <1>1. \A x \in Apps : Later(inbox'[x], app'[x].seq, since'[x])
    <2> SUFFICES ASSUME NEW x \in Apps PROVE Later(inbox'[x], app[x].seq, since[x])
      OBVIOUS
    <2>1. Later(inbox[x], app[x].seq, since[x])
      BY DEF FreshInv
    <2> QED
      BY <2>1, Zenon DEF Later
  <1>2. \A i \in DOMAIN reqs : reqs[i].from \in Apps
    BY Numbered
  <1> QED
    BY <1>1, <1>2 DEF FreshInv

LEMMA FreshReply == ASSUME SockInv, FreshInv, NEW a \in Apps, Reply(a) PROVE FreshInv'
  <1>1. UNCHANGED <<reqs, since>> /\ Mark' = Mark
    BY MarkStays DEF Reply
  <1>2. inbox \in [Apps -> Seq(Answers)] /\ inbox[a] # <<>> /\ inbox' = [inbox EXCEPT ![a] = Tail(@)]
    BY DEF SockInv, SockTypeOK, Reply
  <1>3. app \in [Apps -> [pc : {"idle", "open", "recv", "close"}, sock : Nat, seq : Nat, accepted : BOOLEAN]]
    BY DEF SockInv, SockTypeOK
  <1>4. \A rep : Returned(a, rep).seq = app[a].seq
    BY <1>3 DEF Returned
  <1>5. \A x \in Apps : app'[x].seq = app[x].seq
    BY <1>3, <1>4, Zenon DEF Reply
  <1>6. ASSUME NEW x \in Apps, NEW i \in DOMAIN inbox'[x]
        PROVE  \E j \in DOMAIN inbox[x] : inbox'[x][i] = inbox[x][j]
    <2>1. CASE x = a
      <3>1. inbox'[x] = Tail(inbox[x]) /\ inbox[x] \in Seq(Answers) /\ inbox[x] # <<>>
        BY <1>2, <2>1
      <3>2. i + 1 \in DOMAIN inbox[x] /\ inbox'[x][i] = inbox[x][i + 1]
        BY <1>6, <3>1
      <3> QED
        BY <3>2
    <2>2. CASE x # a
      BY <1>2, <1>6, <2>2
    <2> QED
      BY <2>1, <2>2
  <1> QED
    BY <1>1, <1>5, <1>6, FreshKept

LEMMA FreshDispatch ==
    ASSUME SockInv, FreshInv, Dispatch, NEW r \in Requests, r = Head(reqs), Served(r)
    PROVE  FreshInv'
  <1>1. UNCHANGED <<app, since>> /\ reqs' = Tail(reqs) /\ reqs # <<>> /\ reqs \in Seq(Requests)
    BY DEF Dispatch, SockInv, SockTypeOK, Requests
  <1>2. PICK st \in {-3, -1, 0}, sock \in Nat : \E data :
           /\ Answer(r, st, sock, data)
           /\ \/ data = <<>> /\ Mark' = Mark
              \/ \E s \in Sources : data = <<<<s, Mark[s] + 1>>>> /\ Mark' = [Mark EXCEPT ![s] = @ + 1]
    BY Zenon DEF Served
  <1>3. PICK data :
           /\ Answer(r, st, sock, data)
           /\ \/ data = <<>> /\ Mark' = Mark
              \/ \E s \in Sources : data = <<<<s, Mark[s] + 1>>>> /\ Mark' = [Mark EXCEPT ![s] = @ + 1]
    BY <1>2, Zenon
  <1>4. Mark \in [Sources -> Nat]
    BY MarkIsNat
  <1>5. \A x \in Apps : \A s \in Sources : since'[x][s] <= Mark'[s]
    <2>1. \A s \in Sources : Mark[s] \in Nat /\ Mark'[s] \in Nat /\ Mark[s] <= Mark'[s]
      BY <1>3, <1>4
    <2>2. \A x \in Apps : \A s \in Sources : since[x][s] \in Nat /\ since[x][s] <= Mark[s]
      BY DEF FreshInv
    <2> QED
      BY <1>1, <2>1, <2>2
  <1>6. \A i \in DOMAIN reqs' : i + 1 \in DOMAIN reqs /\ reqs'[i] = reqs[i + 1]
    BY <1>1
  <1>7. \A i \in DOMAIN reqs' : reqs'[i].seq <= app'[reqs'[i].from].seq
    BY <1>1, <1>6 DEF FreshInv
  <1>8. 1 \in DOMAIN reqs /\ r = reqs[1]
    BY <1>1
  <1>9. r.from \in Apps /\ r.seq <= app[r.from].seq
    BY <1>8 DEF FreshInv, Requests
  <1> DEFINE a == r.from
             rec == [op |-> r.op, seq |-> r.seq, max |-> r.max, st |-> st, sock |-> sock, data |-> data]
  <1>10. inbox' = [inbox EXCEPT ![a] = Append(inbox[a], rec)] /\ rec.seq = r.seq /\ rec.data = data
    BY <1>3, Zenon DEF Answer
  <1> HIDE DEF rec
  <1>11. \A d \in Datum : rec.data = <<d>> => since[a][d[1]] < d[2]
    <2> SUFFICES ASSUME NEW d \in Datum, data = <<d>> PROVE since[a][d[1]] < d[2]
      BY <1>10
    <2>1. PICK s \in Sources : d = <<s, Mark[s] + 1>>
      BY <1>3
    <2>2. since[a][s] <= Mark[s] /\ since[a][s] \in Nat /\ Mark[s] \in Nat
      BY <1>4, <1>9 DEF FreshInv
    <2> QED
      BY <2>1, <2>2
  <1>12. inbox \in [Apps -> Seq(Answers)]
    BY DEF SockInv, SockTypeOK
  <1>13. \A i \in DOMAIN Append(inbox[a], rec) :
            \/ i \in DOMAIN inbox[a] /\ Append(inbox[a], rec)[i] = inbox[a][i]
            \/ Append(inbox[a], rec)[i] = rec
    <2>1. inbox[a] \in Seq(Answers)
      BY <1>9, <1>12
    <2> QED
      BY <2>1
  <1>14. Later(Append(inbox[a], rec), app[a].seq, since[a])
    <2>1. Later(inbox[a], app[a].seq, since[a])
      BY <1>9 DEF FreshInv
    <2> HIDE DEF a
    <2> QED
      BY <1>9, <1>10, <1>11, <1>13, <2>1, Zenon DEF Later, a
  <1>15. \A x \in Apps : Later(inbox'[x], app'[x].seq, since'[x])
    BY <1>1, <1>9, <1>10, <1>12, <1>14, SMTT(60) DEF FreshInv
  <1> QED
    BY <1>1, <1>5, <1>7, <1>15 DEF FreshInv

\* What a client reads is in the reply to its request in hand.
LEMMA ReadsFresh ==
    ASSUME SockInv, FreshInv, NEW a \in Apps, Reply(a), got'[a] # got[a]
    PROVE  since[a][got'[a][Len(got'[a])][1]] < got'[a][Len(got'[a])][2]
  <1> DEFINE rep == Head(inbox[a])
  <1>1. /\ inbox[a] \in Seq(Answers) /\ inbox[a] # <<>> /\ got[a] \in Seq(Datum)
        /\ rep.seq = app[a].seq /\ got'[a] = got[a] \o rep.data
    BY DEF SockInv, SockTypeOK, Reply, mine
  <1>2. 1 \in DOMAIN inbox[a] /\ rep = inbox[a][1] /\ rep \in Answers
    BY <1>1
  <1>3. PICK d \in Datum : rep.data = <<d>>
    <2>1. rep.data = <<>> \/ \E d \in Datum : rep.data = <<d>>
      BY <1>2 DEF Answers
    <2>2. CASE rep.data = <<>>
      <3>1. got[a] \o <<>> = got[a]
        BY <1>1
      <3> QED
        BY <1>1, <2>2, <3>1, Zenon
    <2> QED
      BY <2>1, <2>2
  <1>4. got'[a][Len(got'[a])] = d
    <2>1. got'[a] = got[a] \o <<d>> /\ got[a] \in Seq(Datum)
      BY <1>1, <1>3, Zenon
    <2> QED
      BY <2>1
  <1> QED
    BY <1>1, <1>2, <1>3, <1>4, Zenon DEF FreshInv, Later

\* netport.go and netclient.go: whatever clients give up, close and open again,
\* and however many of them share a port, each reads the data of one source in
\* the order they came and none twice, and a read returns what was taken from
\* its queue after it was asked for.
THEOREM ReadsKeepOrder == SockSpec => ReadsInOrder
<1> USE KindAssumption
<1>1. SockInv /\ FreshInv /\ [SockNext]_sockVars => SockInv' /\ FreshInv'
  <2> SUFFICES ASSUME SockInv, FreshInv, [SockNext]_sockVars PROVE SockInv' /\ FreshInv'
    BY SMTT(60)
  <2>1. CASE Dispatch
    <3>1. PICK r \in Requests : r = Head(reqs)
      BY <2>1, TakenRequest, SMTT(60)
    <3>2. SockInv' /\ Served(r)
      BY <2>1, <3>1, OpenInv, RecvInv, CloseInv DEF Dispatch
    <3> QED
      BY <2>1, <3>1, <3>2, FreshDispatch
  <2>2. CASE UNCHANGED sockVars
    <3>1. Mark' = Mark
      BY <2>2, MarkStays, SMTT(60) DEF sockVars
    <3>2. SockTypeOK'
      BY <2>2, SMTT(60) DEF SockInv, SockTypeOK, sockVars
    <3>3. FreshInv'
      BY <2>2, <3>1 DEF FreshInv, sockVars
    <3> QED
      BY <2>2, <3>1, <3>2, <3>3, ZenonT(60) DEF SockInv, sockVars
  <2>3. ASSUME NEW a \in Apps, NEW op \in {"open", "recv", "close"}, NEW max \in 0 .. 1, Call(a, op, max)
        PROVE  SockInv' /\ FreshInv'
    BY <2>3, CallInv, FreshCall
  <2>4. ASSUME NEW a \in Apps, Reply(a) PROVE SockInv' /\ FreshInv'
    BY <2>4, ReplyInv, FreshReply
  <2>5. ASSUME NEW a \in Apps, GiveUp(a) PROVE SockInv' /\ FreshInv'
    <3>1. UNCHANGED <<reqs, since, inbox>> /\ Mark' = Mark /\ \A x \in Apps : app'[x].seq = app[x].seq
      BY <2>5, MarkStays DEF GiveUp, SockInv, SockTypeOK
    <3> QED
      BY <2>5, <3>1, GiveUpInv, FreshKept
  <2>6. ASSUME SockInv', Mark' = Mark, UNCHANGED <<reqs, since, inbox, app>> PROVE SockInv' /\ FreshInv'
    BY <2>6, FreshKept
  <2>7. ASSUME NEW p \in DOMAIN udp, Datagram(p) PROVE SockInv' /\ FreshInv'
    BY <2>6, <2>7, DatagramInv, Zenon DEF Datagram
  <2>8. ASSUME NEW p \in DOMAIN listeners, Connected(p) PROVE SockInv' /\ FreshInv'
    BY <2>6, <2>8, ConnectedInv, Zenon DEF Connected
  <2>9. ASSUME NEW p \in DOMAIN conns, Stream(p) PROVE SockInv' /\ FreshInv'
    BY <2>6, <2>9, StreamInv, Zenon DEF Stream
  <2> QED
    BY <2>1, <2>2, <2>3, <2>4, <2>5, <2>7, <2>8, <2>9, Zenon DEF SockNext
<1>2. SockInit => FreshInv
  <2> SUFFICES ASSUME SockInit PROVE FreshInv
    OBVIOUS
  <2>1. Mark \in [Sources -> Nat] /\ since = [a \in Apps |-> [s \in Sources |-> 0]]
    BY SockInitInv, MarkIsNat DEF SockInit
  <2>2. DOMAIN reqs = {} /\ \A a \in Apps : DOMAIN inbox[a] = {}
    BY DEF SockInit
  <2> QED
    BY <2>1, <2>2 DEF FreshInv, Later
<1>3. SockInv => \A a \in Apps : \A i, j \in DOMAIN got[a] :
          i < j /\ got[a][i][1] = got[a][j][1] => got[a][i][2] < got[a][j][2]
  <2> SUFFICES ASSUME SockInv, NEW a \in Apps, NEW i \in DOMAIN got[a], NEW j \in DOMAIN got[a],
                      i < j, got[a][i][1] = got[a][j][1]
               PROVE  got[a][i][2] < got[a][j][2]
    BY SMTT(60)
  <2>1. InOrder(got[a], inbox[a], Mark)
    BY DEF SockInv
  <2> QED
    BY <2>1, SMTT(60) DEF InOrder, Before
<1>4. SockInv /\ FreshInv /\ [SockNext]_sockVars =>
          [\A a \in Apps : got'[a] # got[a] =>
              LET d == got'[a][Len(got'[a])] IN since[a][d[1]] < d[2]]_sockVars
  <2> SUFFICES ASSUME SockInv, FreshInv, SockNext, NEW a \in Apps, got'[a] # got[a]
               PROVE  since[a][got'[a][Len(got'[a])][1]] < got'[a][Len(got'[a])][2]
    OBVIOUS
  <2>1. PICK x \in Apps : Reply(x)
    BY Zenon DEF SockNext, Call, GiveUp, Dispatch, Datagram, Connected, Stream
  <2>2. x = a
    BY <2>1 DEF Reply, SockInv, SockTypeOK
  <2> QED
    BY <2>1, <2>2, ReadsFresh
<1> QED
  BY <1>1, <1>2, <1>3, <1>4, SockInitInv, PTL DEF SockSpec, ReadsInOrder
=============================================================================
