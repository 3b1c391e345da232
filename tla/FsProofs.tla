------------------------------ MODULE FsProofs ------------------------------
(***************************************************************************)
(* File calls (FsCall): a session takes no reply but the one to its own    *)
(* call.                                                                   *)
(***************************************************************************)
EXTENDS FsCall, WellFoundedInduction, TLAPS

LEMMA LeastIsIn ==
    ASSUME NEW S \in SUBSET Nat, S # {}
    PROVE  Least(S) \in S
  <1> DEFINE R == OpToRel(<, Nat)
  <1>1. PICK x \in S : \A y \in S : ~(<<y, x>> \in R)
    BY NatLessThanWellFounded, WFMin
  <1>2. \A y \in S : x <= y
    <2> SUFFICES ASSUME NEW y \in S, ~(x <= y) PROVE <<y, x>> \in R
      BY <1>1
    <2>1. y \in Nat /\ x \in Nat /\ y < x
      OBVIOUS
    <2> QED
      BY <2>1 DEF OpToRel
  <1> QED
    BY <1>2, Zenon DEF Least

LEMMA SeqAppended ==
    ASSUME NEW q, IsSeq(q), NEW x
    PROVE  /\ IsSeq(Append(q, x)) /\ Len(q) \in Nat
           /\ DOMAIN q = 1 .. Len(q) /\ DOMAIN Append(q, x) = 1 .. Len(q) + 1
           /\ Append(q, x)[Len(q) + 1] = x /\ \A i \in 1 .. Len(q) : Append(q, x)[i] = q[i]
  <1> DEFINE T == Range(q) \cup {x}
             a == Append(q, x)
  <1>1. q \in Seq(T)
    BY DEF IsSeq
  <1>2. PICK n \in Nat : n = Len(q) /\ DOMAIN q = 1 .. n
    BY <1>1
  <1>3. a \in Seq(T) /\ Len(a) = n + 1 /\ a[n + 1] = x /\ \A i \in 1 .. n : a[i] = q[i]
    BY <1>1, <1>2
  <1> HIDE DEF a
  <1>4. DOMAIN a = 1 .. n + 1 /\ a \in [1 .. n + 1 -> T]
    BY <1>3
  <1>5. a \in [1 .. n + 1 -> Range(a)]
    BY <1>4 DEF Range
  <1>6. a \in Seq(Range(a))
    BY <1>5
  <1> QED
    BY <1>2, <1>3, <1>4, <1>6 DEF IsSeq, a

LEMMA SeqTail ==
    ASSUME NEW q, IsSeq(q), q # <<>>
    PROVE  /\ IsSeq(Tail(q)) /\ Head(q) = q[1] /\ 1 \in DOMAIN q
           /\ \A i \in DOMAIN Tail(q) : i + 1 \in DOMAIN q /\ Tail(q)[i] = q[i + 1]
  <1> DEFINE t == Tail(q)
  <1>1. q \in Seq(Range(q))
    BY DEF IsSeq
  <1>2. Len(q) \in Nat /\ Len(q) # 0 /\ DOMAIN q = 1 .. Len(q) /\ Head(q) = q[1]
    BY <1>1
  <1>3. Len(q) - 1 \in Nat
    BY <1>2
  <1>4. PICK n \in Nat : n = Len(q) - 1
    BY <1>3
  <1>5. t \in Seq(Range(q)) /\ Len(t) = n /\ \A i \in 1 .. n : t[i] = q[i + 1]
    BY <1>1, <1>2, <1>4
  <1> HIDE DEF t
  <1>6. DOMAIN t = 1 .. n /\ t \in [1 .. n -> Range(q)]
    BY <1>5
  <1>7. t \in [1 .. n -> Range(t)]
    BY <1>6 DEF Range
  <1>8. t \in Seq(Range(t))
    BY <1>7
  <1>9. \A i \in 1 .. n : i + 1 \in DOMAIN q
    BY <1>2, <1>4
  <1>10. 1 \in DOMAIN q /\ \A i \in DOMAIN t : i + 1 \in DOMAIN q /\ t[i] = q[i + 1]
    BY <1>2, <1>5, <1>6, <1>9, SMTT(60)
  <1> QED
    BY <1>2, <1>8, <1>10 DEF IsSeq, t

-----------------------------------------------------------------------------
(* Replies *)

Fields == {"pc", "call", "seq", "fds", "files", "inc", "sid"}

\* A table of pending calls.
TableOK(p) ==
    /\ DOMAIN p = Slots
    /\ \A i \in Slots : p[i].used => DOMAIN p[i] = {"used", "done", "name", "seq", "reply"}

\* A routed session in state x that waits has an entry of its own in table p,
\* and every reply or queued request (q) under its name and number is its own.
Claim(t, p, q, x) ==
    x.pc = "wait" =>
        /\ \E i \in Slots : /\ p[i].used /\ p[i].name = t /\ p[i].seq = x.seq
                            /\ p[i].done => p[i].reply.id = <<t, x.inc, x.seq>>
        /\ \A k \in DOMAIN q : q[k].name = t /\ q[k].seq = x.seq => q[k].id = <<t, x.inc, x.seq>>

\* No two entries of table p have the same number.
Distinct(p) == \A i, j \in Slots : p[i].used /\ p[j].used /\ p[i].seq = p[j].seq => i = j

\* The requests of direct sessions in q carry the identity of their call.
Signed(q) == \A k \in DOMAIN q : q[k].name \in Direct => q[k].id = <<q[k].name, 1, q[k].seq>>

CallInv ==
    /\ IsSeq(fsq) /\ Signed(fsq)
    /\ DOMAIN box = Direct
    /\ \A s \in Direct : IsSeq(box[s]) /\ \A k \in DOMAIN box[s] : box[s][k].id = <<s, 1, box[s][k].seq>>
    /\ TableOK(pend)
    /\ DOMAIN ses = Sessions /\ \A s \in Sessions : DOMAIN ses[s] = Fields
    /\ \A s \in Direct : ses[s].inc = 1
    /\ misled \subseteq Routed /\ reused \in BOOLEAN
    /\ ~reused => misled = {} /\ Distinct(pend) /\ \A t \in Routed : Claim(t, pend, fsq, ses[t])

\* fs_roundtrip: the call that goes out is entered and queued as its own, and
\* nothing of another session's changes.
LEMMA IssueFacts ==
    ASSUME ConstantsOK, NEW s \in Routed, NEW p, TableOK(p), NEW x, DOMAIN x = Fields, NEW c,
           IsSeq(fsq), Signed(fsq)
    PROVE  LET out == Issue(s, p, x, c)
           IN  /\ TableOK(out.p) /\ IsSeq(out.q) /\ Signed(out.q)
               /\ DOMAIN out.x = Fields /\ out.x.inc = x.inc
               /\ ~SameSeq(out.p, out.q) => Claim(s, out.p, out.q, out.x)
               /\ \A t \in Routed \ {s} : \A z : Claim(t, p, fsq, z) => Claim(t, out.p, out.q, z)
  <1> DEFINE out == Issue(s, p, x, c)
             y == [x EXCEPT !.seq = @ + 1]
             free == {i \in Slots : ~p[i].used}
             m == Least(free)
             e == [used |-> TRUE, done |-> FALSE, name |-> s, seq |-> y.seq, reply |-> NoReply]
             noted == [p EXCEPT ![m] = e]
             f == Frame(s, y, c)
             w == [y EXCEPT !.pc = "wait", !.call = c]
  <1>1. DOMAIN y = Fields /\ y.inc = x.inc
    BY DEF Fields
  <1>2. DOMAIN Release(y, c) = Fields /\ Release(y, c).pc = "idle" /\ Release(y, c).inc = x.inc
    BY <1>1 DEF Release, Fields
  <1>3. DOMAIN w = Fields /\ w.pc = "wait" /\ w.inc = x.inc /\ w.seq = y.seq
    BY <1>1 DEF Fields
  <1>4. f.name = s /\ f.id = <<s, x.inc, y.seq>> /\ f.seq = y.seq
    BY <1>1 DEF Frame
  <1>5. e.used /\ ~e.done /\ e.name = s /\ e.seq = y.seq
        /\ DOMAIN e = {"used", "done", "name", "seq", "reply"}
    OBVIOUS
  <1>6. \/ out.p = p /\ out.q = fsq /\ out.x = Release(y, c)
        \/ free # {} /\ out.p = noted /\ out.q = fsq /\ out.x = Release(y, c)
        \/ free # {} /\ out.p = noted /\ out.q = Append(fsq, f) /\ out.x = w
    BY DEF Issue
  <1> HIDE DEF out, y, e, f, w
  <1>7. free # {} => m \in Slots /\ ~p[m].used
    <2>1. free \in SUBSET Nat
      BY DEF ConstantsOK, Slots
    <2>2. free # {} => Least(free) \in free
      BY <2>1, LeastIsIn
    <2> QED
      BY <2>2
  <1> HIDE DEF free, m
  <1>8. free # {} => /\ TableOK(noted) /\ noted[m] = e
                     /\ \A i \in Slots : i # m => noted[i] = p[i]
    BY <1>5, <1>7 DEF TableOK
  <1> HIDE DEF noted
  <1>9. /\ IsSeq(Append(fsq, f)) /\ Len(fsq) \in Nat /\ DOMAIN fsq = 1 .. Len(fsq)
        /\ DOMAIN Append(fsq, f) = 1 .. Len(fsq) + 1 /\ Append(fsq, f)[Len(fsq) + 1] = f
        /\ \A i \in 1 .. Len(fsq) : Append(fsq, f)[i] = fsq[i]
    BY SeqAppended
  <1> DEFINE q == Append(fsq, f)
             n == Len(fsq) + 1
  <1>10. IsSeq(q) /\ n \in DOMAIN q /\ q[n] = f
         /\ \A k \in DOMAIN q : k = n \/ (k \in DOMAIN fsq /\ q[k] = fsq[k])
    BY <1>9
  <1> HIDE DEF q, n
  <1>11. Signed(q)
    BY <1>4, <1>10 DEF Signed, ConstantsOK
  <1>12. TableOK(out.p) /\ IsSeq(out.q) /\ Signed(out.q) /\ DOMAIN out.x = Fields /\ out.x.inc = x.inc
    BY <1>2, <1>3, <1>6, <1>8, <1>10, <1>11, ZenonT(60) DEF q
  <1>13. ASSUME ~SameSeq(out.p, out.q) PROVE Claim(s, out.p, out.q, out.x)
    <2>1. CASE out.x = Release(y, c)
      BY <1>2, <2>1 DEF Claim
    <2>2. CASE free # {} /\ out.p = noted /\ out.q = q /\ out.x = w
      <3>1. m \in Slots /\ noted[m].used /\ noted[m].name = s /\ noted[m].seq = w.seq /\ ~noted[m].done
        BY <1>3, <1>5, <1>7, <1>8, <2>2
      <3>2. \A k \in DOMAIN q : q[k].name = s /\ q[k].seq = w.seq => k = n
        BY <1>3, <1>4, <1>10, <1>13, <2>2 DEF SameSeq
      <3>3. \A k \in DOMAIN q : q[k].name = s /\ q[k].seq = w.seq => q[k].id = <<s, w.inc, w.seq>>
        BY <1>3, <1>4, <1>10, <3>2, SMTT(60)
      <3> QED
        BY <2>2, <3>1, <3>3 DEF Claim
    <2> QED
      BY <1>6, <2>1, <2>2 DEF q
  <1>14. ASSUME NEW t \in Routed \ {s}, NEW z, Claim(t, p, fsq, z) PROVE Claim(t, out.p, out.q, z)
    <2> SUFFICES ASSUME z.pc = "wait" PROVE Claim(t, out.p, out.q, z)
      BY DEF Claim
    <2>1. PICK i \in Slots : /\ p[i].used /\ p[i].name = t /\ p[i].seq = z.seq
                             /\ p[i].done => p[i].reply.id = <<t, z.inc, z.seq>>
      BY <1>14 DEF Claim
    <2>2. out.p[i] = p[i]
      BY <1>6, <1>7, <1>8, <2>1, SMTT(60)
    <2>3. \A k \in DOMAIN out.q : out.q[k].name = t => k \in DOMAIN fsq /\ out.q[k] = fsq[k]
      BY <1>4, <1>6, <1>10, SMTT(60) DEF q
    <2>4. \A k \in DOMAIN out.q : out.q[k].name = t /\ out.q[k].seq = z.seq => out.q[k].id = <<t, z.inc, z.seq>>
      BY <1>14, <2>3, SMTT(60) DEF Claim
    <2> QED
      BY <2>1, <2>2, <2>4, SMTT(60) DEF Claim
  <1> QED
    BY <1>12, <1>13, <1>14 DEF out

LEMMA EnterInv ==
    ASSUME ConstantsOK, CallInv, NEW s \in Routed, NEW out, Enter(s, out), box' = box,
           TableOK(out.p), IsSeq(out.q), Signed(out.q), DOMAIN out.x = Fields,
           misled' \subseteq Routed,
           ~reused /\ ~SameSeq(out.p, out.q) =>
               /\ misled' = {} /\ Claim(s, out.p, out.q, out.x)
               /\ \A t \in Routed \ {s} : Claim(t, out.p, out.q, ses[t])
    PROVE  CallInv'
  <1>1. pend' = out.p /\ fsq' = out.q /\ ses' = [ses EXCEPT ![s] = out.x]
        /\ reused' = (reused \/ SameSeq(out.p, out.q))
    BY DEF Enter
  <1>2. DOMAIN ses' = Sessions /\ ses'[s] = out.x /\ \A t \in Sessions : t # s => ses'[t] = ses[t]
    BY <1>1 DEF CallInv, Sessions
  <1>3. /\ \A t \in Sessions : DOMAIN ses'[t] = Fields
        /\ \A t \in Direct : ses'[t].inc = 1
    BY <1>2 DEF CallInv, Sessions, ConstantsOK
  <1>4. reused' \in BOOLEAN /\ (~reused' => ~reused /\ ~SameSeq(out.p, out.q))
    BY <1>1, ZenonT(60)
  <1>5. ASSUME ~reused' PROVE misled' = {} /\ Distinct(pend') /\ \A t \in Routed : Claim(t, pend', fsq', ses'[t])
    <2>1. ~reused /\ ~SameSeq(out.p, out.q)
      BY <1>4, <1>5
    <2>2. Distinct(pend')
      BY <1>1, <2>1 DEF SameSeq, Distinct
    <2>3. \A t \in Routed : Claim(t, out.p, out.q, ses'[t])
      BY <1>2, <2>1 DEF Sessions
    <2> QED
      BY <1>1, <2>1, <2>2, <2>3
  <1>6. IsSeq(fsq') /\ Signed(fsq') /\ TableOK(pend')
    BY <1>1
  <1>7. /\ DOMAIN box' = Direct
        /\ \A t \in Direct : IsSeq(box'[t]) /\ \A k \in DOMAIN box'[t] : box'[t][k].id = <<t, 1, box'[t][k].seq>>
    BY DEF CallInv
  <1> QED
    BY <1>2, <1>3, <1>4, <1>5, <1>6, <1>7, Zenon DEF CallInv, IsSeq, Signed, TableOK, Distinct, Claim

\* A call that goes out, from a table p in which the others still have theirs.
LEMMA IssueInv ==
    ASSUME ConstantsOK, CallInv, NEW s \in Routed, NEW p, TableOK(p), NEW x, DOMAIN x = Fields, NEW c,
           Enter(s, Issue(s, p, x, c)), box' = box, misled' \subseteq Routed,
           ~reused => misled' = {} /\ \A t \in Routed \ {s} : Claim(t, p, fsq, ses[t])
    PROVE  CallInv'
  <1> DEFINE out == Issue(s, p, x, c)
  <1>1. IsSeq(fsq) /\ Signed(fsq)
    BY SMTT(60) DEF CallInv
  <1>2. /\ TableOK(out.p) /\ IsSeq(out.q) /\ Signed(out.q)
        /\ DOMAIN out.x = Fields
        /\ ~SameSeq(out.p, out.q) => Claim(s, out.p, out.q, out.x)
        /\ \A t \in Routed \ {s} : \A z : Claim(t, p, fsq, z) => Claim(t, out.p, out.q, z)
    BY <1>1, IssueFacts
  <1> HIDE DEF out
  <1>3. Enter(s, out)
    BY DEF out
  <1> QED
    BY <1>2, <1>3, EnterInv, SMTT(60)

LEMMA CallsInv ==
    ASSUME ConstantsOK, CallInv, NEW s \in Routed,
           \/ \E o \in Opens[s] : Open(s, o)
           \/ \E raw \in Mkdirs[s] : Mkdir(s, raw)
           \/ \E fd \in Fds : ReadWrite(s, fd, "read") \/ ReadWrite(s, fd, "write")
    PROVE  CallInv'
  <1>1. TableOK(pend) /\ DOMAIN ses[s] = Fields /\ misled \subseteq Routed
        /\ (~reused => misled = {} /\ \A t \in Routed \ {s} : Claim(t, pend, fsq, ses[t]))
    BY DEF CallInv, Sessions
  <1>2. ASSUME NEW o \in Opens[s], Open(s, o) PROVE CallInv'
    <2> DEFINE fd == Least(Fds \ ses[s].fds)
               x == [ses[s] EXCEPT !.fds = @ \cup {fd}]
               c == [kind |-> "open", fd |-> fd, raw |-> o.raw, creat |-> o.creat, off |-> 0]
    <2>1. Enter(s, Issue(s, pend, x, c)) /\ box' = box /\ misled' = misled
      BY <1>2 DEF Open
    <2>2. DOMAIN x = Fields
      BY <1>1
    <2> HIDE DEF x, c
    <2> QED
      BY <1>1, <2>1, <2>2, IssueInv
  <1>3. ASSUME NEW raw \in Mkdirs[s], Mkdir(s, raw) PROVE CallInv'
    <2> DEFINE c == [kind |-> "mkdir", raw |-> raw, off |-> 0]
    <2>1. Enter(s, Issue(s, pend, ses[s], c)) /\ box' = box /\ misled' = misled
      BY <1>3 DEF Mkdir
    <2> HIDE DEF c
    <2> QED
      BY <1>1, <2>1, IssueInv
  <1>4. ASSUME NEW fd \in Fds, NEW kind \in {"read", "write"}, ReadWrite(s, fd, kind) PROVE CallInv'
    <2> DEFINE c == [kind |-> kind, fd |-> fd, raw |-> ses[s].files[fd].raw, off |-> ses[s].files[fd].off]
    <2>1. Enter(s, Issue(s, pend, ses[s], c)) /\ box' = box /\ misled' = misled
      BY <1>4 DEF ReadWrite
    <2> HIDE DEF c
    <2> QED
      BY <1>1, <2>1, IssueInv, SMTT(60)
  <1> QED
    BY <1>2, <1>3, <1>4, SMTT(60)

\* A session that waits and no other has an entry under its number, and it
\* is its own.
LEMMA OwnEntry ==
    ASSUME CallInv, ~reused, NEW s \in Routed, ses[s].pc = "wait",
           NEW i \in Slots, pend[i].used, pend[i].seq = ses[s].seq
    PROVE  /\ pend[i].name = s
           /\ pend[i].done => pend[i].reply.id = Id(s)
           /\ \A t \in Routed \ {s} : Claim(t, [pend EXCEPT ![i] = Empty], fsq, ses[t])
  <1>1. Claim(s, pend, fsq, ses[s]) /\ Distinct(pend) /\ DOMAIN pend = Slots
        /\ \A t \in Routed : Claim(t, pend, fsq, ses[t])
    BY DEF CallInv, TableOK
  <1>2. pend[i].name = s /\ (pend[i].done => pend[i].reply.id = Id(s))
    BY <1>1 DEF Claim, Distinct, Id
  <1>3. ASSUME NEW t \in Routed \ {s} PROVE Claim(t, [pend EXCEPT ![i] = Empty], fsq, ses[t])
    <2> DEFINE p == [pend EXCEPT ![i] = Empty]
    <2>1. \A j \in Slots : pend[j].name = t => p[j] = pend[j]
      BY <1>1, <1>2
    <2> HIDE DEF p
    <2>2. Claim(t, p, fsq, ses[t])
      <3>1. SUFFICES ASSUME ses[t].pc = "wait"
                     PROVE  \E j \in Slots : /\ p[j].used /\ p[j].name = t /\ p[j].seq = ses[t].seq
                                             /\ p[j].done => p[j].reply.id = <<t, ses[t].inc, ses[t].seq>>
        BY <1>1, SMTT(60) DEF Claim
      <3>2. PICK j \in Slots : /\ pend[j].used /\ pend[j].name = t /\ pend[j].seq = ses[t].seq
                               /\ pend[j].done => pend[j].reply.id = <<t, ses[t].inc, ses[t].seq>>
        BY <1>1, <3>1, SMTT(60) DEF Claim
      <3>3. p[j] = pend[j]
        BY <2>1, <3>2
      <3> QED
        BY <3>2, <3>3, SMTT(60)
    <2> QED
      BY <2>2 DEF p
  <1> QED
    BY <1>2, <1>3, Zenon

LEMMA EmptiedOK ==
    ASSUME TableOK(pend), NEW i PROVE TableOK([pend EXCEPT ![i] = Empty])
  BY DEF TableOK, Empty

LEMMA TakeInv ==
    ASSUME ConstantsOK, CallInv, NEW s \in Routed, Take(s)
    PROVE  CallInv'
  <1> DEFINE x == ses[s]
             c == x.call
             i == Least(Arrived(x.seq))
             r == pend[i].reply
             p == [pend EXCEPT ![i] = Empty]
             goOn == c.kind = "open" /\ c.creat /\ r.st = "ok"
             last == [p |-> p, q |-> fsq, x |-> Finish(x, c, r), lost |-> {}]
  <1>1. /\ x.pc = "wait" /\ Arrived(x.seq) # {} /\ box' = box
        /\ misled' = misled \cup {t \in {s} : r.id # Id(s)}
        /\ Enter(s, IF goOn THEN Issue(s, p, x, [c EXCEPT !.creat = FALSE]) ELSE last)
    BY SMTT(60) DEF Take
  <1>2. i \in Slots /\ pend[i].used /\ pend[i].done /\ pend[i].seq = x.seq
    <2>1. Arrived(x.seq) \in SUBSET Nat
      BY SMTT(60) DEF Arrived, Slots, ConstantsOK
    <2>2. i \in Arrived(x.seq)
      BY <1>1, <2>1, LeastIsIn
    <2> QED
      BY <2>2 DEF Arrived
  <1>3. DOMAIN x = Fields /\ TableOK(pend) /\ misled \subseteq Routed /\ IsSeq(fsq) /\ Signed(fsq)
    BY DEF CallInv, Sessions
  <1>4. TableOK(p)
    BY <1>3, EmptiedOK, SMTT(60)
  <1>5. misled' \subseteq Routed
    BY <1>1, <1>3
  <1>6. ~reused => misled' = {} /\ \A t \in Routed \ {s} : Claim(t, p, fsq, ses[t])
    <2> SUFFICES ASSUME ~reused PROVE misled' = {} /\ \A t \in Routed \ {s} : Claim(t, p, fsq, ses[t])
      BY Zenon
    <2> HIDE DEF i
    <2>1. r.id = Id(s) /\ \A t \in Routed \ {s} : Claim(t, p, fsq, ses[t])
      BY <1>1, <1>2, OwnEntry, Zenon
    <2>2. misled = {}
      BY DEF CallInv
    <2> HIDE DEF p
    <2> QED
      BY <1>1, <2>1, <2>2
  <1>7. DOMAIN last.x = Fields /\ last.x.pc = "idle"
    BY <1>3 DEF Finish, Release, Fields
  <1>8. last.p = p /\ last.q = fsq
    OBVIOUS
  <1> HIDE DEF p, last, x, c, i, r
  <1>9. CASE goOn
    BY <1>1, <1>3, <1>4, <1>5, <1>6, <1>9, IssueInv, SMTT(60)
  <1>10. CASE ~goOn
    <2>1. Enter(s, last)
      BY <1>1, <1>10, SMTT(60)
    <2>2. Claim(s, last.p, last.q, last.x)
      BY <1>7, SMTT(60) DEF Claim
    <2> QED
      BY <1>1, <1>3, <1>4, <1>5, <1>6, <1>7, <1>8, <2>1, <2>2, EnterInv, SMTT(60)
  <1> QED
    BY <1>9, <1>10, SMTT(60)

LEMMA TimeOutInv ==
    ASSUME ConstantsOK, CallInv, NEW s \in Routed, TimeOut(s)
    PROVE  CallInv'
  <1> DEFINE p == GivenUp(ses[s].seq)
             out == [p |-> p, q |-> fsq, x |-> Release(ses[s], ses[s].call), lost |-> {}]
             i == Least(Held(ses[s].seq))
  <1>1. ses[s].pc = "wait" /\ Enter(s, out) /\ box' = box /\ misled' = misled
    BY DEF TimeOut, MayGiveUp
  <1>2. DOMAIN ses[s] = Fields /\ TableOK(pend) /\ misled \subseteq Routed /\ IsSeq(fsq) /\ Signed(fsq)
        /\ (~reused => misled = {} /\ \A t \in Routed : Claim(t, pend, fsq, ses[t]))
    BY DEF CallInv, Sessions
  <1>3. Held(ses[s].seq) # {} => i \in Slots /\ pend[i].used /\ pend[i].seq = ses[s].seq
    <2>1. Held(ses[s].seq) \in SUBSET Nat
      BY DEF Held, Slots, ConstantsOK
    <2>2. Held(ses[s].seq) # {} => i \in Held(ses[s].seq)
      BY <2>1, LeastIsIn
    <2> QED
      BY <2>2 DEF Held
  <1>4. TableOK(p) /\ (~reused => \A t \in Routed \ {s} : Claim(t, p, fsq, ses[t]))
    <2>1. CASE Held(ses[s].seq) = {}
      <3>1. p = pend
        BY <2>1 DEF GivenUp
      <3> HIDE DEF p
      <3> QED
        BY <1>2, <3>1
    <2>2. CASE Held(ses[s].seq) # {}
      <3>1. p = [pend EXCEPT ![i] = Empty]
        BY <2>2 DEF GivenUp
      <3> HIDE DEF p, i
      <3>2. TableOK(p)
        BY <1>2, <3>1, EmptiedOK, Zenon
      <3>3. ~reused => \A t \in Routed \ {s} : Claim(t, [pend EXCEPT ![i] = Empty], fsq, ses[t])
        BY <1>1, <1>3, <2>2, OwnEntry
      <3> QED
        BY <3>1, <3>2, <3>3, Zenon
    <2> QED
      BY <2>1, <2>2
  <1>5. DOMAIN out.x = Fields /\ out.x.pc = "idle"
    BY <1>2, Zenon DEF Release, Fields
  <1>6. out.p = p /\ out.q = fsq
    OBVIOUS
  <1> HIDE DEF p, out
  <1>7. Claim(s, out.p, out.q, out.x)
    BY <1>5 DEF Claim
  <1> QED
    BY <1>1, <1>2, <1>4, <1>5, <1>6, <1>7, EnterInv, SMTT(60)

\* A step of one session that leaves the table and the ghosts alone, and after
\* which a routed session does not wait.
LEMMA QuietInv ==
    ASSUME ConstantsOK, CallInv, NEW s \in Sessions, NEW x, DOMAIN x = Fields,
           s \in Direct => x.inc = 1, s \in Routed => x.pc # "wait",
           ses' = [ses EXCEPT ![s] = x], UNCHANGED <<box, pend, misled, reused>>,
           IsSeq(fsq'), Signed(fsq'),
           \A t \in Routed : \A z : Claim(t, pend, fsq, z) => Claim(t, pend, fsq', z)
    PROVE  CallInv'
  <1>1. DOMAIN ses' = Sessions /\ ses'[s] = x /\ \A t \in Sessions : t # s => ses'[t] = ses[t]
    BY DEF CallInv, Sessions
  <1>2. /\ \A t \in Sessions : DOMAIN ses'[t] = Fields
        /\ \A t \in Direct : ses'[t].inc = 1
    BY <1>1 DEF CallInv, Sessions
  <1>3. ASSUME ~reused, NEW t \in Routed PROVE Claim(t, pend, fsq', ses'[t])
    <2>1. CASE t = s
      BY <1>1, <2>1, SMTT(60) DEF Claim
    <2>2. CASE t # s
      BY <1>1, <1>3, <2>2, SMTT(60) DEF CallInv, Sessions
    <2> QED
      BY <2>1, <2>2
  <1>4. /\ IsSeq(fsq') /\ Signed(fsq') /\ TableOK(pend) /\ misled \subseteq Routed /\ reused \in BOOLEAN
        /\ DOMAIN box = Direct
        /\ \A t \in Direct : IsSeq(box[t]) /\ \A k \in DOMAIN box[t] : box[t][k].id = <<t, 1, box[t][k].seq>>
        /\ ~reused => misled = {} /\ Distinct(pend)
    BY DEF CallInv
  <1>5. pend' = pend /\ box' = box /\ misled' = misled /\ reused' = reused
    OBVIOUS
  <1>6. /\ TableOK(pend') /\ misled' \subseteq Routed /\ reused' \in BOOLEAN
        /\ DOMAIN box' = Direct
        /\ \A t \in Direct : IsSeq(box'[t]) /\ \A k \in DOMAIN box'[t] : box'[t][k].id = <<t, 1, box'[t][k].seq>>
    BY <1>4, <1>5, SMTT(60)
  <1>7. ~reused' => misled' = {} /\ Distinct(pend') /\ \A t \in Routed : Claim(t, pend', fsq', ses'[t])
    BY <1>3, <1>4, <1>5
  <1> QED
    BY <1>1, <1>2, <1>4, <1>6, <1>7, ZenonT(60) DEF CallInv, TableOK, IsSeq, Signed, Claim, Distinct

LEMMA LeaveInv ==
    ASSUME ConstantsOK, CallInv, NEW s \in Routed, \/ \E fd \in Fds : Close(s, fd)
                                                  \/ Kill(s)
                                                  \/ \E sid \in Sids : Restart(s, sid)
    PROVE  CallInv'
  <1>1. /\ DOMAIN ses[s] = Fields /\ s \in Sessions /\ s \notin Direct /\ IsSeq(fsq) /\ Signed(fsq)
        /\ DOMAIN ses = Sessions
    BY DEF CallInv, Sessions, ConstantsOK
  <1>2. ASSUME NEW fd \in Fds, Close(s, fd) PROVE CallInv'
    <2> DEFINE x == Release(ses[s], [kind |-> "open", fd |-> fd])
    <2>1. ses' = [ses EXCEPT ![s] = x] /\ UNCHANGED <<fsq, box, pend, misled, reused>>
      BY <1>2 DEF Close
    <2>2. DOMAIN x = Fields /\ x.pc # "wait"
      BY <1>1 DEF Release, Fields
    <2> HIDE DEF x
    <2> QED
      BY <1>1, <2>1, <2>2, QuietInv, Zenon
  <1>3. ASSUME Kill(s) PROVE CallInv'
    <2> DEFINE x == [ses[s] EXCEPT !.pc = "dead", !.call = NoCall]
    <2>1. ses' = [ses EXCEPT ![s] = x] /\ UNCHANGED <<fsq, box, pend, misled, reused>>
      BY <1>1, <1>3, Zenon DEF Kill, Fields
    <2>2. DOMAIN x = Fields /\ x.pc # "wait"
      BY <1>1 DEF Fields
    <2> HIDE DEF x
    <2> QED
      BY <1>1, <2>1, <2>2, QuietInv, Zenon
  <1>4. ASSUME NEW sid \in Sids, Restart(s, sid) PROVE CallInv'
    <2> DEFINE x == Fresh(ses[s].inc + 1, sid, left[sid])
    <2>1. ses' = [ses EXCEPT ![s] = x] /\ UNCHANGED <<fsq, box, pend, misled, reused>>
      BY <1>4 DEF Restart
    <2>2. DOMAIN x = Fields /\ x.pc # "wait"
      BY DEF Fields, Fresh
    <2> HIDE DEF x
    <2> QED
      BY <1>1, <2>1, <2>2, QuietInv, Zenon
  <1> QED
    BY <1>2, <1>3, <1>4, SMTT(60)

LEMMA DirectInv ==
    ASSUME ConstantsOK, CallInv, NEW s \in Direct, (\E r \in Requests : Request(s, r)) \/ NoAnswer(s)
    PROVE  CallInv'
  <1>1. /\ DOMAIN ses[s] = Fields /\ s \in Sessions /\ s \notin Routed /\ IsSeq(fsq) /\ Signed(fsq)
        /\ DOMAIN ses = Sessions /\ ses[s].inc = 1
    BY DEF CallInv, Sessions, ConstantsOK
  <1>2. ASSUME NoAnswer(s) PROVE CallInv'
    <2> DEFINE x == [ses[s] EXCEPT !.pc = "idle"]
    <2>1. ses' = [ses EXCEPT ![s] = x] /\ UNCHANGED <<fsq, box, pend, misled, reused>>
      BY <1>1, <1>2 DEF NoAnswer
    <2>2. DOMAIN x = Fields /\ x.inc = 1
      BY <1>1 DEF Fields
    <2> HIDE DEF x
    <2> QED
      BY <1>1, <2>1, <2>2, QuietInv, Zenon
  <1>3. ASSUME NEW r \in Requests, Request(s, r) PROVE CallInv'
    <2> DEFINE x == [ses[s] EXCEPT !.seq = @ + 1, !.pc = "wait"]
               k == [name |-> s, id |-> <<s, x.inc, x.seq>>, seq |-> x.seq, uid |-> Uid[s],
                     off |-> 0, bytes |-> <<2>>]
               f == Framed(r, k)
    <2>1. /\ ses' = [ses EXCEPT ![s] = x] /\ UNCHANGED <<box, pend, misled, reused>>
          /\ fsq' = Append(fsq, f) \/ fsq' = fsq
      BY <1>3 DEF Request
    <2>2. DOMAIN x = Fields /\ x.inc = 1
      BY <1>1 DEF Fields
    <2> HIDE DEF x
    <2>3. f.name = s /\ f.seq = x.seq /\ f.id = <<s, 1, x.seq>>
      <3>1. DOMAIN k = {"name", "id", "seq", "uid", "off", "bytes"}
            /\ k.name = s /\ k.seq = x.seq /\ k.id = <<s, 1, x.seq>>
        BY <2>2
      <3> HIDE DEF k
      <3> QED
        BY <3>1 DEF Framed
    <2> HIDE DEF f
    <2>4. IsSeq(fsq') /\ \A j \in DOMAIN fsq' : fsq'[j] = f \/ (j \in DOMAIN fsq /\ fsq'[j] = fsq[j])
      <3>1. /\ IsSeq(Append(fsq, f)) /\ Len(fsq) \in Nat /\ DOMAIN fsq = 1 .. Len(fsq)
            /\ DOMAIN Append(fsq, f) = 1 .. Len(fsq) + 1 /\ Append(fsq, f)[Len(fsq) + 1] = f
            /\ \A i \in 1 .. Len(fsq) : Append(fsq, f)[i] = fsq[i]
        BY <1>1, SeqAppended
      <3> DEFINE a == Append(fsq, f)
      <3>2. IsSeq(a) /\ \A j \in DOMAIN a : a[j] = f \/ (j \in DOMAIN fsq /\ a[j] = fsq[j])
        BY <3>1
      <3>3. fsq' = a \/ fsq' = fsq
        BY <2>1
      <3> HIDE DEF a
      <3> QED
        BY <1>1, <3>2, <3>3, SMTT(60)
    <2>5. Signed(fsq')
      BY <1>1, <2>3, <2>4, SMTT(60) DEF Signed
    <2>6. \A t \in Routed : \A z : Claim(t, pend, fsq, z) => Claim(t, pend, fsq', z)
      BY <1>1, <2>3, <2>4, SMTT(60) DEF Claim
    <2> QED
      BY <1>1, <2>1, <2>2, <2>4, <2>5, <2>6, QuietInv, Zenon
  <1> QED
    BY <1>2, <1>3, SMTT(60)

LEMMA ReceiveInv ==
    ASSUME ConstantsOK, CallInv, NEW s \in Direct, Receive(s)
    PROVE  CallInv'
  <1> DEFINE r == Head(box[s])
             x == [ses[s] EXCEPT !.pc = "idle"]
  <1>1. /\ DOMAIN ses[s] = Fields /\ s \in Sessions /\ s \notin Routed /\ IsSeq(fsq) /\ Signed(fsq)
        /\ DOMAIN ses = Sessions /\ ses[s].inc = 1 /\ DOMAIN box = Direct
        /\ IsSeq(box[s]) /\ \A k \in DOMAIN box[s] : box[s][k].id = <<s, 1, box[s][k].seq>>
    BY DEF CallInv, Sessions, ConstantsOK
  <1>2. /\ box[s] # <<>> /\ box' = [box EXCEPT ![s] = Tail(@)]
        /\ UNCHANGED <<fsq, pend, reused>>
        /\ \/ /\ r.seq = ses[s].seq
              /\ misled' = misled \cup {t \in {s} : r.id # Id(s)}
              /\ ses' = [ses EXCEPT ![s] = x]
           \/ UNCHANGED <<misled, ses>>
    BY <1>1 DEF Receive, IsAwaited
  <1>3. r.id = <<s, 1, r.seq>> /\ IsSeq(Tail(box[s]))
        /\ \A k \in DOMAIN Tail(box[s]) : Tail(box[s])[k].id = <<s, 1, Tail(box[s])[k].seq>>
    BY <1>1, <1>2, SeqTail
  <1>4. misled' = misled
    BY <1>1, <1>2, <1>3, ZenonT(60) DEF Id
  <1>5. DOMAIN x = Fields /\ x.inc = 1
    BY <1>1 DEF Fields
  <1> HIDE DEF x, r
  <1>6. /\ DOMAIN ses' = Sessions /\ \A t \in Sessions : DOMAIN ses'[t] = Fields
        /\ \A t \in Direct : ses'[t].inc = 1
        /\ \A t \in Routed : ses'[t] = ses[t]
    BY <1>1, <1>2, <1>5 DEF CallInv, Sessions
  <1>7. /\ DOMAIN box' = Direct
        /\ \A t \in Direct : IsSeq(box'[t]) /\ \A k \in DOMAIN box'[t] : box'[t][k].id = <<t, 1, box'[t][k].seq>>
    <2>1. DOMAIN box' = Direct /\ box'[s] = Tail(box[s]) /\ \A t \in Direct : t # s => box'[t] = box[t]
      BY <1>1, <1>2
    <2>2. \A t \in Direct : IsSeq(box[t]) /\ \A k \in DOMAIN box[t] : box[t][k].id = <<t, 1, box[t][k].seq>>
      BY DEF CallInv
    <2>3. ASSUME NEW t \in Direct
          PROVE  IsSeq(box'[t]) /\ \A k \in DOMAIN box'[t] : box'[t][k].id = <<t, 1, box'[t][k].seq>>
      <3>1. CASE t = s
        BY <1>3, <2>1, <3>1, Zenon
      <3>2. CASE t # s
        BY <2>1, <2>2, <3>2
      <3> QED
        BY <3>1, <3>2, SMTT(60)
    <2> QED
      BY <2>1, <2>3
  <1>8. pend' = pend /\ fsq' = fsq /\ reused' = reused
    BY <1>2
  <1>9. /\ TableOK(pend') /\ misled' \subseteq Routed /\ reused' \in BOOLEAN /\ IsSeq(fsq') /\ Signed(fsq')
        /\ ~reused' => misled' = {} /\ Distinct(pend') /\ \A t \in Routed : Claim(t, pend', fsq', ses'[t])
    BY <1>4, <1>6, <1>8 DEF CallInv
  <1> QED
    BY <1>6, <1>7, <1>9, Zenon DEF CallInv, TableOK, IsSeq, Signed, Claim, Distinct

\* The service answers the request at the head of its port.
LEMMA ServeInv ==
    ASSUME ConstantsOK, CallInv, Serve
    PROVE  CallInv'
  <1> DEFINE q == Head(fsq)
             o == Dispatch(tree, users, q)
             hit == Answered(q.name, q.seq)
             m == Least(hit)
             r == [id |-> q.id, seq |-> q.seq, st |-> o.st, n |-> o.n]
  <1>1. /\ fsq # <<>> /\ fsq' = Tail(fsq) /\ UNCHANGED <<ses, misled, reused>>
        /\ \/ pend' = pend /\ box' = box
           \/ /\ hit # {} /\ box' = box
              /\ pend' = [pend EXCEPT ![m].done = TRUE, ![m].reply = r]
           \/ /\ pend' = pend
              /\ box' = [s \in Direct |-> IF s = q.name /\ Len(box[s]) < MaxQ
                                          THEN Append(box[s], r) ELSE box[s]]
    BY DEF Serve
  <1>2. IsSeq(fsq) /\ Signed(fsq) /\ DOMAIN box = Direct /\ TableOK(pend)
        /\ \A s \in Direct : IsSeq(box[s]) /\ \A k \in DOMAIN box[s] : box[s][k].id = <<s, 1, box[s][k].seq>>
    BY DEF CallInv
  <1>3. /\ IsSeq(fsq') /\ q = fsq[1] /\ 1 \in DOMAIN fsq
        /\ \A k \in DOMAIN fsq' : k + 1 \in DOMAIN fsq /\ fsq'[k] = fsq[k + 1]
    BY <1>1, <1>2, SeqTail, SMTT(60)
  <1>4. r.id = q.id /\ r.seq = q.seq
    BY SMTT(60)
  <1>5. hit # {} => m \in Slots /\ pend[m].used /\ ~pend[m].done /\ pend[m].name = q.name /\ pend[m].seq = q.seq
    <2>1. hit \in SUBSET Nat
      BY DEF Answered, Slots, ConstantsOK
    <2>2. hit # {} => m \in hit
      BY <2>1, LeastIsIn
    <2> QED
      BY <2>2 DEF Answered, Awaiting
  <1> HIDE DEF q, r, hit, m, o
  <1>6. Signed(fsq')
    BY <1>2, <1>3, SMTT(60) DEF Signed
  <1>7. /\ DOMAIN box' = Direct
        /\ \A t \in Direct : IsSeq(box'[t]) /\ \A k \in DOMAIN box'[t] : box'[t][k].id = <<t, 1, box'[t][k].seq>>
    <2>1. CASE box' = box
      BY <1>2, <2>1, SMTT(60)
    <2>2. CASE box' = [s \in Direct |-> IF s = q.name /\ Len(box[s]) < MaxQ
                                        THEN Append(box[s], r) ELSE box[s]]
      <3>1. ASSUME NEW t \in Direct
            PROVE  IsSeq(box'[t]) /\ \A k \in DOMAIN box'[t] : box'[t][k].id = <<t, 1, box'[t][k].seq>>
        <4>1. CASE box'[t] = box[t]
          BY <1>2, <4>1
        <4>2. CASE t = q.name /\ box'[t] = Append(box[t], r)
          <5>1. r.id = <<t, 1, r.seq>>
            BY <1>2, <1>3, <1>4, <4>2, SMTT(60) DEF Signed
          <5>2. IsSeq(box[t]) /\ \A k \in DOMAIN box[t] : box[t][k].id = <<t, 1, box[t][k].seq>>
            BY <1>2
          <5> DEFINE b == box[t]
                     a == Append(b, r)
          <5>3. /\ IsSeq(a) /\ Len(b) \in Nat /\ DOMAIN b = 1 .. Len(b) /\ DOMAIN a = 1 .. Len(b) + 1
                /\ a[Len(b) + 1] = r /\ \A i \in 1 .. Len(b) : a[i] = b[i]
            BY <5>2, SeqAppended, SMTT(60)
          <5>4. IsSeq(a) /\ \A k \in DOMAIN a : a[k].id = <<t, 1, a[k].seq>>
            <6> HIDE DEF a
            <6> QED
              BY <5>1, <5>2, <5>3, SMTT(60)
          <5>5. box'[t] = a
            BY <4>2, SMTT(60)
          <5> HIDE DEF a
          <5> QED
            BY <5>4, <5>5
        <4> QED
          BY <2>2, <4>1, <4>2, SMTT(60)
      <3> QED
        BY <2>2, <3>1, SMTT(60)
    <2> QED
      BY <1>1, <2>1, <2>2, SMTT(60)
  \* What the table keeps: the entries and their numbers; one becomes done.
  <1>8. /\ TableOK(pend')
        /\ \A i \in Slots : pend[i].used =>
             /\ pend'[i].used /\ pend'[i].name = pend[i].name /\ pend'[i].seq = pend[i].seq
             /\ \/ pend'[i] = pend[i]
                \/ pend[i].name = q.name /\ pend[i].seq = q.seq /\ pend'[i].reply.id = q.id
        /\ \A i \in Slots : pend'[i].used => pend[i].used
    <2>1. CASE pend' = pend
      BY <1>2, <2>1
    <2>2. CASE hit # {} /\ pend' = [pend EXCEPT ![m].done = TRUE, ![m].reply = r]
      <3> DEFINE e == [pend[m] EXCEPT !.done = TRUE, !.reply = r]
      <3>1. DOMAIN pend = Slots /\ m \in Slots /\ DOMAIN pend[m] = {"used", "done", "name", "seq", "reply"}
        BY <1>2, <1>5, <2>2 DEF TableOK
      <3>2. /\ e.used = pend[m].used /\ e.name = pend[m].name /\ e.seq = pend[m].seq /\ e.reply = r
            /\ DOMAIN e = {"used", "done", "name", "seq", "reply"}
        BY <3>1
      <3>3. pend' = [pend EXCEPT ![m] = e]
        BY <2>2, <3>1, Zenon
      <3> HIDE DEF e
      <3>4. DOMAIN pend' = Slots /\ pend'[m] = e /\ \A i \in Slots : i # m => pend'[i] = pend[i]
        BY <3>1, <3>3
      <3>5. TableOK(pend')
        BY <1>2, <3>2, <3>4 DEF TableOK
      <3>6. e.used /\ e.name = q.name /\ e.seq = q.seq /\ e.reply.id = q.id /\ pend[m].used
            /\ pend[m].name = q.name /\ pend[m].seq = q.seq
        BY <1>4, <1>5, <2>2, <3>2
      <3> QED
        BY <3>4, <3>5, <3>6
    <2> QED
      BY <1>1, <2>1, <2>2, Zenon
  <1>9. ASSUME ~reused PROVE Distinct(pend') /\ \A t \in Routed : Claim(t, pend', fsq', ses[t])
    <2>1. Distinct(pend) /\ \A t \in Routed : Claim(t, pend, fsq, ses[t])
      BY <1>9 DEF CallInv
    <2>2. Distinct(pend')
      BY <1>8, <2>1 DEF Distinct
    <2>3. ASSUME NEW t \in Routed, ses[t].pc = "wait"
          PROVE  /\ \E i \in Slots : /\ pend'[i].used /\ pend'[i].name = t /\ pend'[i].seq = ses[t].seq
                                     /\ pend'[i].done => pend'[i].reply.id = <<t, ses[t].inc, ses[t].seq>>
                 /\ \A k \in DOMAIN fsq' : fsq'[k].name = t /\ fsq'[k].seq = ses[t].seq
                                             => fsq'[k].id = <<t, ses[t].inc, ses[t].seq>>
      <3>1. /\ \E i \in Slots : /\ pend[i].used /\ pend[i].name = t /\ pend[i].seq = ses[t].seq
                                /\ pend[i].done => pend[i].reply.id = <<t, ses[t].inc, ses[t].seq>>
            /\ \A k \in DOMAIN fsq : fsq[k].name = t /\ fsq[k].seq = ses[t].seq
                                       => fsq[k].id = <<t, ses[t].inc, ses[t].seq>>
        BY <2>1, <2>3, ZenonT(60) DEF Claim
      <3>2. PICK i \in Slots : /\ pend[i].used /\ pend[i].name = t /\ pend[i].seq = ses[t].seq
                               /\ pend[i].done => pend[i].reply.id = <<t, ses[t].inc, ses[t].seq>>
        BY <3>1
      <3>3. /\ pend'[i].used /\ pend'[i].name = t /\ pend'[i].seq = ses[t].seq
            /\ pend'[i].done => pend'[i].reply.id = <<t, ses[t].inc, ses[t].seq>>
        <4>1. CASE pend'[i] = pend[i]
          BY <3>2, <4>1
        <4>2. CASE pend[i].name = q.name /\ pend[i].seq = q.seq /\ pend'[i].reply.id = q.id
          <5>1. q.id = <<t, ses[t].inc, ses[t].seq>>
            BY <1>3, <3>1, <3>2, <4>2
          <5> QED
            BY <1>8, <3>2, <4>2, <5>1, Zenon
        <4> QED
          BY <1>8, <3>2, <4>1, <4>2
      <3>4. \A k \in DOMAIN fsq' : fsq'[k].name = t /\ fsq'[k].seq = ses[t].seq
                                     => fsq'[k].id = <<t, ses[t].inc, ses[t].seq>>
        BY <1>3, <3>1
      <3> QED
        BY <3>3, <3>4
    <2> QED
      BY <2>2, <2>3, ZenonT(60) DEF Claim
  <1>10. ses' = ses /\ misled' = misled /\ reused' = reused
    BY <1>1
  <1>11. /\ DOMAIN ses' = Sessions /\ \A t \in Sessions : DOMAIN ses'[t] = Fields
         /\ \A t \in Direct : ses'[t].inc = 1
         /\ misled' \subseteq Routed /\ reused' \in BOOLEAN
         /\ ~reused' => misled' = {} /\ Distinct(pend') /\ \A t \in Routed : Claim(t, pend', fsq', ses'[t])
    BY <1>9, <1>10 DEF CallInv
  <1> QED
    BY <1>3, <1>6, <1>7, <1>8, <1>11, ZenonT(60) DEF CallInv, TableOK, IsSeq, Signed, Claim, Distinct

LEMMA CallInit ==
    ASSUME ConstantsOK, Init PROVE CallInv
  <1>1. fsq = <<>> /\ box = [s \in Direct |-> <<>>] /\ pend = [i \in Slots |-> Empty]
        /\ ses = [s \in Sessions |-> Fresh(1, IF s \in Routed THEN FirstSid[s] ELSE 0, Unused)]
        /\ misled = {} /\ reused = FALSE
    BY DEF Init
  <1>2. IsSeq(<<>>) /\ DOMAIN (<<>>) = {}
    BY DEF IsSeq
  <1>3. IsSeq(fsq) /\ Signed(fsq) /\ DOMAIN box = Direct
        /\ \A s \in Direct : IsSeq(box[s]) /\ \A k \in DOMAIN box[s] : box[s][k].id = <<s, 1, box[s][k].seq>>
    BY <1>1, <1>2 DEF Signed
  <1>4. DOMAIN pend = Slots /\ \A i \in Slots : ~pend[i].used
    BY <1>1 DEF Empty
  <1>5. \A s \in Sessions : DOMAIN ses[s] = Fields /\ ses[s].inc = 1 /\ ses[s].pc = "idle"
    BY <1>1 DEF Fresh, Fields
  <1> QED
    BY <1>1, <1>3, <1>4, <1>5, ZenonT(60) DEF CallInv, TableOK, Distinct, Claim, Sessions

LEMMA CallStep ==
    ASSUME ConstantsOK, CallInv, [Next]_vars PROVE CallInv'
  <1>1. CASE UNCHANGED vars
    <2>1. fsq' = fsq /\ box' = box /\ pend' = pend /\ ses' = ses /\ misled' = misled /\ reused' = reused
      BY <1>1 DEF vars
    <2>2. /\ IsSeq(fsq') /\ Signed(fsq')
          /\ DOMAIN box' = Direct
          /\ \A s \in Direct : IsSeq(box'[s]) /\ \A k \in DOMAIN box'[s] : box'[s][k].id = <<s, 1, box'[s][k].seq>>
          /\ TableOK(pend')
          /\ DOMAIN ses' = Sessions /\ \A s \in Sessions : DOMAIN ses'[s] = Fields
          /\ \A s \in Direct : ses'[s].inc = 1
          /\ misled' \subseteq Routed /\ reused' \in BOOLEAN
          /\ ~reused' => misled' = {} /\ Distinct(pend') /\ \A t \in Routed : Claim(t, pend', fsq', ses'[t])
      BY <2>1 DEF CallInv
    <2> QED
      BY <2>2, Zenon DEF CallInv, TableOK, IsSeq, Signed, Claim, Distinct
  <1>2. CASE Serve
    BY <1>2, ServeInv
  <1>3. ASSUME NEW s \in Routed, \/ \E o \in Opens[s] : Open(s, o)
                                 \/ \E raw \in Mkdirs[s] : Mkdir(s, raw)
                                 \/ \E fd \in Fds : ReadWrite(s, fd, "read") \/ ReadWrite(s, fd, "write")
        PROVE  CallInv'
    BY <1>3, CallsInv
  <1>4. ASSUME NEW s \in Routed, \/ \E fd \in Fds : Close(s, fd)
                                 \/ Kill(s) \/ \E sid \in Sids : Restart(s, sid)
        PROVE  CallInv'
    BY <1>4, LeaveInv
  <1>5. ASSUME NEW s \in Routed, Take(s) PROVE CallInv'
    BY <1>5, TakeInv
  <1>6. ASSUME NEW s \in Routed, TimeOut(s) PROVE CallInv'
    BY <1>6, TimeOutInv
  <1>7. ASSUME NEW s \in Direct, (\E r \in Requests : Request(s, r)) \/ NoAnswer(s) PROVE CallInv'
    BY <1>7, DirectInv
  <1>8. ASSUME NEW s \in Direct, Receive(s) PROVE CallInv'
    BY <1>8, ReceiveInv
  <1> QED
    BY <1>1, <1>2, <1>3, <1>4, <1>5, <1>6, <1>7, <1>8 DEF Next

\* fsroute_intercept, fsroute_wait and recvMatch: a session takes no reply but
\* the one to its own call: a direct session never, a routed one as long as no
\* number is used for two calls under way.
THEOREM RepliesReachTheirCall == Spec => []RepliesAreOwn
  <1> USE SessionsAssumption
  <1>1. Init => CallInv
    BY CallInit
  <1>2. CallInv /\ [Next]_vars => CallInv'
    BY CallStep
  <1>3. CallInv => RepliesAreOwn
    BY DEF CallInv, RepliesAreOwn, ConstantsOK
  <1> QED
    BY <1>1, <1>2, <1>3, PTL DEF Spec

=============================================================================
