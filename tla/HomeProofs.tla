----------------------------- MODULE HomeProofs -----------------------------
(***************************************************************************)
(* File calls (FsCall): a request changes no home but that of the user who *)
(* sent it.                                                                *)
(***************************************************************************)
EXTENDS FsProofs

\* What a prefix of two names says of a path.
LEMMA PrefixNames ==
    ASSUME NEW path, IsSeq(path), NEW n, IsUnder(path, <<"home", n>>)
    PROVE  2 \in DOMAIN path /\ path[1] = "home" /\ path[2] = n
  <1> DEFINE h == <<"home", n>>
             b == SubSeq(path, 1, 2)
  <1>1. path \in Seq(Range(path))
    BY Zenon DEF IsSeq
  <1>2. Len(h) = 2 /\ h[1] = "home" /\ h[2] = n
    OBVIOUS
  <1>3. 2 <= Len(path) /\ b = h
    BY <1>2 DEF IsUnder
  <1>4. 2 \in DOMAIN path /\ b[1] = path[1] /\ b[2] = path[2]
    BY <1>1, <1>3
  <1> HIDE DEF b
  <1> QED
    BY <1>2, <1>3, <1>4

LEMMA HomeNames ==
    ASSUME NEW u
    PROVE  IsSeq(Home(u)) /\ DOMAIN Home(u) = 1 .. 2 /\ Home(u)[2] = u.name
  <1> DEFINE h == Home(u)
  <1>1. PICK n \in Nat : n = 2
    OBVIOUS
  <1>2. h \in Seq({"home", u.name}) /\ Len(h) = n /\ h[2] = u.name
    BY <1>1 DEF Home
  <1> HIDE DEF h
  <1>3. DOMAIN h = 1 .. n /\ h \in [1 .. n -> {"home", u.name}]
    BY <1>2
  <1>4. h \in [1 .. n -> Range(h)]
    BY <1>3 DEF Range
  <1>5. h \in Seq(Range(h))
    BY <1>4
  <1> QED
    BY <1>1, <1>2, <1>3, <1>5 DEF IsSeq, h

LEMMA ConcatNames ==
    ASSUME NEW p, IsSeq(p), NEW q, IsSeq(q)
    PROVE  /\ IsSeq(p \o q)
           /\ \A i \in DOMAIN p : (p \o q)[i] = p[i]
           /\ q # <<>> => (p \o q)[Len(p) + 1] = Head(q)
  <1> DEFINE T == Range(p) \cup Range(q)
             cat == p \o q
  <1>1. p \in Seq(T) /\ q \in Seq(T)
    BY DEF IsSeq
  <1>2. PICK m \in Nat : Len(p) = m /\ DOMAIN p = 1 .. m
    BY <1>1
  <1>3. PICK n \in Nat : Len(q) = n /\ DOMAIN q = 1 .. n /\ (q # <<>> => n # 0 /\ Head(q) = q[1])
    BY <1>1
  <1>4. /\ cat \in Seq(T) /\ Len(cat) = m + n /\ \A i \in 1 .. m : cat[i] = p[i]
        /\ n # 0 => cat[m + 1] = q[1]
    BY <1>1, <1>2, <1>3
  <1> HIDE DEF cat
  <1>5. DOMAIN cat = 1 .. m + n /\ cat \in [1 .. m + n -> T]
    BY <1>4
  <1>6. cat \in [1 .. m + n -> Range(cat)]
    BY <1>5 DEF Range
  <1>7. cat \in Seq(Range(cat))
    BY <1>6
  <1> QED
    BY <1>2, <1>3, <1>4, <1>7, SMTT(60) DEF IsSeq, cat

\* authorize: a path the service grants lies in a home only if it is the
\* caller's, or the caller is user 0.
LEMMA GrantedIsOwn ==
    ASSUME NEW us, NEW uid, uid # 0, NEW raw, IsSeq(raw.parts), NEW write, NEW n,
           Authorize(us, uid, raw, write).st = "ok",
           IsUnder(Authorize(us, uid, raw, write).path, <<"home", n>>)
    PROVE  uid \in DOMAIN us /\ us[uid].name = n
  <1> DEFINE a == Authorize(us, uid, raw, write)
             known == uid \in DOMAIN us
             u == IF known THEN us[uid] ELSE [name |-> "", admin |-> FALSE]
             parts == raw.parts
             rest == Tail(parts)
  <1>1. \A st : Deny(st).st = st
    BY DEF Deny
  <1>2. \A path : Ok(path).path = path
    BY SMTT(60) DEF Ok
  <1>3. \/ raw.abs /\ a = GateAbsolute(known, u, parts, write)
        \/ known /\ a = Ok(Home(u) \o parts)
    BY <1>1 DEF Authorize
  <1>4. a.st = "ok" /\ IsUnder(a.path, <<"home", n>>)
    BY SMTT(60)
  <1>5. ASSUME a = GateAbsolute(known, u, parts, write)
        PROVE  /\ parts # <<>>
               /\ \/ Head(parts) \in {"tmp", "etc", "boot"} /\ a.path = parts
                  \/ known /\ rest = <<>> /\ a.path = Home(u)
                  \/ known /\ rest # <<>> /\ Head(rest) = u.name /\ a.path = <<"home">> \o rest
    <2> HIDE DEF a, known, u, rest
    <2>1. parts # <<>>
      BY <1>1, <1>4, <1>5, SMTT(60) DEF GateAbsolute
    <2>2. CASE Head(parts) \in {"tmp", "etc", "boot"}
      BY <1>1, <1>2, <1>4, <1>5, <2>1, <2>2, SMTT(60) DEF GateAbsolute
    <2>3. CASE Head(parts) = "home"
      <3>1. a = GateHome(known, u, rest, write)
        BY <1>5, <2>1, <2>3 DEF GateAbsolute, rest
      <3> QED
        BY <1>1, <1>2, <1>4, <2>1, <3>1, ZenonT(60) DEF GateHome
    <2>4. CASE Head(parts) \notin {"tmp", "etc", "boot", "home"}
      BY <1>1, <1>4, <1>5, <2>1, <2>4 DEF GateAbsolute
    <2> QED
      BY <2>2, <2>3, <2>4, SMTT(60)
  <1>6. known => u = us[uid]
    OBVIOUS
  <1>7. IsSeq(Home(u)) /\ DOMAIN Home(u) = 1 .. 2 /\ Home(u)[2] = u.name
    <2> HIDE DEF u
    <2> QED
      BY HomeNames
  <1>8. IsSeq(<<"home">>) /\ Len(<<"home">>) = 1
    BY DEF IsSeq, Range
  <1> HIDE DEF a, known, u
  <1>9. ASSUME known, a.path = Home(u) PROVE u.name = n
    BY <1>4, <1>7, <1>9, PrefixNames
  <1>10. ASSUME known, a.path = Home(u) \o parts PROVE u.name = n
    <2>1. IsSeq(a.path) /\ \A i \in 1 .. 2 : a.path[i] = Home(u)[i]
      BY <1>7, <1>10, ConcatNames
    <2>2. a.path[2] = n
      BY <1>4, <2>1, PrefixNames
    <2> QED
      BY <1>7, <2>1, <2>2
  <1>11. ASSUME parts # <<>>, rest # <<>>, Head(rest) = u.name, a.path = <<"home">> \o rest PROVE u.name = n
    <2>1. IsSeq(rest)
      BY <1>11, SeqTail
    <2>2. IsSeq(a.path) /\ a.path[1 + 1] = Head(rest)
      <3> HIDE DEF rest
      <3> QED
        BY <1>8, <1>11, <2>1, ConcatNames, SMTT(60)
    <2>3. a.path[2] = n
      BY <1>4, <2>2, PrefixNames, SMTT(60)
    <2> QED
      BY <1>11, <2>2, <2>3
  <1>12. ASSUME parts # <<>>, Head(parts) \in {"tmp", "etc", "boot"}, a.path = parts PROVE FALSE
    <2>1. Head(parts) = parts[1]
      BY <1>12, SeqTail, SMTT(60)
    <2>2. parts[1] = "home"
      BY <1>4, <1>12, PrefixNames, SMTT(60)
    <2> QED
      BY <1>12, <2>1, <2>2, SMTT(60)
  <1>13. known /\ u.name = n
    BY <1>2, <1>3, <1>5, <1>9, <1>10, <1>11, <1>12, Zenon
  <1> QED
    BY <1>6, <1>13 DEF known

\* An operation of the store changes the node at its path only.
LEMMA DoneElsewhere ==
    ASSUME NEW t, NEW o, Changes(o.kind), NEW u, ~IsUnder(o.path, Home(u))
    PROVE  HomeOf(u, Done(t, o)) = HomeOf(u, t)
  <1> DEFINE In(d) == {x \in DOMAIN d : IsUnder(x, Home(u))}
             new == Done(t, o)
  <1>1. \/ \E node : new = With(t, o.path, node)
        \/ new = Without(t, o.path)
    BY DEF Done, Changes
  <1>2. /\ \A x : x # o.path => (x \in DOMAIN new <=> x \in DOMAIN t)
        /\ \A x \in DOMAIN t : x # o.path => new[x] = t[x]
    BY <1>1 DEF With, Without
  <1> HIDE DEF new
  <1>3. In(new) = In(t)
    BY <1>2
  <1>4. \A x \in In(t) : new[x] = t[x]
    BY <1>2
  <1>5. HomeOf(u, new) = [x \in In(new) |-> new[x]] /\ HomeOf(u, t) = [x \in In(t) |-> t[x]]
    BY DEF HomeOf
  <1> HIDE DEF In
  <1> QED
    BY <1>3, <1>4, <1>5 DEF new

\* The paths of queued requests, calls under way and open files are sequences,
\* those of the files a session left in its slot included.
Named(q) == \A k \in DOMAIN q : q[k].kind # "register" => IsSeq(q[k].raw.parts)
FilesOK(fs) == \A d \in DOMAIN fs : DOMAIN fs[d] = {"raw", "off"} /\ IsSeq(fs[d].raw.parts)
CallOK(c) == "raw" \in DOMAIN c /\ IsSeq(c.raw.parts)
SesOK(x) == FilesOK(x.files) /\ (x.pc = "wait" => CallOK(x.call))

PathInv ==
    /\ Named(fsq)
    /\ \A s \in Routed : SesOK(ses[s])
    /\ DOMAIN left = Sids /\ \A k \in Sids : FilesOK(left[k].files)

LEMMA ReleasePaths ==
    ASSUME NEW x, DOMAIN x = Fields, FilesOK(x.files), NEW c
    PROVE  SesOK(Release(x, c)) /\ FilesOK(Release(x, c).files)
  <1> DEFINE y == Release(x, c)
             fs == [f \in DOMAIN x.files \ {c.fd} |-> x.files[f]]
  <1>1. y.pc = "idle" /\ (y.files = x.files \/ y.files = fs)
    BY DEF Release, Fields
  <1>2. FilesOK(fs)
    BY DEF FilesOK
  <1> HIDE DEF y, fs
  <1>3. SesOK(y) /\ FilesOK(y.files)
    BY <1>1, <1>2 DEF SesOK
  <1> QED
    BY <1>3 DEF y

LEMMA FinishPaths ==
    ASSUME NEW x, DOMAIN x = Fields, SesOK(x), x.pc = "wait", NEW r
    PROVE  SesOK(Finish(x, x.call, r))
  <1> DEFINE c == x.call
             y == Finish(x, c, r)
             fs == x.files
             opened == [f \in DOMAIN fs \cup {c.fd} |-> IF f = c.fd THEN [raw |-> c.raw, off |-> 0] ELSE fs[f]]
             moved == [fs EXCEPT ![c.fd].off = @ + r.n]
  <1>1. FilesOK(fs) /\ IsSeq(c.raw.parts)
    BY DEF SesOK, CallOK
  <1>2. \/ y = Release(x, c)
        \/ y.pc = "idle" /\ y.files \in {fs, opened, moved}
    BY SMTT(60) DEF Finish, Fields
  <1>3. FilesOK(opened) /\ FilesOK(moved)
    BY <1>1, SMTT(60) DEF FilesOK
  <1> HIDE DEF opened, moved, y
  <1>4. SesOK(y)
    BY <1>1, <1>2, <1>3, ReleasePaths, SMTT(60) DEF SesOK
  <1> QED
    BY <1>4 DEF y

\* fs_roundtrip sends the path of its call.
LEMMA IssuePaths ==
    ASSUME NEW s \in Routed, NEW p, NEW x, DOMAIN x = Fields, FilesOK(x.files), NEW c, CallOK(c),
           IsSeq(fsq), Named(fsq)
    PROVE  Named(Issue(s, p, x, c).q) /\ SesOK(Issue(s, p, x, c).x)
  <1> DEFINE out == Issue(s, p, x, c)
             y == [x EXCEPT !.seq = @ + 1]
             f == Frame(s, y, c)
             w == [y EXCEPT !.pc = "wait", !.call = c]
             a == Append(fsq, f)
  <1>1. DOMAIN y = Fields /\ y.files = x.files
    BY DEF Fields
  <1>2. w.files = x.files /\ w.call = c
    BY DEF Fields
  <1>3. f.raw = c.raw
    BY DEF Frame
  <1>4. \/ out.q = fsq /\ out.x = Release(y, c)
        \/ out.q = a /\ out.x = w
    BY DEF Issue
  <1> HIDE DEF out, y, w, f
  <1>5. SesOK(Release(y, c))
    BY <1>1, ReleasePaths, SMTT(60)
  <1>6. SesOK(w)
    BY <1>2 DEF SesOK
  <1>7. Named(a)
    <2>1. /\ Len(fsq) \in Nat /\ DOMAIN fsq = 1 .. Len(fsq)
          /\ DOMAIN a = 1 .. Len(fsq) + 1 /\ a[Len(fsq) + 1] = f
          /\ \A i \in 1 .. Len(fsq) : a[i] = fsq[i]
      BY SeqAppended
    <2> HIDE DEF a
    <2>2. \A k \in DOMAIN a : a[k] = f \/ (k \in DOMAIN fsq /\ a[k] = fsq[k])
      BY <2>1
    <2> QED
      BY <1>3, <2>2 DEF Named, CallOK
  <1> HIDE DEF a
  <1>8. Named(out.q) /\ SesOK(out.x)
    BY <1>4, <1>5, <1>6, <1>7, SMTT(60)
  <1> QED
    BY <1>8 DEF out

\* A step of one session.
LEMMA StepPaths ==
    ASSUME CallInv, PathInv, NEW s \in Sessions, NEW x, ses' = [ses EXCEPT ![s] = x],
           s \in Routed => SesOK(x), Named(fsq'),
           DOMAIN left' = Sids, \A k \in Sids : FilesOK(left'[k].files)
    PROVE  PathInv'
  <1>1. \A t \in Routed : SesOK(ses'[t])
    <2>1. ses'[s] = x /\ \A t \in Sessions : t # s => ses'[t] = ses[t]
      BY SMTT(60) DEF CallInv
    <2> QED
      BY <2>1, SMTT(60) DEF PathInv, Sessions
  <1> QED
    BY <1>1 DEF PathInv, SesOK, FilesOK, CallOK, Named, IsSeq

LEMMA IssueStepPaths ==
    ASSUME CallInv, PathInv, NEW s \in Routed, NEW p, NEW x, DOMAIN x = Fields, FilesOK(x.files),
           NEW c, CallOK(c), Enter(s, Issue(s, p, x, c)), left' = left
    PROVE  PathInv'
  <1> DEFINE out == Issue(s, p, x, c)
  <1>1. IsSeq(fsq) /\ Named(fsq) /\ s \in Sessions /\ DOMAIN left = Sids
        /\ \A k \in Sids : FilesOK(left[k].files)
    BY DEF CallInv, PathInv, Sessions
  <1>2. Named(out.q) /\ SesOK(out.x)
    BY <1>1, IssuePaths
  <1> HIDE DEF out
  <1>3. ses' = [ses EXCEPT ![s] = out.x] /\ fsq' = out.q
    BY SMTT(60) DEF Enter, out
  <1> QED
    BY <1>1, <1>2, <1>3, StepPaths, ZenonT(60)

LEMMA RoutedPaths ==
    ASSUME CallInv, PathInv, PathsOK, NEW s \in Routed,
           \/ \E o \in Opens[s] : Open(s, o)
           \/ \E raw \in Mkdirs[s] : Mkdir(s, raw)
           \/ \E fd \in Fds : ReadWrite(s, fd, "read") \/ ReadWrite(s, fd, "write")
    PROVE  PathInv'
  <1>1. DOMAIN ses[s] = Fields /\ FilesOK(ses[s].files)
    BY SMTT(60) DEF CallInv, PathInv, SesOK, Sessions
  <1>2. ASSUME NEW o \in Opens[s], Open(s, o) PROVE PathInv'
    <2> DEFINE fd == Least(Fds \ ses[s].fds)
               x == [ses[s] EXCEPT !.fds = @ \cup {fd}]
               c == [kind |-> "open", fd |-> fd, raw |-> o.raw, creat |-> o.creat, off |-> 0]
    <2>1. Enter(s, Issue(s, pend, x, c)) /\ left' = left
      BY <1>2 DEF Open
    <2>2. DOMAIN x = Fields /\ x.files = ses[s].files
      BY <1>1, SMTT(60) DEF Fields
    <2>3. CallOK(c)
      BY SMTT(60) DEF PathsOK, CallOK
    <2> HIDE DEF x, c
    <2> QED
      BY <1>1, <2>1, <2>2, <2>3, IssueStepPaths, SMTT(60)
  <1>3. ASSUME NEW raw \in Mkdirs[s], Mkdir(s, raw) PROVE PathInv'
    <2> DEFINE c == [kind |-> "mkdir", raw |-> raw, off |-> 0]
    <2>1. Enter(s, Issue(s, pend, ses[s], c)) /\ left' = left
      BY <1>3, SMTT(60) DEF Mkdir
    <2>2. CallOK(c)
      BY SMTT(60) DEF PathsOK, CallOK
    <2> HIDE DEF c
    <2> QED
      BY <1>1, <2>1, <2>2, IssueStepPaths, SMTT(60)
  <1>4. ASSUME NEW fd \in Fds, NEW kind \in {"read", "write"}, ReadWrite(s, fd, kind) PROVE PathInv'
    <2> DEFINE c == [kind |-> kind, fd |-> fd, raw |-> ses[s].files[fd].raw, off |-> ses[s].files[fd].off]
    <2>1. Enter(s, Issue(s, pend, ses[s], c)) /\ left' = left /\ fd \in DOMAIN ses[s].files
      BY <1>4, SMTT(60) DEF ReadWrite
    <2>2. CallOK(c)
      BY <1>1, <2>1 DEF FilesOK, CallOK
    <2> HIDE DEF c
    <2> QED
      BY <1>1, <2>1, <2>2, IssueStepPaths, SMTT(60)
  <1> QED
    BY <1>2, <1>3, <1>4, SMTT(60)

LEMMA WaitPaths ==
    ASSUME CallInv, PathInv, NEW s \in Routed, Take(s) \/ TimeOut(s)
    PROVE  PathInv'
  <1> DEFINE x == ses[s]
             c == x.call
  <1>1. /\ DOMAIN x = Fields /\ FilesOK(x.files) /\ SesOK(x) /\ s \in Sessions /\ Named(fsq)
        /\ DOMAIN left = Sids /\ \A k \in Sids : FilesOK(left[k].files)
    BY SMTT(60) DEF CallInv, PathInv, SesOK, Sessions
  <1>2. ASSUME Take(s) PROVE PathInv'
    <2> DEFINE i == Least(Arrived(x.seq))
               r == pend[i].reply
               p == [pend EXCEPT ![i] = Empty]
               d == [c EXCEPT !.creat = FALSE]
               last == [p |-> p, q |-> fsq, x |-> Finish(x, c, r), lost |-> {}]
    <2>1. /\ x.pc = "wait" /\ left' = left
          /\ Enter(s, Issue(s, p, x, d)) \/ Enter(s, last)
      BY <1>2, SMTT(60) DEF Take
    <2>2. CallOK(d)
      BY <1>1, <2>1, SMTT(60) DEF SesOK, CallOK
    <2>3. SesOK(Finish(x, c, r))
      BY <1>1, <2>1, FinishPaths, SMTT(60)
    <2>4. ASSUME Enter(s, last) PROVE PathInv'
      <3>1. ses' = [ses EXCEPT ![s] = Finish(x, c, r)] /\ fsq' = fsq
        BY <2>4 DEF Enter
      <3> QED
        BY <1>1, <2>1, <2>3, <3>1, StepPaths, Zenon
    <2> HIDE DEF p, d, last, x
    <2> QED
      BY <1>1, <2>1, <2>2, <2>4, IssueStepPaths, SMTT(60)
  <1>3. ASSUME TimeOut(s) PROVE PathInv'
    <2>1. ses' = [ses EXCEPT ![s] = Release(x, c)] /\ fsq' = fsq /\ left' = left
      BY <1>3, Zenon DEF TimeOut, Enter
    <2>2. SesOK(Release(x, c))
      BY <1>1, ReleasePaths
    <2> QED
      BY <1>1, <2>1, <2>2, StepPaths, ZenonT(60)
  <1> QED
    BY <1>2, <1>3, SMTT(60)

LEMMA LeavePaths ==
    ASSUME CallInv, PathInv, NEW s \in Routed, \/ \E fd \in Fds : Close(s, fd)
                                              \/ Kill(s)
                                              \/ \E sid \in Sids : Restart(s, sid)
    PROVE  PathInv'
  <1>1. /\ DOMAIN ses[s] = Fields /\ FilesOK(ses[s].files) /\ s \in Sessions /\ Named(fsq)
        /\ DOMAIN left = Sids /\ DOMAIN ses = Sessions /\ \A k \in Sids : FilesOK(left[k].files)
    BY SMTT(60) DEF CallInv, PathInv, SesOK, Sessions
  <1>2. ASSUME NEW fd \in Fds, Close(s, fd) PROVE PathInv'
    <2> DEFINE x == Release(ses[s], [kind |-> "open", fd |-> fd])
    <2>1. ses' = [ses EXCEPT ![s] = x] /\ fsq' = fsq /\ left' = left
      BY <1>2 DEF Close
    <2>2. SesOK(x)
      BY <1>1, ReleasePaths
    <2> HIDE DEF x
    <2> QED
      BY <1>1, <2>1, <2>2, StepPaths, ZenonT(60)
  <1>3. ASSUME Kill(s) PROVE PathInv'
    <2> DEFINE x == [ses[s] EXCEPT !.pc = "dead", !.call = NoCall]
               e == [seq |-> ses[s].seq, files |-> ses[s].files]
    <2>1. ses' = [ses EXCEPT ![s] = x] /\ fsq' = fsq /\ left' = [left EXCEPT ![ses[s].sid] = e]
      BY <1>1, <1>3, ZenonT(60) DEF Kill, Fields
    <2>2. x.files = ses[s].files /\ x.pc = "dead" /\ e.files = ses[s].files
      BY <1>1 DEF Fields
    <2> HIDE DEF x, e
    <2>3. SesOK(x)
      BY <1>1, <2>2 DEF SesOK
    <2>4. DOMAIN left' = Sids /\ \A k \in Sids : FilesOK(left'[k].files)
      BY <1>1, <2>1, <2>2, SMTT(60)
    <2> QED
      BY <1>1, <2>1, <2>3, <2>4, StepPaths, Zenon
  <1>4. ASSUME NEW sid \in Sids, Restart(s, sid) PROVE PathInv'
    <2> DEFINE x == Fresh(ses[s].inc + 1, sid, left[sid])
    <2>1. ses' = [ses EXCEPT ![s] = x] /\ fsq' = fsq /\ left' = left
      BY <1>4 DEF Restart
    <2>2. SesOK(x)
      BY <1>1 DEF Fresh, SesOK
    <2> HIDE DEF x
    <2> QED
      BY <1>1, <2>1, <2>2, StepPaths, Zenon
  <1> QED
    BY <1>2, <1>3, <1>4, SMTT(60)

LEMMA SamePaths ==
    ASSUME CallInv, PathInv, fsq' = fsq \/ (fsq # <<>> /\ fsq' = Tail(fsq)), ses' = ses, left' = left
    PROVE  PathInv'
  <1>1. IsSeq(fsq) /\ Named(fsq)
    BY DEF CallInv, PathInv
  <1>2. Named(fsq')
    BY <1>1, SeqTail DEF Named
  <1>3. (\A s \in Routed : SesOK(ses'[s])) /\ DOMAIN left' = Sids /\ \A k \in Sids : FilesOK(left'[k].files)
    BY DEF PathInv
  <1> QED
    BY <1>2, <1>3, SMTT(60) DEF PathInv, SesOK, FilesOK, CallOK, Named, IsSeq

LEMMA DirectPaths ==
    ASSUME CallInv, PathInv, PathsOK, ConstantsOK, NEW s \in Direct,
           (\E r \in Requests : Request(s, r)) \/ Receive(s) \/ NoAnswer(s)
    PROVE  PathInv'
  <1>1. /\ s \in Sessions /\ s \notin Routed /\ IsSeq(fsq) /\ Named(fsq) /\ DOMAIN ses = Sessions
        /\ DOMAIN left = Sids /\ \A k \in Sids : FilesOK(left[k].files)
    BY DEF CallInv, PathInv, Sessions, ConstantsOK
  <1>2. ASSUME NEW x, ses' = [ses EXCEPT ![s] = x], fsq' = fsq, left' = left PROVE PathInv'
    BY <1>1, <1>2, StepPaths, Zenon
  <1>3. ASSUME Receive(s) \/ NoAnswer(s) PROVE PathInv'
    <2>1. fsq' = fsq /\ left' = left
          /\ (ses' = [ses EXCEPT ![s] = [ses[s] EXCEPT !.pc = "idle"]] \/ ses' = ses)
      BY <1>3 DEF Receive, NoAnswer
    <2> QED
      BY <1>2, <2>1, SamePaths
  <1>4. ASSUME NEW r \in Requests, Request(s, r) PROVE PathInv'
    <2> DEFINE x == [ses[s] EXCEPT !.seq = @ + 1, !.pc = "wait"]
               h == [name |-> s, id |-> <<s, x.inc, x.seq>>, seq |-> x.seq, uid |-> Uid[s],
                     off |-> 0, bytes |-> <<2>>]
               f == Framed(r, h)
    <2>1. ses' = [ses EXCEPT ![s] = x] /\ left' = left /\ (fsq' = Append(fsq, f) \/ fsq' = fsq)
      BY <1>4 DEF Request
    <2>2. f.kind # "register" => IsSeq(f.raw.parts)
      <3>1. DOMAIN h = {"name", "id", "seq", "uid", "off", "bytes"}
        OBVIOUS
      <3> HIDE DEF h
      <3>2. f.kind = r.kind /\ ("raw" \in DOMAIN r => f.raw = r.raw)
        BY <3>1 DEF Framed, PathsOK
      <3> HIDE DEF f
      <3> QED
        BY <3>2 DEF PathsOK
    <2> HIDE DEF f, x
    <2>3. Named(fsq')
      <3> DEFINE a == Append(fsq, f)
      <3>1. /\ Len(fsq) \in Nat /\ DOMAIN fsq = 1 .. Len(fsq)
            /\ DOMAIN a = 1 .. Len(fsq) + 1 /\ a[Len(fsq) + 1] = f
            /\ \A i \in 1 .. Len(fsq) : a[i] = fsq[i]
        BY <1>1, SeqAppended
      <3>2. fsq' = a \/ fsq' = fsq
        BY <2>1
      <3> HIDE DEF a
      <3>3. \A k \in DOMAIN a : a[k] = f \/ (k \in DOMAIN fsq /\ a[k] = fsq[k])
        BY <3>1, SMTT(60)
      <3>4. Named(a)
        BY <1>1, <2>2, <3>3, SMTT(60) DEF Named
      <3> QED
        BY <1>1, <3>2, <3>4, SMTT(60)
    <2> QED
      BY <1>1, <2>1, <2>3, StepPaths, ZenonT(60)
  <1> QED
    BY <1>3, <1>4, SMTT(60)

LEMMA PathStep ==
    ASSUME ConstantsOK, PathsOK, CallInv, PathInv, [Next]_vars
    PROVE  PathInv'
  <1>1. CASE Serve \/ UNCHANGED vars
    BY <1>1, SamePaths, SMTT(60) DEF Serve, vars
  <1>2. ASSUME NEW s \in Routed, \/ \E o \in Opens[s] : Open(s, o)
                                 \/ \E raw \in Mkdirs[s] : Mkdir(s, raw)
                                 \/ \E fd \in Fds : ReadWrite(s, fd, "read") \/ ReadWrite(s, fd, "write")
        PROVE  PathInv'
    BY <1>2, RoutedPaths
  <1>3. ASSUME NEW s \in Routed, \/ \E fd \in Fds : Close(s, fd)
                                 \/ Kill(s) \/ \E sid \in Sids : Restart(s, sid)
        PROVE  PathInv'
    BY <1>3, LeavePaths
  <1>4. ASSUME NEW s \in Routed, Take(s) \/ TimeOut(s) PROVE PathInv'
    BY <1>4, WaitPaths
  <1>5. ASSUME NEW s \in Direct, (\E r \in Requests : Request(s, r)) \/ Receive(s) \/ NoAnswer(s) PROVE PathInv'
    BY <1>5, DirectPaths, SMTT(60)
  <1> QED
    BY <1>1, <1>2, <1>3, <1>4, <1>5, SMTT(60) DEF Next

\* server.go, dispatch: what one request may do to a home.
LEMMA ServeOwn ==
    ASSUME CallInv, PathInv, Serve, NEW u \in Range(users), HomeOf(u, tree') # HomeOf(u, tree)
    PROVE  Trusted(Head(fsq), u.name)
  <1> DEFINE q == Head(fsq)
             a == Authorize(users, q.uid, q.raw, Changes(q.kind))
             o == [kind |-> q.kind, path |-> a.path, off |-> q.off, bytes |-> q.bytes]
             st == IF a.st = "ok" THEN StoreError(tree, o) ELSE a.st
  <1>1. fsq # <<>> /\ tree' = Dispatch(tree, users, q).tree
    BY SMTT(60) DEF Serve
  <1>2. q.kind # "register" => IsSeq(q.raw.parts)
    BY <1>1, SeqTail, SMTT(60) DEF CallInv, PathInv, Named
  <1>3. SUFFICES ASSUME q.uid # 0 PROVE q.uid \in DOMAIN users /\ users[q.uid].name = u.name
    BY SMTT(60) DEF Trusted
  <1>4. o.kind = q.kind /\ o.path = a.path
    OBVIOUS
  <1>5. /\ q.kind # "register" /\ a.st = "ok" /\ Changes(q.kind)
        /\ tree' = Done(tree, o)
    <2>1. tree' # tree
      BY SMTT(60)
    <2>2. q.kind # "register"
      BY <1>1, <1>3, <2>1, ZenonT(60) DEF Dispatch
    <2>3. tree' = IF st = "ok" THEN Stored(tree, o) ELSE tree
      BY <1>1, <2>2, ZenonT(60) DEF Dispatch
    <2> HIDE DEF o, a
    <2>4. a.st = "ok" /\ tree' = Stored(tree, o)
      BY <2>1, <2>3, SMTT(60)
    <2> QED
      BY <1>4, <2>1, <2>2, <2>4 DEF Stored
  <1> HIDE DEF o
  <1>6. IsUnder(a.path, Home(u))
    BY <1>4, <1>5, DoneElsewhere, SMTT(60)
  <1>7. IsUnder(a.path, <<"home", u.name>>)
    BY <1>6, SMTT(60) DEF Home
  <1>8. IsSeq(q.raw.parts) /\ q.uid # 0 /\ a.st = "ok"
    BY <1>2, <1>3, <1>5
  <1> HIDE DEF q
  <1> QED
    BY <1>7, <1>8, GrantedIsOwn, SMTT(60)

\* server.go, authorize and dispatch: a request changes a registered user's
\* home only if that user, or user 0, sent it; whatever paths are asked for,
\* and whatever files a slot's last session left open.
THEOREM HomesStayOwn == Spec => HomesAreOwn
  <1> USE SessionsAssumption, PathsAssumption
  <1>1. Init => CallInv /\ PathInv
    <2> SUFFICES ASSUME Init PROVE PathInv
      BY CallInit
    <2>1. fsq = <<>> /\ left = [k \in Sids |-> Unused]
          /\ ses = [s \in Sessions |-> Fresh(1, IF s \in Routed THEN FirstSid[s] ELSE 0, Unused)]
      BY DEF Init
    <2>2. FilesOK(<<>>)
      BY SMTT(60) DEF FilesOK
    <2>3. \A s \in Routed : SesOK(ses[s])
      BY <2>1, <2>2, SMTT(60) DEF Sessions, Fresh, Unused, SesOK
    <2>4. Named(fsq) /\ DOMAIN left = Sids /\ \A k \in Sids : FilesOK(left[k].files)
      BY <2>1, <2>2 DEF Named, Unused
    <2> QED
      BY <2>3, <2>4 DEF PathInv
  <1>2. CallInv /\ PathInv /\ [Next]_vars => (CallInv /\ PathInv)'
    BY CallStep, PathStep
  <1>3. CallInv /\ PathInv /\ [Next]_vars =>
          [Serve => \A u \in Range(users) :
                        HomeOf(u, tree') # HomeOf(u, tree) => Trusted(Head(fsq), u.name)]_vars
    BY ServeOwn
  <1> QED
    BY <1>1, <1>2, <1>3, PTL DEF Spec, HomesAreOwn

=============================================================================
