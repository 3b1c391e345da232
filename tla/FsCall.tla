------------------------------- MODULE FsCall -------------------------------
(***************************************************************************)
(* File calls from sessions to the fs service.                             *)
(*                                                                         *)
(* A session reaches the service in one of two ways.  Routed sessions use  *)
(* the WASI file calls: the kernel frames the request (core/fsimport.cc),  *)
(* notes the awaited reply in a table of pending calls (core/fsroute.cc),  *)
(* queues the request on the "fs" port and yields until the reply has been *)
(* intercepted or a budget of yields is spent.  Direct sessions use the    *)
(* client library (guests/lib/frame.go, fsclient.go): they poll their own  *)
(* inbox port for the reply with the sequence number of their request.     *)
(*                                                                         *)
(* Budgets count yields, and a session yields any number of times between  *)
(* two steps of another one, so a wait may give up at any moment.  Every   *)
(* routed session has a port of its own name, as the guests arrange.       *)
(*                                                                         *)
(* The service handles a request (services/fs/server.go) by the multi-user *)
(* policy that turns a client's path, [abs, parts], into an absolute one,  *)
(* and an operation on the store: the tree of FileTree, which Kfs shows    *)
(* the log-structured store to serve.  users maps the registered user ids  *)
(* to [name, admin], admin standing for CAP_FS_ADMIN.                      *)
(***************************************************************************)
EXTENDS FileTree, FiniteSets, Functions

\* First fit: the scans of the tables take the lowest index.
Least(S) == CHOOSE i \in S : \A j \in S : i <= j

-----------------------------------------------------------------------------
(* The policy *)

Ok(path) == [st |-> "ok", path |-> path]
Deny(st) == [st |-> st, path |-> <<>>]

Home(u) == <<"home", u.name>>

HasDotDot(raw) == ".." \in Range(raw.parts)

\* gateAbsolute, under /home: the bare directory stands for the caller's own.
GateHome(known, u, rest, write) ==
    IF rest = <<>>
    THEN IF write /\ ~(known /\ u.admin) THEN Deny("access")
         ELSE IF known THEN Ok(Home(u)) ELSE Deny("noentry")
    ELSE IF known /\ Head(rest) = u.name THEN Ok(<<"home">> \o rest)
    ELSE Deny("noentry")

\* gateAbsolute: what a user (known) or a guest may name.
GateAbsolute(known, u, parts, write) ==
    IF parts = <<>> THEN Deny("noentry")
    ELSE CASE Head(parts) = "tmp"  -> Ok(parts)
           [] Head(parts) = "etc"  -> IF write /\ ~(known /\ u.admin)
                                      THEN Deny("access") ELSE Ok(parts)
           [] Head(parts) = "boot" -> IF write THEN Deny("access") ELSE Ok(parts)
           [] Head(parts) = "home" -> GateHome(known, u, Tail(parts), write)
           [] OTHER                -> Deny("noentry")

\* Fault: a relative path is taken from the root of the tree.
AuthorizeFromRoot(users, uid, raw, write) ==
    IF uid # 0 /\ HasDotDot(raw) THEN Deny("access") ELSE Ok(raw.parts)

\* authorize: the path a request is about, or the status that refuses it.
Authorize(users, uid, raw, write) ==
    LET known == uid \in DOMAIN users
        u == IF known THEN users[uid] ELSE [name |-> "", admin |-> FALSE]
    IN  IF uid # 0 /\ HasDotDot(raw) THEN Deny("access")
        ELSE IF uid = 0 THEN IF raw.abs THEN Ok(raw.parts) ELSE Deny("badname")
        ELSE IF raw.abs THEN GateAbsolute(known, u, raw.parts, write)
        ELSE IF known THEN Ok(Home(u) \o raw.parts)
        ELSE Deny("access")

-----------------------------------------------------------------------------
(* The store, with the errors of kfs.go *)

\* walkParent: a name that is missing on the way, or a file.
ParentError(t, path) ==
    LET bad == {n \in 1 .. Len(path) - 1 : ~IsDir(t, SubSeq(path, 1, n))}
    IN  IF bad = {} THEN "ok"
        ELSE IF Has(t, SubSeq(path, 1, Least(bad))) THEN "notdir" ELSE "noentry"

OpError(t, o) ==
    CASE o.kind = "create" -> IF IsDir(t, o.path) THEN "isdir" ELSE "ok"
      [] o.kind = "mkdir"  -> IF Has(t, o.path) THEN "exists" ELSE "ok"
      [] o.kind = "delete" -> IF ~Has(t, o.path) THEN "noentry"
                              ELSE IF IsEmptyDir(t, o.path) THEN "ok" ELSE "notempty"
      [] o.kind \in {"read", "write"} ->
            IF ~Has(t, o.path) THEN "noentry"
            ELSE IF IsDir(t, o.path) THEN "isdir" ELSE "ok"
      [] o.kind = "stat" -> IF Has(t, o.path) THEN "ok" ELSE "noentry"
      [] o.kind = "list" -> IF ~Has(t, o.path) THEN "noentry"
                            ELSE IF IsDir(t, o.path) THEN "ok" ELSE "notdir"

\* List walks without walkParent's check.
StoreError(t, o) ==
    IF ".." \in Range(o.path) THEN "badname"
    ELSE IF o.path = <<>> THEN IF o.kind \in {"stat", "list"} THEN "ok" ELSE "badname"
    ELSE IF o.kind # "list" /\ ParentError(t, o.path) # "ok" THEN ParentError(t, o.path)
    ELSE OpError(t, o)

Changes(kind) == kind \in {"create", "mkdir", "delete", "write"}

\* The store after o succeeded.
Stored(t, o) == IF Changes(o.kind) THEN Done(t, o) ELSE t

-----------------------------------------------------------------------------
(* dispatch *)

\* registerSession, and the home directory it provisions.
Registered(users, q) ==
    [x \in DOMAIN users \cup {q.who} |-> IF x = q.who THEN q.user ELSE users[x]]
WithHome(t, u) ==
    IF Has(t, Home(u)) \/ ~IsDir(t, <<"home">>) THEN t ELSE With(t, Home(u), Dir)

\* Bytes a read or a write of one byte transfers.
Transferred(t, o) ==
    IF o.kind = "write" \/ (o.kind = "read" /\ Len(t[o.path].bytes) > o.off) THEN 1 ELSE 0

\* The outcome of request q: the new tree, the new users, the status and the
\* bytes transferred.
Dispatch(t, users, q) ==
    IF q.kind = "register"
    THEN IF q.uid # 0 THEN [tree |-> t, users |-> users, st |-> "access", n |-> 0]
         ELSE [tree |-> WithHome(t, q.user), users |-> Registered(users, q),
               st |-> "ok", n |-> 0]
    ELSE LET a == Authorize(users, q.uid, q.raw, Changes(q.kind))
             o == [kind |-> q.kind, path |-> a.path, off |-> q.off, bytes |-> q.bytes]
             st == IF a.st = "ok" THEN StoreError(t, o) ELSE a.st
         IN  [tree |-> IF st = "ok" THEN Stored(t, o) ELSE t, users |-> users, st |-> st,
              n |-> IF st = "ok" THEN Transferred(t, o) ELSE 0]

-----------------------------------------------------------------------------
(* The service and its sessions *)

CONSTANTS
    Routed,     \* sessions that use the routed calls
    Direct,     \* sessions that use the client library
    Uid,        \* [Routed \cup Direct -> user ids]
    Opens,      \* [Routed -> the sets of [raw, creat] they open]
    Mkdirs,     \* [Routed -> the paths they create directories at]
    Sids,       \* session slots the routed sessions may get
    FirstSid,   \* [Routed -> Sids]: the slots they start in
    Requests,   \* the [kind, raw, ...] direct sessions send
    Fds,        \* file descriptors above the preopened root
    MaxPending, \* MAXPENDING: entries of the table of pending calls
    MaxQ,       \* messages a port holds
    MaxBound,   \* handles the service has left for inboxes
    Calls,      \* [Sessions -> Nat]: bound on sequence numbers (16-bit in the code)
    Lives       \* [Routed -> Nat]: bound on the sessions started under a name

Sessions == Routed \cup Direct
Slots == 1 .. MaxPending

\* A table of some size, and no session of both kinds.
ConstantsOK ==
    /\ MaxPending \in Nat
    /\ Routed \cap Direct = {}

ASSUME SessionsAssumption == ConstantsOK

IsSeq(q) == q \in Seq(Range(q))

\* The paths sessions name are sequences of names.
PathsOK ==
    /\ \A s \in Routed : /\ \A o \in Opens[s] : IsSeq(o.raw.parts)
                         /\ \A raw \in Mkdirs[s] : IsSeq(raw.parts)
    /\ \A r \in Requests : /\ "kind" \in DOMAIN r
                           /\ r.kind # "register" => "raw" \in DOMAIN r /\ IsSeq(r.raw.parts)

ASSUME PathsAssumption == PathsOK

VARIABLES
    tree, users,    \* the service: its store and its registered users
    book,           \* inboxes the service has bound (ReplyBook)
    fsq,            \* the "fs" port
    box,            \* the inbox port of each direct session
    pend,           \* the table of pending calls
    ses,            \* the sessions
    left,           \* what the last session of a slot left behind in it
    misled,         \* ghost: sessions that took a reply to another call
    reused,         \* ghost: has a number been used for two calls under way?
    orphans         \* ghost: entries whose call will never wait for them

vars == <<tree, users, book, fsq, box, pend, ses, left, misled, reused, orphans>>

NoCall == [kind |-> "none"]
Empty == [used |-> FALSE]
NoReply == [id |-> <<>>]

\* What a slot keeps when its session ends: the counter of routed calls
\* (fs_rt_seq) and the table of open files.
Unused == [seq |-> 0, files |-> <<>>]

\* A session starting in slot sid: what it waits for, the number of its last
\* call, the descriptors it has reserved, its open files, and (ghost) its
\* incarnation.  spawn_impl clears the descriptors and nothing else.
Fresh(inc, sid, old) == [pc |-> "idle", call |-> NoCall, seq |-> old.seq, fds |-> {},
                         files |-> old.files, inc |-> inc, sid |-> sid]

\* The identity of the current call of s.
Id(s) == <<s, ses[s].inc, ses[s].seq>>

Init ==
    /\ tree = [p \in {<<"etc">>, <<"home">>, <<"tmp">>, <<"boot">>} |-> Dir]
    /\ users = <<>> /\ book = {}
    /\ fsq = <<>> /\ box = [s \in Direct |-> <<>>]
    /\ pend = [i \in Slots |-> Empty]
    /\ ses = [s \in Sessions |-> Fresh(1, IF s \in Routed THEN FirstSid[s] ELSE 0, Unused)]
    /\ left = [k \in Sids |-> Unused]
    /\ misled = {}
    /\ reused = FALSE /\ orphans = {}

-----------------------------------------------------------------------------
(* The table of pending calls *)

Awaiting(i) == pend[i].used /\ ~pend[i].done

\* fsroute_intercept: the entry a message to port name answers.
Answered(name, seq) ==
    {i \in Slots : Awaiting(i) /\ pend[i].name = name /\ pend[i].seq = seq}

\* fsroute_wait: the entry a waiting call takes; it knows its number only.
Arrived(seq) == {i \in Slots : pend[i].used /\ pend[i].done /\ pend[i].seq = seq}
Held(seq) == {i \in Slots : pend[i].used /\ pend[i].seq = seq}

\* Have two entries of the table the same number, or two queued requests the
\* same name and number?
SameSeq(p, q) ==
    \/ \E i, j \in Slots : i # j /\ p[i].used /\ p[j].used /\ p[i].seq = p[j].seq
    \/ \E i, j \in DOMAIN q : i # j /\ q[i].name = q[j].name /\ q[i].seq = q[j].seq

-----------------------------------------------------------------------------
(* Routed calls *)

\* The request a routed call sends: an open first creates, then stats.
Frame(s, x, c) ==
    [name |-> s, id |-> <<s, x.inc, x.seq>>, seq |-> x.seq, uid |-> Uid[s],
     raw |-> c.raw, bytes |-> <<1>>, off |-> c.off,
     kind |-> CASE c.kind = "open" -> IF c.creat THEN "create" ELSE "stat"
                [] OTHER -> c.kind]

\* A call that failed: an open gives its descriptor back.
Release(x, c) ==
    [x EXCEPT !.pc = "idle", !.call = NoCall,
              !.fds = IF c.kind = "open" THEN @ \ {c.fd} ELSE @,
              !.files = IF c.kind = "open" THEN [f \in DOMAIN @ \ {c.fd} |-> @[f]] ELSE @]

\* fs_roundtrip up to the wait: number, table entry, request.  Without a free
\* entry, or with the fs port full, the call fails; in the second case nothing
\* gives the entry back.
Issue(s, p, x, c) ==
    LET y == [x EXCEPT !.seq = @ + 1]
        free == {i \in Slots : ~p[i].used}
        noted == [p EXCEPT ![Least(free)] = [used |-> TRUE, done |-> FALSE, name |-> s,
                                           seq |-> y.seq, reply |-> NoReply]]
    IN  IF free = {} THEN [p |-> p, q |-> fsq, x |-> Release(y, c), lost |-> {}]
        ELSE IF Len(fsq) >= MaxQ
        THEN [p |-> noted, q |-> fsq, x |-> Release(y, c), lost |-> {Least(free)}]
        ELSE [p |-> noted, q |-> Append(fsq, Frame(s, y, c)),
              x |-> [y EXCEPT !.pc = "wait", !.call = c], lost |-> {}]

Enter(s, out) ==
    /\ pend' = out.p
    /\ fsq' = out.q
    /\ ses' = [ses EXCEPT ![s] = out.x]
    /\ reused' = (reused \/ SameSeq(out.p, out.q))
    /\ orphans' = {i \in orphans : out.p[i] = pend[i]} \cup out.lost

MayCall(s) == ses[s].pc = "idle" /\ ses[s].seq < Calls[s]

\* fsimport_path_open: reserve a descriptor, then ask the service.
Open(s, o) ==
    LET free == Fds \ ses[s].fds
        fd == Least(free)
    IN  /\ MayCall(s) /\ free # {}
        /\ Enter(s, Issue(s, pend, [ses[s] EXCEPT !.fds = @ \cup {fd}],
                          [kind |-> "open", fd |-> fd, raw |-> o.raw,
                           creat |-> o.creat, off |-> 0]))
        /\ UNCHANGED <<tree, users, book, box, left, misled>>

\* fsimport_mkdir
Mkdir(s, raw) ==
    /\ MayCall(s)
    /\ Enter(s, Issue(s, pend, ses[s], [kind |-> "mkdir", raw |-> raw, off |-> 0]))
    /\ UNCHANGED <<tree, users, book, box, left, misled>>

\* routed_rw on an open descriptor; kind is "read" or "write".
ReadWrite(s, fd, kind) ==
    /\ MayCall(s) /\ fd \in ses[s].fds /\ fd \in DOMAIN ses[s].files
    /\ Enter(s, Issue(s, pend, ses[s],
                      [kind |-> kind, fd |-> fd, raw |-> ses[s].files[fd].raw,
                       off |-> ses[s].files[fd].off]))
    /\ UNCHANGED <<tree, users, book, box, left, misled>>

\* owned_close_fd
Close(s, fd) ==
    /\ ses[s].pc = "idle" /\ fd \in ses[s].fds /\ fd \in DOMAIN ses[s].files
    /\ ses' = [ses EXCEPT ![s] = Release(@, [kind |-> "open", fd |-> fd])]
    /\ UNCHANGED <<tree, users, book, fsq, box, pend, left, misled, reused, orphans>>

\* A call that got its answer: an open installs the file, a transfer moves the
\* cursor by the bytes done.
Finish(x, c, r) ==
    LET done == [x EXCEPT !.pc = "idle", !.call = NoCall]
    IN  IF r.st # "ok" THEN Release(x, c)
        ELSE IF c.kind = "open"
        THEN [done EXCEPT !.files = [f \in DOMAIN @ \cup {c.fd} |->
                                        IF f = c.fd THEN [raw |-> c.raw, off |-> 0]
                                        ELSE @[f]]]
        ELSE IF c.kind \in {"read", "write"}
        THEN [done EXCEPT !.files[c.fd].off = @ + r.n]
        ELSE done

\* fsroute_wait finds a reply.  An open that created goes on to stat.
Take(s) ==
    LET x == ses[s]
        c == x.call
        i == Least(Arrived(x.seq))
        r == pend[i].reply
        p == [pend EXCEPT ![i] = Empty]
    IN  /\ x.pc = "wait" /\ Arrived(x.seq) # {}
        /\ misled' = misled \cup {t \in {s} : r.id # Id(s)}
        /\ Enter(s, IF c.kind = "open" /\ c.creat /\ r.st = "ok"
                    THEN Issue(s, p, x, [c EXCEPT !.creat = FALSE])
                    ELSE [p |-> p, q |-> fsq, x |-> Finish(x, c, r), lost |-> {}])
        /\ UNCHANGED <<tree, users, book, box, left>>

\* The table once a call with this number has given up.
GivenUp(seq) ==
    IF Held(seq) = {} THEN pend ELSE [pend EXCEPT ![Least(Held(seq))] = Empty]

\* Fault: a wait has no budget.
MayGiveUpNever(s) == FALSE

MayGiveUp(s) == ses[s].pc = "wait"

\* fsroute_wait spends its budget; it does not look again after the last yield.
TimeOut(s) ==
    /\ MayGiveUp(s)
    /\ Enter(s, [p |-> GivenUp(ses[s].seq), q |-> fsq,
                 x |-> Release(ses[s], ses[s].call), lost |-> {}])
    /\ UNCHANGED <<tree, users, book, box, left, misled>>

\* sched_kill of a routed session: its stack is gone, its entry is not.
Kill(s) ==
    /\ ses[s].pc # "dead" /\ ses[s].inc < Lives[s]
    /\ ses' = [ses EXCEPT ![s].pc = "dead", ![s].call = NoCall]
    /\ left' = [left EXCEPT ![ses[s].sid] = [seq |-> ses[s].seq, files |-> ses[s].files]]
    /\ orphans' = orphans \cup {i \in Slots : ses[s].pc = "wait" /\ pend[i].used /\ pend[i].name = s}
    /\ UNCHANGED <<tree, users, book, fsq, box, pend, misled, reused>>

\* A session of the same name starts in slot sid.  spawn_impl takes the first
\* free slot; which one that is depends on the reaper and on other sessions.
Restart(s, sid) ==
    /\ ses[s].pc = "dead"
    /\ \A t \in Routed : ses[t].pc # "dead" => ses[t].sid # sid
    /\ ses' = [ses EXCEPT ![s] = Fresh(@.inc + 1, sid, left[sid])]
    /\ UNCHANGED <<tree, users, book, fsq, box, pend, left, misled, reused, orphans>>

-----------------------------------------------------------------------------
(* Direct calls *)

\* Request r with the fields of h, which the client library and the kernel set.
Framed(r, h) == [f \in DOMAIN r \cup DOMAIN h |-> IF f \in DOMAIN h THEN h[f] ELSE r[f]]

\* InboxRequest: a full fs port (-2) loses the request, the client waits on.
Request(s, r) ==
    LET x == [ses[s] EXCEPT !.seq = @ + 1, !.pc = "wait"]
        q == Framed(r, [name |-> s, id |-> <<s, x.inc, x.seq>>, seq |-> x.seq, uid |-> Uid[s],
                        off |-> 0, bytes |-> <<2>>])
    IN  /\ MayCall(s)
        /\ ses' = [ses EXCEPT ![s] = x]
        /\ fsq' = IF Len(fsq) < MaxQ THEN Append(fsq, q) ELSE fsq
        /\ UNCHANGED <<tree, users, book, box, pend, left, misled, reused, orphans>>

\* Fault: the first reply is taken for the awaited one.
IsAwaitedAny(s, r) == TRUE

IsAwaited(s, r) == r.seq = ses[s].seq

\* recvMatch: a reply with another number is dropped.
Receive(s) ==
    LET r == Head(box[s])
    IN  /\ ses[s].pc = "wait" /\ box[s] # <<>>
        /\ box' = [box EXCEPT ![s] = Tail(@)]
        /\ IF IsAwaited(s, r)
           THEN /\ misled' = misled \cup {t \in {s} : r.id # Id(s)}
                /\ ses' = [ses EXCEPT ![s].pc = "idle"]
           ELSE UNCHANGED <<misled, ses>>
        /\ UNCHANGED <<tree, users, book, fsq, pend, left, reused, orphans>>

\* ErrNoReply
NoAnswer(s) ==
    /\ ses[s].pc = "wait"
    /\ ses' = [ses EXCEPT ![s].pc = "idle"]
    /\ UNCHANGED <<tree, users, book, fsq, box, pend, left, misled, reused, orphans>>

-----------------------------------------------------------------------------
(* The service *)

\* ReplyBook.Bind: an inbox bound before, or a free handle.
CanBind(name) == name \in book \/ Cardinality(book) < MaxBound

\* One request of ServeFSOn: dispatch, bind the inbox, send the reply, which the
\* kernel intercepts for a pending call; a full inbox loses it.  A late reply
\* to a routed call stays in the session's port, which no routed call reads.
Serve ==
    LET q == Head(fsq)
        out == Dispatch(tree, users, q)
        hit == Answered(q.name, q.seq)
        r == [id |-> q.id, seq |-> q.seq, st |-> out.st, n |-> out.n]
    IN  /\ fsq # <<>>
        /\ fsq' = Tail(fsq)
        /\ tree' = out.tree /\ users' = out.users
        /\ IF ~CanBind(q.name)
           THEN UNCHANGED <<book, pend, box>>
           ELSE /\ book' = book \cup {q.name}
                /\ IF hit # {}
                   THEN /\ pend' = [pend EXCEPT ![Least(hit)].done = TRUE,
                                                ![Least(hit)].reply = r]
                        /\ UNCHANGED box
                   ELSE /\ box' = [s \in Direct |-> IF s = q.name /\ Len(box[s]) < MaxQ
                                                     THEN Append(box[s], r) ELSE box[s]]
                        /\ UNCHANGED pend
        /\ UNCHANGED <<ses, left, misled, reused, orphans>>

Next ==
    \/ Serve
    \/ \E s \in Routed :
        \/ \E o \in Opens[s] : Open(s, o)
        \/ \E raw \in Mkdirs[s] : Mkdir(s, raw)
        \/ \E fd \in Fds : \/ ReadWrite(s, fd, "read") \/ ReadWrite(s, fd, "write")
                           \/ Close(s, fd)
        \/ Take(s) \/ TimeOut(s)
        \/ Kill(s) \/ \E sid \in Sids : Restart(s, sid)
    \/ \E s \in Direct :
        \/ \E r \in Requests : Request(s, r)
        \/ Receive(s) \/ NoAnswer(s)

\* The scheduler comes back to a session that yields, and its budget is finite.
Fairness == \A s \in Routed : WF_vars(Take(s) \/ TimeOut(s))

Spec == Init /\ [][Next]_vars /\ Fairness

-----------------------------------------------------------------------------
(* Properties *)

\* The ports and the table stay within their bounds, a waiting session has a
\* call, and reserved descriptors are those of the session.
TypeOK ==
    /\ Len(fsq) <= MaxQ /\ \A s \in Direct : Len(box[s]) <= MaxQ
    /\ \A i \in Slots : pend[i].used => pend[i].name \in Routed /\ pend[i].seq \in Nat \ {0}
    /\ \A s \in Sessions : /\ ses[s].pc \in {"idle", "wait", "dead"}
                           /\ ses[s].fds \subseteq Fds
                           /\ DOMAIN ses[s].files \subseteq Fds
    /\ \A s, t \in {r \in Routed : ses[r].pc # "dead"} : ses[s].sid = ses[t].sid => s = t
    /\ \A s \in Routed : (ses[s].pc = "wait") = (ses[s].call # NoCall)
    /\ Cardinality(book) <= MaxBound
    /\ orphans \subseteq {i \in Slots : pend[i].used}

\* A session never takes another call's answer for its own: late, lost and
\* refused replies, time-outs and restarts included.  For routed sessions this
\* is so while no number is used twice: by two entries of the table, or by two
\* requests of one name that wait in the fs port, as when a session started in
\* another slot counts again from a lower number.
RepliesAreOwn == misled \cap Direct = {} /\ (~reused => misled = {})

\* "consume a datagram ONLY when it is THE awaited reply" (core/fsroute.cc), for
\* every routed session.
RoutedRepliesAreOwn == misled \cap Routed = {}

\* Every entry of the table is awaited by a session or is one of the known
\* orphans: calls that time out or fail give theirs back.
PendingIsAwaited ==
    ~reused => \A i \in Slots \ orphans :
        pend[i].used => /\ ses[pend[i].name].pc = "wait"
                        /\ ses[pend[i].name].seq = pend[i].seq

\* A session between calls can use every descriptor it has reserved.
DescriptorsUsable ==
    \A s \in Routed : ses[s].pc = "idle" => ses[s].fds \subseteq DOMAIN ses[s].files

Trusted(q, name) ==
    q.uid = 0 \/ (q.uid \in DOMAIN users /\ users[q.uid].name = name)
HomeOf(u, t) == [p \in {x \in DOMAIN t : IsUnder(x, Home(u))} |-> t[p]]

\* A request changes a registered user's home only if that user, or user 0,
\* sent it.
HomesAreOwn ==
    [][Serve => \A u \in Range(users) :
                    HomeOf(u, tree') # HomeOf(u, tree) => Trusted(Head(fsq), u.name)]_vars

\* The table does not fill up for good: whatever the service and the queues do,
\* an entry comes back, unless its call was killed or never sent (orphans), or
\* a number was used twice and a call may have removed another's entry.
EntriesReturn ==
    \A i \in Slots : (pend[i].used /\ i \notin orphans)
                        ~> (~pend[i].used \/ i \in orphans \/ reused)
=============================================================================
