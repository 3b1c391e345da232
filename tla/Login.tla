------------------------------- MODULE Login --------------------------------
(***************************************************************************)
(* The login service (services/login/login.go) between its clients and the *)
(* fs server.  An AUTH request re-reads /etc/users, checks the password,   *)
(* spawns a shell under the user's identity, gives the focus to the shell, *)
(* registers the user with fs and only then answers.  A client that was    *)
(* answered makes file calls, which fs grants to registered users.         *)
(*                                                                         *)
(* fs serves its port in order, keeps the registrations in memory and may  *)
(* be restarted (its port keeps its queue).  A table maps each user to the *)
(* password it takes; "any" is an entry without salt, "none" one without   *)
(* capabilities.  User names are ones fs takes (up to 32 bytes) and no two *)
(* users share a uid: login does not look at the status of the reply.      *)
(*                                                                         *)
(* Handles are never given back: every login takes one for the shell, one  *)
(* for fs and one for the reply port of its registration.                  *)
(***************************************************************************)
EXTENDS Integers, Sequences, FiniteSets

CONSTANTS
    Users,        \* users that log in, each from a client of its own
    Tables,       \* the tables /etc/users may hold
    DefaultUsers, \* the table used until one has been read
    Handles,      \* free slots of login's handle table (H_PER_SESS) when it starts to serve
    MaxShells,    \* bound on the shells spawned
    MaxFsStarts,  \* bound on the starts of fs
    MaxEdits      \* bound on the edits of /etc/users

VARIABLES
    file,       \* what /etc/users holds
    users,      \* login's table: the last one read
    client,     \* [Users -> "out", "asked", "in", "refused"]
    auths,      \* requests on the login port
    task,       \* the request in hand, how far it is, and the reply port of its registration
    handles,    \* login's handle table: slots taken, and the clients with a reply handle
    shells,     \* the shells spawned, with the identity the kernel has for each
    fs,         \* the fs server: is it up, its queue, the users registered
    missed,     \* ghost: users whose registration was not queued
    failed,     \* ghost: users whose registration registerFS reported as failed
    lost,       \* ghost: users whose registration was lost in a restart of fs
    denied,     \* ghost: users a file call was denied to
    edits

notes == <<missed, failed, lost, denied>>
loginVars == <<file, users, client, auths, task, handles, shells, fs, notes, edits>>

NoTask == [user |-> "none", pass |-> "none", pc |-> "idle", inbox |-> 0, replied |-> FALSE]

LoginInit ==
    /\ file \in Tables /\ users = DefaultUsers /\ client = [u \in Users |-> "out"]
    /\ auths = <<>> /\ task = NoTask /\ shells = <<>>
    /\ handles = [used |-> 0, book |-> {}]
    /\ fs = [up |-> FALSE, starts |-> 0, queue |-> <<>>, known |-> {}]
    /\ missed = {} /\ failed = {} /\ lost = {} /\ denied = {} /\ edits = 0

-----------------------------------------------------------------------------
(* Clients and files *)

Auth(u, pass) ==
    /\ client[u] \in {"out", "refused"}
    /\ client' = [client EXCEPT ![u] = "asked"]
    /\ auths' = Append(auths, [user |-> u, pass |-> pass])
    /\ UNCHANGED <<file, users, task, handles, shells, fs, notes, edits>>

fileCall(u) == [op |-> "call", user |-> u, inbox |-> 0]

FileCall(u) ==
    /\ client[u] = "in" /\ fs.starts > 0
    /\ \A i \in DOMAIN fs.queue : fs.queue[i] # fileCall(u)
    /\ fs' = [fs EXCEPT !.queue = Append(@, fileCall(u))]
    /\ UNCHANGED <<file, users, client, auths, task, handles, shells, notes, edits>>

Edit ==
    /\ edits < MaxEdits /\ edits' = edits + 1
    /\ file' \in Tables
    /\ UNCHANGED <<users, client, auths, task, handles, shells, fs, notes>>

-----------------------------------------------------------------------------
(* The login service *)

\* verifyPassword over lookup: known, with capabilities, password right.
verify(table, u, pass) == u \in DOMAIN table /\ table[u] \in {pass, "any"}

\* Serve takes a request and reads the table again; the old one stays when
\* fs does not answer in time.
Take ==
    /\ task = NoTask /\ auths # <<>>
    /\ auths' = Tail(auths)
    /\ users' \in {users} \cup (IF fs.up THEN {file} ELSE {})
    /\ task' = [NoTask EXCEPT !.user = Head(auths).user, !.pass = Head(auths).pass, !.pc = "check"]
    /\ UNCHANGED <<file, client, handles, shells, fs, notes, edits>>

\* replies.Bind: a handle for the client's reply port, once.
Bound(u) == u \in handles.book \/ handles.used < Handles
Bind(u) == handles' = IF u \in handles.book THEN handles
                      ELSE [used |-> handles.used + 1, book |-> handles.book \cup {u}]

\* Without a handle the request is dropped, and the client's budget ends.
NoReply ==
    /\ task.pc = "check" /\ ~Bound(task.user)
    /\ client' = [client EXCEPT ![task.user] = "out"]
    /\ task' = NoTask
    /\ UNCHANGED <<file, users, auths, handles, shells, fs, notes, edits>>

Refuse ==
    /\ task.pc = "check" /\ Bound(task.user) /\ Bind(task.user)
    /\ ~verify(users, task.user, task.pass)
    /\ client' = [client EXCEPT ![task.user] = "refused"]
    /\ task' = NoTask
    /\ UNCHANGED <<file, users, auths, shells, fs, notes, edits>>

\* doSpawn: the new shell has login's own identity until LOGIN renames the
\* first session called "shell"; a spawn may fail, and login goes on.
Spawn ==
    /\ task.pc = "check" /\ Bound(task.user) /\ Bind(task.user)
    /\ verify(users, task.user, task.pass)
    /\ \/ /\ Len(shells) < MaxShells
          /\ shells' = [Append(shells, "login") EXCEPT ![1] = task.user]
       \/ UNCHANGED shells
    /\ task' = [task EXCEPT !.pc = "focus"]
    /\ UNCHANGED <<file, users, client, auths, fs, notes, edits>>

\* Fault: the client is answered before it is registered.
FocusAnswers ==
    /\ task.pc = "focus"
    /\ task' = [task EXCEPT !.pc = "register"]
    /\ client' = [client EXCEPT ![task.user] = "in"]
    /\ UNCHANGED <<file, users, auths, handles, shells, fs, notes, edits>>

\* focusShell yields until it gets a handle of the shell's port, or the budget
\* ends.
Focus ==
    /\ task.pc = "focus"
    /\ task' = [task EXCEPT !.pc = "register"]
    /\ \/ handles.used < Handles /\ handles' = [handles EXCEPT !.used = @ + 1]
       \/ UNCHANGED handles
    /\ UNCHANGED <<file, users, client, auths, shells, fs, notes, edits>>

\* registerFS returns an error at once, with n handles taken; login answers all
\* the same.
Fails(n) ==
    /\ handles' = [handles EXCEPT !.used = @ + n]
    /\ missed' = missed \cup {task.user} /\ failed' = failed \cup {task.user}
    /\ client' = [client EXCEPT ![task.user] = "in"]
    /\ task' = NoTask
    /\ UNCHANGED fs

\* registerFS: PortBind finds no port or no free handle; NewInboxClient finds no
\* handle or no free port; PortSend has no memory; or the request is sent, and a
\* full ring drops it without an error.
Register ==
    /\ task.pc = "register"
    /\ \/ (fs.starts = 0 \/ handles.used = Handles) /\ Fails(0)
       \/ fs.starts > 0 /\ \E n \in 1 .. 2 : handles.used + n <= Handles /\ Fails(n)
       \/ /\ fs.starts > 0 /\ handles.used + 2 <= Handles
          /\ handles' = [handles EXCEPT !.used = @ + 2]
          /\ task' = [task EXCEPT !.pc = "await", !.inbox = handles.used + 2]
          /\ \/ /\ fs' = [fs EXCEPT !.queue = Append(@,
                           [op |-> "register", user |-> task.user, inbox |-> handles.used + 2])]
                /\ UNCHANGED missed
             \/ missed' = missed \cup {task.user} /\ UNCHANGED fs
          /\ UNCHANGED <<failed, client>>
    /\ UNCHANGED <<file, users, auths, shells, lost, denied, edits>>

\* The reply to the registration, or the end of the budget; then the answer.
Answer ==
    /\ task.pc = "await"
    /\ failed' = IF task.replied THEN failed ELSE failed \cup {task.user}
    /\ client' = [client EXCEPT ![task.user] = "in"]
    /\ task' = NoTask
    /\ UNCHANGED <<file, users, auths, handles, shells, fs, missed, lost, denied, edits>>

-----------------------------------------------------------------------------
(* fs *)

FsStart ==
    /\ ~fs.up /\ fs.starts < MaxFsStarts
    /\ fs' = [fs EXCEPT !.up = TRUE, !.starts = @ + 1]
    /\ UNCHANGED <<file, users, client, auths, task, handles, shells, notes, edits>>

\* A registration is answered on its reply port, unless fs has no handle left
\* for it; login looks at the port of the request in hand only.
FsServe ==
    /\ fs.up /\ fs.queue # <<>>
    /\ LET r == Head(fs.queue)
       IN /\ fs' = [fs EXCEPT !.queue = Tail(@),
                              !.known = IF r.op = "register" THEN @ \cup {r.user} ELSE @]
          /\ denied' = IF r.op = "call" /\ r.user \notin fs.known
                       THEN denied \cup {r.user} ELSE denied
          /\ \/ /\ r.op = "register" /\ task.pc = "await" /\ r.inbox = task.inbox
                /\ task' = [task EXCEPT !.replied = TRUE]
             \/ UNCHANGED task
    /\ UNCHANGED <<file, users, client, auths, handles, shells, missed, failed, lost, edits>>

FsDie ==
    /\ fs.up
    /\ fs' = [fs EXCEPT !.up = FALSE, !.known = {}]
    /\ lost' = lost \cup fs.known
    /\ UNCHANGED <<file, users, client, auths, task, handles, shells, missed, failed, denied, edits>>

LoginNext ==
    \/ \E u \in Users, pass \in {"p", "q"} : Auth(u, pass)
    \/ \E u \in Users : FileCall(u)
    \/ Take \/ NoReply \/ Refuse \/ Spawn \/ Focus \/ Register \/ Answer
    \/ Edit \/ FsStart \/ FsServe \/ FsDie

LoginSpec == LoginInit /\ [][LoginNext]_loginVars

-----------------------------------------------------------------------------
\* login.go, kernAuth: the registration is queued before the answer, so "the
\* client's first op [is] ordered after it by construction", and "a dropped
\* registration is logged, never swallowed".  A file call of a user who is in is
\* denied only when fs has lost its registrations since, or when the
\* registration was never queued and registerFS reported that, however long fs
\* takes to serve it and whether or not its reply comes.
RegisteredBeforeUse == denied \subseteq lost \cup (missed \cap failed)
=============================================================================
