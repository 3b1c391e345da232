-------------------------------- MODULE Kfs ---------------------------------
(***************************************************************************)
(* The log-structured file system of services/fs/kfs.go.                   *)
(*                                                                         *)
(* The device holds a superblock and a log of records.  An operation       *)
(* appends one or two records, then updates the memory image; mounting     *)
(* replays the log into a new image.  Power may fail at any point: the     *)
(* record being written is then missing, torn or complete.  A device error *)
(* or a full log ends an operation half-way with an error.                 *)
(*                                                                         *)
(* A record occupies one place of the log, whatever its length, and a torn *)
(* record is one whose CRC does not match.  Sector writes are atomic.      *)
(***************************************************************************)
EXTENDS FileTree, FiniteSets, SequencesExt

CONSTANTS
    Paths,      \* the paths clients use
    Writes,     \* the [off, bytes] clients write
    LogEnd,     \* records the log has room for
    MaxIno,     \* bound on inode numbers (allocIno wraps at 2^32)
    MaxFaults,  \* bound on power failures and device errors
    CPEvery     \* kfsCPEvery: records between checkpoints (64 in the code)

Root == 1       \* kfsRootIno
NoIno == -1

VARIABLES
    super,      \* is the superblock on the device?
    log,        \* the records on the device
    wOff,       \* records before the write cursor
    mounted,    \* is there a memory image?
    mem,        \* the memory image: inodes, dirents, data, nextIno
    recs,       \* records appended since the mount
    op,         \* the operation in progress, or Idle
    tree,       \* ghost: the tree the clients have been promised
    lost,       \* ghost: the operation power failed in, or Idle
    past,       \* ghost: what happened since the device was blank: "deleted",
                \* "failed" (an operation ended half-way), "dropped" (a mount
                \* dropped complete records), and see CutShort
    faults      \* power failures and device errors so far

vars == <<super, log, wOff, mounted, mem, recs, op, tree, lost, past, faults>>

Idle == [kind |-> "idle"]

Inode(i, kind, size) == [t |-> "INODE", ino |-> i, kind |-> kind, size |-> size]
Dirent(parent, name, i) == [t |-> "DIRENT", parent |-> parent, name |-> name, ino |-> i]
DirentDelete(parent, name) == [t |-> "DELETE", parent |-> parent, name |-> name]
Data(i, off, bytes) == [t |-> "DATA", ino |-> i, off |-> off, bytes |-> bytes]
Truncate(i) == [t |-> "TRUNC", ino |-> i]
Checkpoint(n) == [t |-> "CP", next |-> n]
Torn == [t |-> "TORN"]

-----------------------------------------------------------------------------
(* The memory image *)

NoImage == [inodes |-> <<>>, dirents |-> <<>>, data |-> <<>>, nextIno |-> 0]

Put(f, k, v) == [x \in DOMAIN f \cup {k} |-> IF x = k THEN v ELSE f[x]]
Drop(f, k) == [x \in DOMAIN f \ {k} |-> f[x]]
DataOf(m, i) == IF i \in DOMAIN m.data THEN m.data[i] ELSE <<>>
IsDirIno(m, i) == i \in DOMAIN m.inodes /\ m.inodes[i].kind = "dir"
SizeOf(m, i) == IF i \in DOMAIN m.inodes THEN m.inodes[i].size ELSE 0

\* findDirent: the first live entry (dead ones are dropped here).
Matches(m, parent, name) ==
    {k \in DOMAIN m.dirents : m.dirents[k].parent = parent /\ m.dirents[k].name = name}
Find(m, parent, name) ==
    IF Matches(m, parent, name) = {} THEN NoIno
    ELSE m.dirents[Min(Matches(m, parent, name))].ino

\* walk follows the names; walkParent also asks that each on the way is a
\* directory.
Walk(m, path) ==
    FoldLeft(LAMBDA cur, name : IF cur = NoIno THEN NoIno ELSE Find(m, cur, name),
             Root, path)
WalkParent(m, path) ==
    IF \A n \in 1 .. Len(path) - 1 : IsDirIno(m, Walk(m, SubSeq(path, 1, n)))
    THEN Walk(m, Front(path)) ELSE NoIno

LinkName(m, parent, name, i) ==
    [m EXCEPT !.dirents = Append(@, [parent |-> parent, name |-> name, ino |-> i])]

UnlinkName(m, parent, name) ==
    [m EXCEPT !.dirents = RemoveAt(@, Min(Matches(m, parent, name)))]

-----------------------------------------------------------------------------
(* Replay *)

ApplyInode(m, r) ==
    [m EXCEPT !.inodes = Put(@, r.ino, [kind |-> r.kind, size |-> r.size]),
              !.nextIno = IF r.ino >= @ THEN r.ino + 1 ELSE @]

\* apply: one valid record into the image.
Apply(m, r) ==
    CASE r.t = "INODE"  -> ApplyInode(m, r)
      [] r.t = "DIRENT" -> LinkName(m, r.parent, r.name, r.ino)
      [] r.t = "DATA"   ->
            [m EXCEPT !.data = Put(@, r.ino, Overwrite(DataOf(m, r.ino), r.off, r.bytes))]
      [] r.t = "TRUNC"  -> [m EXCEPT !.data = Put(@, r.ino, <<>>)]
      [] r.t = "CP"     -> [m EXCEPT !.nextIno = IF r.next > @ THEN r.next ELSE @]

\* The records apply accepts.  A delete record carries no inode number, and
\* apply rejects a DIRENT without one before it looks at the operation.
Accepted(r) == r.t \notin {"TORN", "DELETE"}

ValidPrefix ==
    LET bad == {k \in DOMAIN log : ~Accepted(log[k])}
    IN  IF bad = {} THEN log ELSE SubSeq(log, 1, Min(bad) - 1)

Replayed == FoldLeft(Apply, NoImage, ValidPrefix)

-----------------------------------------------------------------------------
(* Reading a file *)

\* The log up to the cursor.
Committed == SubSeq(log, 1, wOff)

\* replayData: the bytes of file i from the records l.
ReplayData(l, i, size) ==
    FoldLeft(LAMBDA out, r :
                IF r.t = "TRUNC" /\ r.ino = i THEN Zeros(size)
                ELSE IF r.t = "DATA" /\ r.ino = i
                THEN SubSeq(Overwrite(out, r.off, r.bytes), 1, size)
                ELSE out,
             Zeros(size), l)

\* ReadFile from the RAM mirror when it is long enough, else from the log.
Contents(m, l, i) ==
    LET size == SizeOf(m, i)
    IN  IF Len(DataOf(m, i)) >= size THEN SubSeq(DataOf(m, i), 1, size)
                                     ELSE ReplayData(l, i, size)

\* The tree a client sees through Stat, List and ReadFile.
View(m, l) ==
    [p \in {q \in Paths : Walk(m, q) # NoIno} |->
        IF IsDirIno(m, Walk(m, p)) THEN Dir ELSE File(Contents(m, l, Walk(m, p)))]
-----------------------------------------------------------------------------
(* State machine *)

Init ==
    /\ super = FALSE
    /\ log = <<>> /\ wOff = 0
    /\ mounted = FALSE /\ mem = NoImage /\ recs = 0
    /\ op = Idle
    /\ tree = <<>> /\ lost = Idle /\ past = {} /\ faults = 0

\* FormatKFS of a blank device: superblock, root inode, checkpoint.
Format ==
    /\ ~super /\ op = Idle
    /\ super' = TRUE
    /\ mem' = [NoImage EXCEPT !.nextIno = Root + 1]
    /\ op' = [kind |-> "format", cp |-> FALSE,
              todo |-> <<Inode(Root, "dir", 0), Checkpoint(Root + 1)>>]
    /\ UNCHANGED <<log, wOff, mounted, recs, tree, lost, past, faults>>

\* MountKFS: replay; the cursor resumes at the recovered end.
Mount ==
    /\ super /\ ~mounted /\ op = Idle
    /\ mounted' = TRUE
    /\ wOff' = Len(ValidPrefix)
    /\ mem' = Replayed
    /\ recs' = 0
    /\ tree' = View(Replayed, ValidPrefix)
    /\ lost' = Idle
    /\ past' = past \cup {x \in {"dropped"} : Len(ValidPrefix) < wOff}
    /\ UNCHANGED <<super, log, op, faults>>

\* An operation that passed its checks: todo lists the records to append.
Begin(o, todo) ==
    /\ op = Idle /\ mounted
    /\ op' = o @@ [todo |-> todo, cp |-> FALSE]
    /\ UNCHANGED <<super, log, wOff, mounted, recs, tree, lost, past, faults>>

\* Fault: the name is recorded before the inode it stands for.
NameFirst(parent, name, kind, i) == <<Dirent(parent, name, i), Inode(i, kind, 0)>>

NewRecords(parent, name, kind, i) == <<Inode(i, kind, 0), Dirent(parent, name, i)>>

New(path, kind) ==
    LET i == mem.nextIno
        parent == WalkParent(mem, path)
    IN  /\ parent # NoIno
        /\ Find(mem, parent, Last(path)) = NoIno
        /\ i <= MaxIno
        /\ mem' = [mem EXCEPT !.nextIno = i + 1]
        /\ Begin([kind |-> IF kind = "dir" THEN "mkdir" ELSE "create",
                  path |-> path, ino |-> i],
                 NewRecords(parent, Last(path), kind, i))

\* Create, of a new name and of an existing file (truncate).
Create(path) == New(path, "file")
CreateExisting(path) ==
    LET i == Walk(mem, path)
    IN  /\ i # NoIno /\ ~IsDirIno(mem, i)
        /\ Begin([kind |-> "create", path |-> path, ino |-> i],
                 <<Truncate(i)>> \o IF SizeOf(mem, i) # 0 THEN <<Inode(i, "file", 0)>>
                                                          ELSE <<>>)
        /\ UNCHANGED mem

Mkdir(path) == New(path, "dir")

Delete(path) ==
    LET parent == WalkParent(mem, path)
        i == Find(mem, parent, Last(path))
    IN  /\ parent # NoIno /\ i # NoIno
        /\ IsDirIno(mem, i) => \A k \in DOMAIN mem.dirents : mem.dirents[k].parent # i
        /\ Begin([kind |-> "delete", path |-> path, ino |-> i],
                 <<DirentDelete(parent, Last(path))>>)
        /\ UNCHANGED mem

\* WriteFile: the data, then the inode if the file grows.
Write(path, off, bytes) ==
    LET i == Walk(mem, path)
        end == off + Len(bytes)
    IN  /\ i # NoIno /\ i \in DOMAIN mem.inodes /\ ~IsDirIno(mem, i)
        /\ Begin([kind |-> "write", path |-> path, ino |-> i, off |-> off, bytes |-> bytes],
                 <<Data(i, off, bytes)>> \o
                     IF end > SizeOf(mem, i) THEN <<Inode(i, "file", end)>> ELSE <<>>)
        /\ UNCHANGED mem

\* ReadFile keeps what it reconstructs from the log.
Read(path) ==
    LET i == Walk(mem, path)
    IN  /\ op = Idle /\ mounted
        /\ i # NoIno /\ ~IsDirIno(mem, i)
        /\ Len(DataOf(mem, i)) < SizeOf(mem, i)
        /\ mem' = [mem EXCEPT !.data = Put(@, i, ReplayData(Committed, i, SizeOf(mem, i)))]
        /\ UNCHANGED <<super, log, wOff, mounted, recs, op, tree, lost, past, faults>>

-----------------------------------------------------------------------------
(* The steps of an operation *)

\* Fault: the mirror survives the write.
Keep(data, i) == data

\* WriteFile drops the RAM mirror of the file it changed.
Invalidate(data, i) == Put(data, i, <<>>)

\* What the operation does to the image once its last append succeeded.
Effect(m, o) ==
    CASE o.kind = "format" -> NoImage
      [] o.kind \in {"create", "mkdir"} /\ Walk(m, o.path) = NoIno ->
            [LinkName(m, WalkParent(m, o.path), Last(o.path), o.ino)
                EXCEPT !.inodes = Put(@, o.ino, [kind |-> IF o.kind = "mkdir" THEN "dir"
                                                          ELSE "file", size |-> 0]),
                       !.data = IF o.kind = "mkdir" THEN @ ELSE Drop(@, o.ino)]
      [] o.kind = "create" ->
            [m EXCEPT !.inodes[o.ino].size = 0, !.data = Put(@, o.ino, <<>>)]
      [] o.kind = "delete" ->
            [UnlinkName(m, WalkParent(m, o.path), Last(o.path))
                EXCEPT !.data = Drop(@, o.ino)]
      [] o.kind = "write" ->
            [m EXCEPT !.inodes[o.ino].size = IF o.off + Len(o.bytes) > @
                                             THEN o.off + Len(o.bytes) ELSE @,
                      !.data = Invalidate(@, o.ino)]

HasRoom == wOff < LogEnd

\* append writes at the cursor, over whatever a torn tail left there.
Written(r) ==
    IF wOff < Len(log) THEN [log EXCEPT ![wOff + 1] = r] ELSE Append(log, r)

\* The record append writes next: a checkpoint that is due goes first.
NextRecord == IF op.cp THEN Checkpoint(mem.nextIno) ELSE Head(op.todo)

AppendRecord ==
    LET isCP == NextRecord.t = "CP"
        due == ~isCP /\ (recs + 1) % CPEvery = 0
        rest == Tail(op.todo)
    IN  /\ op # Idle
        /\ HasRoom
        /\ log' = Written(NextRecord)
        /\ wOff' = wOff + 1
        /\ recs' = IF isCP THEN recs ELSE recs + 1
        /\ past' = IF NextRecord.t = "DELETE" THEN past \cup {"deleted"} ELSE past
        /\ IF due \/ rest # <<>>
           THEN /\ op' = IF due THEN [op EXCEPT !.cp = TRUE]
                                ELSE [op EXCEPT !.cp = FALSE, !.todo = rest]
                /\ UNCHANGED <<mem, tree>>
           ELSE /\ op' = Idle
                /\ mem' = Effect(mem, op)
                /\ tree' = IF op.kind # "format" /\ Allowed(tree, op) THEN Done(tree, op)
                                                                    ELSE tree
        /\ UNCHANGED <<super, mounted, lost, faults>>

\* How an operation was cut short: FormatKFS before the root inode is in the
\* log, a growing write after its data record.
CutShort ==
    {x \in {"unformatted"} : op.kind = "format" /\ wOff = 0} \cup
    {x \in {"ungrown"} : /\ op.kind = "write" /\ Last(op.todo).t = "INODE"
                         /\ op.cp \/ Len(op.todo) = 1}

\* append returns ErrNoSpace, or the device an error, possibly with part of the
\* record written.  The operation returns the error.
AppendFails ==
    /\ op # Idle
    /\ \/ ~HasRoom /\ UNCHANGED <<log, faults>>
       \/ /\ HasRoom /\ faults < MaxFaults
          /\ log' \in {log, Written(Torn)}
          /\ faults' = faults + 1
    /\ op' = Idle
    /\ past' = past \cup {"failed"} \cup CutShort
    /\ UNCHANGED <<super, wOff, mounted, mem, recs, tree, lost>>

\* Power fails: the image is lost, the record being written may be torn.
Crash ==
    /\ super
    /\ mounted \/ op # Idle
    /\ faults < MaxFaults /\ faults' = faults + 1
    /\ mounted' = FALSE
    /\ mem' = NoImage /\ recs' = 0
    /\ op' = Idle
    /\ lost' = op
    /\ log' \in {log} \cup {l \in {Written(Torn)} : op # Idle /\ HasRoom}
    /\ past' = past \cup CutShort
    /\ UNCHANGED <<super, wOff, tree>>

Next ==
    \/ Format
    \/ Mount
    \/ \E p \in Paths : \/ Create(p) \/ CreateExisting(p) \/ Mkdir(p)
                        \/ Delete(p) \/ Read(p)
                        \/ \E w \in Writes : Write(p, w.off, w.bytes)
    \/ AppendRecord
    \/ AppendFails
    \/ Crash

Spec == Init /\ [][Next]_vars

-----------------------------------------------------------------------------
(* Properties *)

\* The write cursor stays inside the log and within what was written; inode
\* numbers and the counters stay in their ranges.
TypeOK ==
    /\ super \in BOOLEAN /\ mounted \in BOOLEAN
    /\ wOff \in 0 .. LogEnd /\ wOff <= Len(log) /\ Len(log) <= LogEnd
    /\ recs \in 0 .. wOff
    /\ mem.nextIno \in 0 .. MaxIno + 1
    /\ DOMAIN mem.inodes \cup DOMAIN mem.data \subseteq 0 .. MaxIno
    /\ op.kind \in {"idle", "format", "create", "mkdir", "delete", "write"}
    /\ op # Idle => op.todo # <<>>
    /\ DOMAIN tree \subseteq Paths
    /\ past \subseteq {"deleted", "failed", "dropped", "unformatted", "ungrown"}
    /\ faults \in 0 .. MaxFaults

\* The image and the log are as the operations left them: no error or power
\* failure hit one of the windows the code leaves open (see the README).
Regular == past \subseteq {"deleted"}

\* A client that reads sees what was written: between operations the names,
\* kinds, sizes and contents served from the image, its RAM mirror and the
\* log agree with the operations carried out so far.
ReadsSeeWrites ==
    mounted /\ op = Idle /\ Regular => View(mem, Committed) = tree

MountRestores(seen) ==
    Mount /\ past \subseteq seen /\ lost.kind # "format" =>
        tree' \in IF lost = Idle THEN {tree} ELSE Survives(tree, lost)

\* Mounting brings back the promised tree; of an operation power failed in,
\* all, nothing, or the contents of a file without its new length.  This is so
\* as long as no delete was recorded.
RestoredUntilDelete == [][MountRestores({})]_vars

\* "A torn or corrupt tail is dropped; everything committed before it is
\* restored exactly" (MountKFS).
RestoredExactly == [][MountRestores({"deleted"})]_vars

\* Inode numbers are never handed out twice: no two names share an inode and
\* none stands for the root, across replays, lost operations and errors.
InodesDistinct ==
    past \cap {"unformatted", "dropped"} = {} =>
        \A j, k \in DOMAIN mem.dirents :
            /\ mem.dirents[k].ino # Root
            /\ mem.dirents[j].ino = mem.dirents[k].ino => j = k
=============================================================================
