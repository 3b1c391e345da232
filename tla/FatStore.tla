---------------------------- MODULE FatStore ----------------------------
(***************************************************************************)
(* The FAT16 store at work: a volume, freshly formatted or written by      *)
(* tools/img, is mounted, and the server's operations are run on it.       *)
(* Beside it a tree records what the operations promise (FileTree).        *)
(*                                                                         *)
(* tools/img is the builder that lays a tree of files out as a FAT16       *)
(* volume (fat.go, names.go) and the independent reader of `img -read`     *)
(* (readback.go).  A source is the sequence of nodes given to MkDir and    *)
(* Add; a volume being built is a record v, whose err is "ok" or "full".   *)
(***************************************************************************)
EXTENDS Fat16

Node(path, kind, bytes) == [path |-> path, kind |-> kind, bytes |-> bytes]

\* nodeFor creates the missing parents, outermost first, before the node.
RECURSIVE Placed(_, _)
Placed(nodes, src) ==
  IF src = <<>> THEN nodes
  ELSE LET n == Head(src)
           known == {nodes[i].path : i \in DOMAIN nodes}
           parents == SelectSeq([k \in 1..(Len(n.path) - 1) |->
                                   Node(SubSeq(n.path, 1, k), "dir", <<>>)],
                                LAMBDA d : d.path \notin known)
       IN Placed(nodes \o parents \o (IF n.path \in known THEN <<>> ELSE <<n>>), Tail(src))

\* The tree a source describes.
TreeOf(nodes) ==
  [p \in {nodes[i].path : i \in DOMAIN nodes} |->
     LET n == nodes[CHOOSE i \in DOMAIN nodes : nodes[i].path = p]
     IN IF n.kind = "dir" THEN Dir ELSE File(n.bytes)]

Children(nodes, path) ==
  SelectSeq(nodes, LAMBDA n : n.path # <<>> /\ Front(n.path) = path)

-----------------------------------------------------------------------------
(* Clusters.                                                               *)

\* The search starts at the hint and wraps before the last cluster number.
allocCluster(v) ==
  LET free == {n \in 2..Clusters : v.fat[n] = Free}
      ahead == {n \in free : n >= v.next}
      n == IF ahead # {} THEN Least(ahead) ELSE Least(free)
  IN IF free = {} THEN [v EXCEPT !.err = "full"]
     ELSE [v EXCEPT !.got = n, !.next = n + 1]

RECURSIVE linkMore(_, _, _)
linkMore(v, prev, k) ==
  IF k = 0 THEN [v EXCEPT !.fat[prev] = EOC]
  ELSE LET a == allocCluster(v)
       IN IF a.err # "ok" THEN a
          ELSE linkMore([a EXCEPT !.fat[prev] = a.got, !.fat[a.got] = EOC], a.got, k - 1)

\* Leaves the head of the new chain in got.
allocChain(v, count) ==
  LET a == allocCluster(v)
      all == linkMore(a, a.got, count - 1)
  IN IF a.err # "ok" THEN a ELSE [all EXCEPT !.got = a.got]

\* growChain: from the end of the chain that has one cluster.
growChain(v, start, want) == linkMore(v, start, want - 1)

\* The k-th chunk of what is written goes to the k-th cluster.
chainWrite(v, start, chunks) ==
  LET chain == Chain(v.fat, start)
  IN IF Len(chain) < Len(chunks) THEN [v EXCEPT !.err = "full"]
     ELSE [v EXCEPT !.data = [c \in Cluster |->
             IF \E k \in DOMAIN chunks : chain[k] = c
             THEN chunks[CHOOSE k \in DOMAIN chunks : chain[k] = c] ELSE @[c]]]

\* Bytes or slots cut into clusters, the last one filled up with zeros.
Chunks(s, n, zero) ==
  [k \in 1..ceilDiv(Len(s), n) |->
     [i \in 1..n |-> IF (k - 1) * n + i <= Len(s) THEN s[(k - 1) * n + i] ELSE zero]]

ByteChunks(s) == LET cs == Chunks(s, CB, 0) IN [k \in DOMAIN cs |-> Bytes(cs[k])]
SlotChunks(s) == LET cs == Chunks(s, SC, End) IN [k \in DOMAIN cs |-> Slots(cs[k])]

-----------------------------------------------------------------------------
(* Names.                                                                  *)

exact(name) == name.fits /\ name.upper

shortName(name) == <<name.stem, 0>>

resolveCollision(short, taken) ==
  <<short[1], Least({n \in 1..(Cardinality(taken) + 1) : <<short[1], n>> \notin taken})>>

\* The long-name slots come before the entry, the last part of the name first.
lfnEntries(name, short) ==
  [k \in 1..name.slots |-> Lfn(name, name.slots + 1 - k, short)]

RECURSIVE appendEntries(_, _, _)
appendEntries(kids, starts, taken) ==
  IF kids = <<>> THEN <<>>
  ELSE LET c == Head(kids)
           name == Last(c.path)
           short == IF exact(name) THEN shortName(name)
                    ELSE resolveCollision(shortName(name), taken)
       IN (IF exact(name) THEN <<>> ELSE lfnEntries(name, short))
          \o <<Entry(short, c.kind = "dir", starts[c.path], Len(c.bytes))>>
          \o appendEntries(Tail(kids), starts, taken \cup {short})

-----------------------------------------------------------------------------
(* emitDir: the directory's own cluster, its subdirectories, its files,    *)
(* and only then its entries, which need every start.                      *)

Started(v, path, clus) ==
  [v EXCEPT !.starts = [p \in DOMAIN @ \cup {path} |-> IF p = path THEN clus ELSE @[p]]]

emitAt(a, n) ==
  IF a.err # "ok" THEN a ELSE chainWrite(Started(a, n.path, a.got), a.got, ByteChunks(n.bytes))

emitFile(v, n) ==
  IF n.bytes = <<>> THEN Started(v, n.path, 0) ELSE emitAt(allocChain(v, ceilDiv(Len(n.bytes), CB)), n)

\* The directory at clus gets its entries; only the root has a fixed size.
emitEntries(v, path, clus, slots) ==
  LET want == ceilDiv(Len(slots), SC)
      grown == IF want > 1 THEN growChain(v, clus, want) ELSE v
  IN IF path # <<>>
     THEN IF grown.err # "ok" THEN grown ELSE chainWrite(grown, clus, SlotChunks(slots))
     ELSE IF Len(slots) > RootSlots THEN [v EXCEPT !.err = "full"]
     ELSE [v EXCEPT !.root = Padded(slots, RootSlots)]

emitBelow(v, path, clus, kids) ==
  IF v.err # "ok" THEN v
  ELSE emitEntries(v, path, clus, (IF path = <<>> THEN <<>> ELSE <<Dot, Dot>>)
         \o appendEntries(kids, v.starts, {shortName(Last(kids[k].path)) : k \in DOMAIN kids}))

RECURSIVE emitDir(_, _, _), emitKids(_, _, _)
emitKids(v, nodes, kids) ==
  IF kids = <<>> \/ v.err # "ok" THEN v
  ELSE emitKids(IF Head(kids).kind = "dir" THEN emitDir(v, nodes, Head(kids).path)
                                           ELSE emitFile(v, Head(kids)),
                nodes, Tail(kids))

emitInto(own, nodes, path, kids) ==
  LET dirs == SelectSeq(kids, LAMBDA n : n.kind = "dir")
      files == SelectSeq(kids, LAMBDA n : n.kind # "dir")
  IN IF own.err # "ok" THEN own
     ELSE emitBelow(emitKids(Started(own, path, IF path = <<>> THEN 0 ELSE own.got), nodes, dirs \o files),
                    path, own.got, kids)

emitDir(v, nodes, path) ==
  emitInto(IF path = <<>> THEN v ELSE allocChain(v, 1), nodes, path, Children(nodes, path))

NewVolume == [fat |-> Format.fat, root |-> Format.root, data |-> Format.data,
              next |-> 2, got |-> 0, starts |-> <<>>, err |-> "ok"]

Flush(src) == emitDir(NewVolume, Placed(<<>>, src), <<>>)

\* The volume on the device, as Mount finds it.
Image(v) == [fat |-> v.fat, root |-> v.root, data |-> v.data]

-----------------------------------------------------------------------------
(* readback.go.                                                            *)

RECURSIVE LongParts(_, _)
LongParts(s, i) ==
  IF i = 0 \/ s[i].t # "lfn" THEN {} ELSE {s[i]} \cup LongParts(s, i - 1)

\* The long name is used when all its parts are there and belong to the entry.
HasName(s, i, name) ==
  LET parts == LongParts(s, i - 1)
      long == CHOOSE p \in parts : TRUE
  IN IF parts # {} /\ {p.seq : p \in parts} = 1..Cardinality(parts) /\ long.sum = s[i].short
     THEN long.name.fold = name.fold
     ELSE name.fits /\ s[i].short = <<name.stem, 0>>

rdDir(vol, clus) ==
  IF clus = 0 THEN vol.root
  ELSE LET chain == Chain(vol.fat, clus)
       IN Flat([k \in DOMAIN chain |-> SlotsIn(vol.data[chain[k]])])

RECURSIVE rdFind(_, _, _)
rdFind(vol, clus, path) ==
  LET s == rdDir(vol, clus)
      hits == {i \in Live(s) : s[i].t = "entry" /\ HasName(s, i, Head(path))}
  IN IF hits = {} THEN End
     ELSE IF Len(path) = 1 THEN s[Least(hits)]
     ELSE IF ~s[Least(hits)].dir THEN End
     ELSE rdFind(vol, s[Least(hits)].clus, Tail(path))

rdBytes(vol, e) ==
  LET chain == Chain(vol.fat, e.clus)
      all == Flat([k \in DOMAIN chain |-> BytesIn(vol.data[chain[k]])])
  IN IF e = End \/ e.dir \/ Len(all) < e.size THEN <<Junk>> ELSE SubSeq(all, 1, e.size)

\* The file at path, or <<Junk>> when there is no such file.
rdFile(vol, path) == rdBytes(vol, rdFind(vol, 0, path))

-----------------------------------------------------------------------------
(* The store.                                                              *)

CONSTANTS Sources,    \* the sources tools/img is given; <<>> is a bare Format
          Ops,        \* the operations the server asks for
          MaxOps      \* bound: operations run

VARIABLES fs,         \* the mounted file system
          tree,       \* ghost: the tree the operations have built
          result,     \* the last error, and whether the tree allowed the operation
          done        \* operations run

vars == <<fs, tree, result, done>>

Do(f, o) ==
  CASE o.kind = "mkdir"  -> Mkdir(f, o.path)
    [] o.kind = "create" -> Create(f, o.path)
    [] o.kind = "write"  -> WriteFile(f, o.path, o.off, o.bytes)
    [] o.kind = "delete" -> Delete(f, o.path)

Init ==
  /\ \E src \in Sources :
       /\ \E v \in {Flush(src)} :
            /\ v.err = "ok"
            /\ fs = Mount(IF src = <<>> THEN Format ELSE Image(v))
       /\ tree = TreeOf(Placed(<<>>, src))
  /\ result = [err |-> "ok", allowed |-> TRUE]
  /\ done = 0

Operate(o) ==
  /\ done < MaxOps
  /\ done' = done + 1
  /\ \E r \in {Do(fs, o)} :
       /\ fs' = r.f
       /\ result' = [err |-> r.err, allowed |-> Allowed(tree, o)]
       /\ tree' = IF r.err = "ok" /\ Allowed(tree, o) THEN Done(tree, o) ELSE tree

\* ReadFile on a file nobody has read since it changed.
Read(path) ==
  /\ path \notin DOMAIN fs.files
  /\ \E r \in {Opened(fs, path)} : r.err = "ok" /\ fs' = r.f
  /\ UNCHANGED <<tree, result, done>>

Remount ==
  /\ fs # Mount(fs.dev)
  /\ fs' = Mount(fs.dev)
  /\ UNCHANGED <<tree, result, done>>

Next ==
  \/ \E o \in Ops : Operate(o)
  \/ \E path \in DOMAIN tree : Read(path)
  \/ Remount

Spec == Init /\ [][Next]_vars

-----------------------------------------------------------------------------
\* The slots of a directory as the store sees them.
SlotsAt(path) ==
  IF path = <<>> THEN fs.root
  ELSE LET d == Resolve(fs, path).d
           i == Lookup(d.slots, Last(path))
       IN IF i = 0 THEN <<>> ELSE SubDir(fs, d.slots[i].clus).slots

\* What the store answers is what its operations promised, whatever the volume
\* came from and whatever its caches hold: an operation succeeds only where
\* the tree allows it and fails otherwise only for want of space, every file
\* reads as it was last written, and a directory lists its children and
\* nothing else (fat16.go Mkdir, Create, WriteFile, Delete, ReadFile, List).
StoreIsTree ==
  /\ result.err = "ok" => result.allowed
  /\ result.allowed => result.err \in {"ok", "nospace"}
  /\ \A path \in DOMAIN tree :
       IF IsDir(tree, path) THEN Resolve(fs, path).err = "ok"
       ELSE Opened(fs, path).err = "ok" /\ ReadFile(fs, path) = tree[path].bytes
  /\ \A path \in {<<>>} \cup {p \in DOMAIN tree : IsDir(tree, p)} :
       LET s == SlotsAt(path)
           kids == {p \in DOMAIN tree : Front(p) = path}
       IN /\ Cardinality(Listed(s)) = Cardinality(kids)
          /\ \A p \in kids : \E i \in Listed(s) : IsNamed(s, i, Last(p))

\* Another reader of the device, which shares nothing with the store, finds
\* the same files: no operation leaves its effect in a cache only, and the
\* image builder writes what both readers expect (readback.go readFile;
\* fat16.go saveDir, flushFat; img/fat.go emitDir).
DeviceIsTree ==
  \A path \in DOMAIN tree :
    IF IsDir(tree, path)
    THEN rdFind(fs.dev, 0, path) # End /\ rdFind(fs.dev, 0, path).dir
    ELSE rdFile(fs.dev, path) = tree[path].bytes
=============================================================================
