----------------------------- MODULE Fat16 -----------------------------
(***************************************************************************)
(* The FAT16 file system of services/fs/fat16.go: the volume on a block    *)
(* device, the caches over it and the operations.  A cluster holds CB      *)
(* bytes or SC directory slots; a slot is 32 bytes of a real directory.    *)
(*                                                                         *)
(* A name is a record: stem is its upper-cased, truncated 8.3 form, fits   *)
(* says that nothing was truncated, upper that nothing was upper-cased     *)
(* either, valid that validate83 accepts it, fold is the name without its  *)
(* case, and slots is the number of long-name slots it takes.  An 8.3 name *)
(* on disk is a stem and the number of its ~N tail, 0 for none.            *)
(***************************************************************************)
EXTENDS FileTree, FiniteSets, SequencesExt

CONSTANTS Clusters,   \* how many data clusters there are, numbered from 2
          CB, SC,     \* bytes and slots of a cluster
          RootSlots   \* slots of the fixed root directory

Cluster == 2 .. Clusters + 1
Free == 0
EOC == 65535
Bad == <<"", 0>>      \* the eleven zero bytes of a name validate83 refused

End == [t |-> "end"]
Dot == [t |-> "dot"]
Lfn(name, seq, sum) == [t |-> "lfn", name |-> name, seq |-> seq, sum |-> sum]
Entry(short, dir, clus, size) ==
  [t |-> "entry", short |-> short, dir |-> dir, clus |-> clus, size |-> size]

Slots(s) == [t |-> "slots", s |-> s]
Bytes(s) == [t |-> "bytes", s |-> s]
ZeroCluster == Bytes(Zeros(CB))
Junk == 99            \* what directory slots look like to a reader of bytes

SlotsIn(c) == IF c.t = "slots" THEN c.s ELSE [i \in 1..SC |-> End]
BytesIn(c) == IF c.t = "bytes" THEN c.s ELSE [i \in 1..CB |-> Junk]

Padded(s, n) == s \o [i \in 1..(n - Len(s)) |-> End]
Least(S) == CHOOSE x \in S : \A y \in S : x <= y
ceilDiv(v, by) == (v + by - 1) \div by
Flat(ss) == FlattenSeq(ss)

-----------------------------------------------------------------------------
(* Directories.                                                            *)

validate83(name) == IF name.valid THEN <<name.stem, 0>> ELSE Bad

\* The slots before the end mark.
Live(s) == {i \in DOMAIN s : \A j \in 1..i : s[j].t # "end"}

AfterLong(s, i) == i > 1 /\ s[i - 1].t = "lfn" /\ s[i].t # "lfn"

find(s, short) ==
  LET hits == {i \in Live(s) : s[i].t = "entry" /\ s[i].short = short}
  IN IF hits = {} THEN 0 ELSE Least(hits)

\* The name list and findByLfn give a slot; short names are told by their text.
IsNamed(s, i, name) ==
  IF AfterLong(s, i) THEN s[i - 1].name.fold = name.fold
  ELSE name.fits /\ s[i].short = <<name.stem, 0>>

findByLfn(s, name) ==
  LET hits == {i \in Live(s) : s[i].t = "entry" /\ IsNamed(s, i, name)}
  IN IF hits = {} THEN 0 ELSE Least(hits)

Lookup(s, name) ==
  LET i == find(s, validate83(name)) IN IF i # 0 THEN i ELSE findByLfn(s, name)

\* list() looks at what follows a long name without asking if it is deleted.
Listed(s) ==
  {i \in Live(s) : s[i].t \in {"entry", "deleted"} /\ (s[i].t = "entry" \/ AfterLong(s, i))}

freeSlot(s) ==
  LET open == {i \in DOMAIN s : s[i].t \in {"deleted", "end"}}
      i == Least(open)
  IN IF open = {} \/ (s[i].t = "end" /\ i = Len(s)) THEN 0 ELSE i

\* A zero first byte is the end mark, whatever follows it.
putEntry(s, e) == [s EXCEPT ![freeSlot(s)] = IF e.short = Bad THEN End ELSE e]

-----------------------------------------------------------------------------
(* The allocation table.                                                   *)

RECURSIVE chainOf(_, _, _)
chainOf(fat, c, guard) ==
  IF c \notin Cluster \/ guard = 0 THEN <<>>
  ELSE <<c>> \o (IF fat[c] < 2 \/ fat[c] >= 65528 THEN <<>>
                 ELSE chainOf(fat, fat[c], guard - 1))

Chain(fat, start) == chainOf(fat, start, Clusters + 4)

\* The clusters n calls of allocOne claim, fewer when the table fills up.
RECURSIVE LeastOf(_, _)
LeastOf(S, n) ==
  IF n = 0 \/ S = {} THEN <<>> ELSE <<Least(S)>> \o LeastOf(S \ {Least(S)}, n - 1)

Claimed(fat, n) == LeastOf({c \in Cluster : fat[c] = Free}, n)

\* Fault: a chain is extended from its first cluster.
LinkedFromHead(fat, chain, new) ==
  [c \in Cluster |->
        IF \E k \in DOMAIN new : new[k] = c
        THEN LET k == CHOOSE k \in DOMAIN new : new[k] = c
             IN IF k = Len(new) THEN EOC ELSE new[k + 1]
        ELSE IF chain # <<>> /\ new # <<>> /\ c = chain[1] THEN new[1] ELSE fat[c]]

\* Linked one behind the other, behind the last cluster of the chain.
Linked(fat, chain, new) ==
  LET all == chain \o new
  IN [c \in Cluster |->
        IF \E k \in Len(chain)..Len(all) : k > 0 /\ all[k] = c /\ new # <<>>
        THEN LET k == CHOOSE k \in DOMAIN all : all[k] = c
             IN IF k = Len(all) THEN EOC ELSE all[k + 1]
        ELSE fat[c]]

freeChain(fat, start) ==
  [c \in Cluster |-> IF c \in Range(Chain(fat, start)) THEN Free ELSE fat[c]]

Zeroed(data, new) == [c \in Cluster |-> IF c \in Range(new) THEN ZeroCluster ELSE data[c]]

-----------------------------------------------------------------------------
(* Loading and saving directories.  A handle has the slots and the chain;  *)
(* the chain of the root is empty.                                         *)

Held(f, c) == IF c \in DOMAIN f.sectors THEN f.sectors[c] ELSE SlotsIn(f.dev.data[c])

RootDir(f) == [chain |-> <<>>, slots |-> f.root]

SubDir(f, clus) ==
  LET chain == Chain(f.fat, clus)
  IN [chain |-> chain, slots |-> Flat([k \in DOMAIN chain |-> Held(f, chain[k])])]

\* loadDir remembers the sectors it read.
Loaded(f, chain) ==
  [f EXCEPT !.sectors = [c \in DOMAIN @ \cup Range(chain) |-> Held(f, c)]]

saveDir(f, d) ==
  LET part(c) == LET k == CHOOSE k \in DOMAIN d.chain : d.chain[k] = c
                 IN SubSeq(d.slots, (k - 1) * SC + 1, k * SC)
  IN IF d.chain = <<>> THEN [f EXCEPT !.dev.root = d.slots, !.root = d.slots]
     ELSE [f EXCEPT !.dev.data = [c \in Cluster |->
                      IF c \in Range(d.chain) THEN Slots(part(c)) ELSE @[c]],
                    !.sectors = [c \in DOMAIN @ \cup Range(d.chain) |->
                      IF c \in Range(d.chain) THEN part(c) ELSE @[c]]]

\* Fault: the table is flushed only when it has grown.
flushFatGrown(f) ==
  IF \E c \in Cluster : f.dev.fat[c] = Free /\ f.fat[c] # Free
  THEN [f EXCEPT !.dev.fat = f.fat] ELSE f

flushFat(f) == [f EXCEPT !.dev.fat = f.fat]

\* growDir: one more zeroed cluster; the root cannot grow.
growDir(f, d) ==
  LET new == Claimed(f.fat, 1)
  IN IF d.chain = <<>> \/ new = <<>> THEN [f |-> f, d |-> d, err |-> "nospace"]
     ELSE [f |-> [f EXCEPT !.fat = Linked(@, d.chain, new), !.dev.data = Zeroed(@, new)],
           d |-> [chain |-> d.chain \o new, slots |-> d.slots \o [i \in 1..SC |-> End]],
           err |-> "ok"]

WithSlot(f, d) == IF freeSlot(d.slots) # 0 THEN [f |-> f, d |-> d, err |-> "ok"]
                  ELSE growDir(f, d)

RECURSIVE resolveParent(_, _, _)
resolveParent(f, d, parts) ==
  IF Len(parts) = 1 THEN [f |-> f, d |-> d, err |-> "ok"]
  ELSE LET i == Lookup(d.slots, Head(parts))
           chain == Chain(f.fat, d.slots[i].clus)
       IN IF ~Head(parts).valid THEN [f |-> f, d |-> d, err |-> "badname"]
          ELSE IF i = 0 THEN [f |-> f, d |-> d, err |-> "noentry"]
          ELSE IF ~d.slots[i].dir THEN [f |-> f, d |-> d, err |-> "notdir"]
          ELSE resolveParent(Loaded(f, chain), SubDir(f, d.slots[i].clus), Tail(parts))

Resolve(f, path) == resolveParent(f, RootDir(f), path)

-----------------------------------------------------------------------------
(* The operations: the file system after one, and its error.               *)

Forget(f, path) == [f EXCEPT !.files = [p \in DOMAIN @ \ {path} |-> @[p]]]

MkdirIn(r, n11) ==
  LET new == Claimed(r.f.fat, 1)
      f == [r.f EXCEPT !.fat = Linked(@, <<>>, new),
                       !.dev.data = [Zeroed(@, new) EXCEPT ![new[1]] =
                                       Slots(Padded(<<Dot, Dot>>, SC))]]
      g == WithSlot(f, r.d)
  IN IF r.err # "ok" THEN r
     ELSE IF find(r.d.slots, n11) # 0 THEN [r EXCEPT !.err = "exists"]
     ELSE IF new = <<>> THEN [r EXCEPT !.err = "nospace"]
     ELSE IF g.err # "ok" THEN [f |-> [f EXCEPT !.fat = freeChain(@, new[1])], err |-> "nospace"]
     ELSE [f |-> flushFat(saveDir(g.f, [g.d EXCEPT !.slots =
                   putEntry(@, Entry(n11, TRUE, new[1], 0))])),
           err |-> "ok"]

Mkdir(f0, path) == MkdirIn(Resolve(Forget(f0, path), path), validate83(Last(path)))

\* An existing file is truncated.
CreateIn(r, n11, i) ==
  LET g == WithSlot(r.f, r.d)
  IN IF r.err # "ok" THEN r
     ELSE IF i # 0 /\ r.d.slots[i].dir THEN [r EXCEPT !.err = "isdir"]
     ELSE IF i # 0
     THEN [f |-> flushFat(saveDir([r.f EXCEPT !.fat = freeChain(@, r.d.slots[i].clus)],
                   [r.d EXCEPT !.slots[i].clus = 0, !.slots[i].size = 0])),
           err |-> "ok"]
     ELSE IF g.err # "ok" THEN g
     ELSE [f |-> flushFat(saveDir(g.f, [g.d EXCEPT !.slots =
                   putEntry(@, Entry(n11, FALSE, 0, 0))])),
           err |-> "ok"]

CreateAs(r, n11) == CreateIn(r, n11, find(r.d.slots, n11))

Create(f0, path) == CreateAs(Resolve(Forget(f0, path), path), validate83(Last(path)))

\* The operations on an entry that must be there.
WithEntry(r, i, Op(_, _)) ==
  IF r.err # "ok" THEN r
  ELSE IF i = 0 THEN [r EXCEPT !.err = "noentry"]
  ELSE Op(r, i)

Found(r, name, Op(_, _)) == WithEntry(r, Lookup(r.d.slots, name), Op)

\* The bytes of a chain with new ones laid over them, cluster by cluster.
Scattered(data, chain, off, new) ==
  LET all == Overwrite(Flat([k \in DOMAIN chain |-> BytesIn(data[chain[k]])]), off, new)
      touched(k) == \E n \in off .. off + Len(new) - 1 : n \div CB = k - 1
  IN [c \in Cluster |->
        IF \E k \in DOMAIN chain : chain[k] = c /\ touched(k)
        THEN LET k == CHOOSE k \in DOMAIN chain : chain[k] = c
             IN Bytes(SubSeq(all, (k - 1) * CB + 1, k * CB))
        ELSE data[c]]

\* The chain is cut or extended to the clusters the size wants.
Resized(r, i, old, size, off, new) ==
  LET want == ceilDiv(size, CB)
      more == IF Len(old) < want THEN Claimed(r.f.fat, want - Len(old)) ELSE <<>>
      kept == SubSeq(old, 1, IF Len(old) < want THEN Len(old) ELSE want)
      cut == [c \in Cluster |->
                IF want > 0 /\ Len(old) > want /\ c = old[want] THEN EOC
                ELSE IF c \in Range(SubSeq(old, want + 1, Len(old))) THEN Free
                ELSE r.f.fat[c]]
      f == [r.f EXCEPT !.fat = Linked(cut, kept, more), !.dev.data = Zeroed(@, more)]
      chain == kept \o more
  IN IF Len(chain) < want THEN [f |-> f, err |-> "nospace"]
     ELSE [f |-> flushFat(saveDir(
                   [f EXCEPT !.dev.data = Scattered(@, chain, off, new)],
                   [r.d EXCEPT !.slots[i].clus = IF want = 0 THEN @ ELSE chain[1],
                               !.slots[i].size = size])),
           err |-> "ok"]

WriteFile(f0, path, off, new) ==
  Found(Resolve(Forget(f0, path), path), Last(path), LAMBDA r, i :
    LET e == r.d.slots[i]
    IN IF e.dir THEN [r EXCEPT !.err = "isdir"]
       ELSE Resized(r, i, Chain(r.f.fat, e.clus),
                    IF off + Len(new) > e.size THEN off + Len(new) ELSE e.size, off, new))

Delete(f0, path) ==
  Found(Resolve(Forget(f0, path), path), Last(path), LAMBDA r, i :
    LET e == r.d.slots[i]
        f == IF e.dir THEN Loaded(r.f, Chain(r.f.fat, e.clus)) ELSE r.f
    IN IF e.dir /\ Listed(SubDir(f, e.clus).slots) # {} THEN [f |-> f, err |-> "notempty"]
       ELSE [f |-> flushFat(saveDir([f EXCEPT !.fat = freeChain(@, e.clus)],
                                    [r.d EXCEPT !.slots[i].t = "deleted"])),
             err |-> "ok"])

\* What ReadFile finds the file to be: the cached chain and size, or a walk.
Opened(f0, path) ==
  IF path \in DOMAIN f0.files THEN [f |-> f0, err |-> "ok"]
  ELSE Found(Resolve(f0, path), Last(path), LAMBDA r, i :
         LET e == r.d.slots[i]
         IN IF e.dir THEN [r EXCEPT !.err = "isdir"]
            ELSE [f |-> [r.f EXCEPT !.files = [p \in DOMAIN @ \cup {path} |->
                    IF p = path THEN [chain |-> Chain(r.f.fat, e.clus), size |-> e.size] ELSE @[p]]],
                  err |-> "ok"])

\* The bytes ReadFile copies out; a sector that is cached is not read.
Copied(f, it) ==
  LET sector(c) == IF c \in DOMAIN f.sectors THEN BytesIn(Slots(f.sectors[c]))
                                             ELSE BytesIn(f.dev.data[c])
      all == Flat([k \in DOMAIN it.chain |-> sector(it.chain[k])])
  IN SubSeq(all, 1, IF it.size < Len(all) THEN it.size ELSE Len(all))

ReadFile(f0, path) == LET f == Opened(f0, path).f IN Copied(f, f.files[path])

Mount(dev) == [dev |-> dev, fat |-> dev.fat, root |-> dev.root, sectors |-> <<>>, files |-> <<>>]

Format == [fat |-> [c \in Cluster |-> Free], root |-> Padded(<<>>, RootSlots),
           data |-> [c \in Cluster |-> ZeroCluster]]
=============================================================================
