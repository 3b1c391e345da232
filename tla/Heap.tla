-------------------------------- MODULE Heap --------------------------------
(***************************************************************************)
(* The kernel heap (core/rt.cc) over the bump allocator of the page pool   *)
(* (core/mm.cc).                                                           *)
(*                                                                         *)
(* mm_alloc never takes memory back, so what rt_free does not list is lost *)
(* until the next boot.  Small requests are rounded to a class and kept in *)
(* one list per class; large ones are exact and kept in one first-fit      *)
(* list.  Addresses and sizes are bytes; the contents of blocks are left   *)
(* out, and so is the magic number: callers free what they were given.     *)
(***************************************************************************)
EXTENDS Integers, Sequences

CONSTANTS
    Classes,    \* the sizes of the bins (2^4 .. 2^20 in the code)
    LargeMin,   \* RT_LARGE_MIN (2^20 in the code)
    PoolBase,   \* pool_base
    PoolEnd,    \* pool_end
    Requests,   \* bound: the sizes callers ask for
    RawSizes    \* bound: the sizes direct users of mm_alloc ask for

ASSUME HeapAssumption ==
    /\ Classes \subseteq Nat \ {0}
    /\ LargeMin \in Nat
    /\ PoolBase \in Nat \ {0}
    /\ PoolEnd \in Nat /\ PoolBase <= PoolEnd
    /\ Requests \subseteq Nat
    /\ RawSizes \subseteq Nat

VARIABLE heap

heapVars == <<heap>>

\* struct hdr: its size, and the class of a block that is in none.
Hdr == 32
RT_LARGE_CLASS == 0

\* ptr: pool_ptr; block: the headers in the pool by address; given: the request
\* each block in use was handed out for.
Heap(ptr, block, bins, large, given) ==
    [ptr |-> ptr, block |-> block, bins |-> bins, large |-> large,
     given |-> given]

Nothing == [a \in {} |-> 0]

HeapInit ==
    heap = Heap(PoolBase, Nothing, [c \in Classes |-> << >>], << >>, Nothing)

InUse(h) == DOMAIN h.given

Grown(h, ptr, block) == Heap(ptr, block, h.bins, h.large, h.given)
Relisted(h, bins, large) == Heap(h.ptr, h.block, bins, large, h.given)
InHands(h, given) == Heap(h.ptr, h.block, h.bins, h.large, given)

With(f, a, v) == [x \in DOMAIN f \cup {a} |-> IF x = a THEN v ELSE f[x]]
Without(f, a) == [x \in DOMAIN f \ {a} |-> f[x]]

Aligned(n) == ((n + 15) \div 16) * 16

\* An outcome of a request: the heap after it and the address, 0 for none.
Outcome(h, a) == [heap |-> h, at |-> a]
Give(h, a, n) == Outcome(InHands(h, With(h.given, a, n)), a)

\* A new block from mm_alloc, with its header.
Fresh(h, n, size, cls) ==
    LET p == Aligned(h.ptr)
    IN  IF p + size > PoolEnd
        THEN Outcome(h, 0)
        ELSE Give(Grown(h, p + size,
                        With(h.block, p, [size |-> size, cls |-> cls])),
                  p, n)

\* large_fit: the places of the list at which the search ends.
Fits(h, need, i) == h.block[h.large[i]].size >= need
large_fit(h, need) ==
    {i \in 1 .. Len(h.large) : /\ Fits(h, need, i)
                               /\ \A j \in 1 .. i - 1 : ~Fits(h, need, j)}

Unlinked(s, i) == [j \in 1 .. Len(s) - 1 |-> IF j < i THEN s[j] ELSE s[j + 1]]

\* cls_of: the smallest class that holds need, if there is one.
cls_of(need) ==
    {c \in Classes : c >= need /\ \A d \in Classes : d >= need => c <= d}

LargeMalloc(h, n, need) ==
    IF large_fit(h, need) # {}
    THEN {Give(Relisted(h, h.bins, Unlinked(h.large, i)), h.large[i], n)
              : i \in large_fit(h, need)}
    ELSE {Fresh(h, n, need, RT_LARGE_CLASS)}

BinMalloc(h, n, c) ==
    IF h.bins[c] # << >>
    THEN Give(Relisted(h, [h.bins EXCEPT ![c] = Tail(@)], h.large),
              Head(h.bins[c]), n)
    ELSE Fresh(h, n, c, c)

Need(n) == Aligned((IF n = 0 THEN 1 ELSE n) + Hdr)

\* rt_malloc: the set of its outcomes (one; the search is deterministic).
rt_malloc(h, n) ==
    LET need == Need(n)
    IN  IF need >= LargeMin
        THEN LargeMalloc(h, n, need)
        ELSE IF cls_of(need) # {}
             THEN {BinMalloc(h, n, c) : c \in cls_of(need)}
             ELSE {Fresh(h, n, need, RT_LARGE_CLASS)}

IsLarge(b) == b.cls = RT_LARGE_CLASS \/ b.size >= LargeMin

\* Fault: blocks of the large list's sizes are not listed ("oversized: leak").
rt_freeLeak(h, a) ==
    LET g == InHands(h, Without(h.given, a))
    IN  IF IsLarge(h.block[a])
        THEN g
        ELSE Relisted(g, [h.bins EXCEPT ![h.block[a].cls] = <<a>> \o @], h.large)

rt_free(h, a) ==
    LET g == InHands(h, Without(h.given, a))
    IN  IF IsLarge(h.block[a])
        THEN Relisted(g, h.bins, <<a>> \o h.large)
        ELSE Relisted(g, [h.bins EXCEPT ![h.block[a].cls] = <<a>> \o @], h.large)

\* rt_realloc of a block in use: in place when it fits, else a new block and
\* the old one freed; when there is no memory the old one stays.
rt_realloc(h, a, n) ==
    IF n <= h.block[a].size - Hdr
    THEN {Give(h, a, n)}
    ELSE {IF r.at = 0 THEN r ELSE Outcome(rt_free(r.heap, a), r.at)
              : r \in rt_malloc(h, n)}

Malloc(n) == \E r \in rt_malloc(heap, n) : heap' = r.heap
Free(a) == heap' = rt_free(heap, a)
Realloc(a, n) == \E r \in rt_realloc(heap, a, n) : heap' = r.heap

\* mm_alloc of a session's argument strings: any size, no alignment.
RawAlloc(n) ==
    /\ heap.ptr + n <= PoolEnd
    /\ heap' = Grown(heap, heap.ptr + n, heap.block)

HeapNext ==
    \/ \E n \in Requests : Malloc(n)
    \/ \E a \in InUse(heap) : Free(a)
    \/ \E a \in InUse(heap), n \in Requests : Realloc(a, n)
    \/ \E n \in RawSizes : RawAlloc(n)

HeapSpec == HeapInit /\ [][HeapNext]_heapVars

-----------------------------------------------------------------------------
(* Properties *)

Elems(s) == {s[i] : i \in 1 .. Len(s)}
NoRepeats(s) == \A i, j \in 1 .. Len(s) : s[i] = s[j] => i = j

BlockType == [size : Nat \ {0}, cls : Classes \cup {RT_LARGE_CLASS}]

IsHeap(h) ==
    /\ h.ptr \in Nat
    /\ DOMAIN h.block \subseteq Nat \ {0}
    /\ h.block \in [DOMAIN h.block -> BlockType]
    /\ h.bins \in [Classes -> Seq(Nat)]
    /\ h.large \in Seq(Nat)
    /\ h.given \in [InUse(h) -> Nat]

HeapTypeOK == IsHeap(heap)

\* Blocks lie in the part of the pool that was taken, side by side.
Apart(h) ==
    /\ PoolBase <= h.ptr /\ h.ptr <= PoolEnd
    /\ \A a \in DOMAIN h.block :
          PoolBase <= a /\ a + h.block[a].size <= h.ptr
    /\ \A a, b \in DOMAIN h.block :
          a # b => \/ a + h.block[a].size <= b
                   \/ b + h.block[b].size <= a

\* A block of a class has the size of the class.
Shaped(h) ==
    \A a \in DOMAIN h.block :
        h.block[a].cls # RT_LARGE_CLASS => h.block[a].size = h.block[a].cls

\* A caller's bytes are inside its block, behind the header.
Roomy(h) ==
    \A a \in InUse(h) :
        a \in DOMAIN h.block /\ h.given[a] + Hdr <= h.block[a].size

\* The lists hold blocks of their sizes, none in use and none twice.
Listed(h) ==
    /\ NoRepeats(h.large)
    /\ \A a \in Elems(h.large) :
          a \in DOMAIN h.block \ InUse(h) /\ IsLarge(h.block[a])
    /\ \A c \in Classes :
          /\ NoRepeats(h.bins[c])
          /\ \A a \in Elems(h.bins[c]) :
                /\ a \in DOMAIN h.block \ InUse(h)
                /\ h.block[a].cls = c
                /\ ~IsLarge(h.block[a])

\* Every block is in use or can be handed out again.
Kept(h) ==
    \A a \in DOMAIN h.block :
        \/ a \in InUse(h)
        \/ a \in Elems(h.large)
        \/ \E c \in Classes : a \in Elems(h.bins[c])

\* rt.cc, "any block the heap does not recycle is pool memory gone for the
\* life of the boot": callers' blocks never overlap each other or a free
\* block, hold what was asked for, and every block is in use or listed, once.
Sound(h) == Apart(h) /\ Roomy(h) /\ Listed(h) /\ Kept(h)
HeapSound == Sound(heap)

FreeBlocks(h) == DOMAIN h.block \ InUse(h)

\* rt_free, "reusable by the next guest that wants something this big or
\* smaller": no block is made while a free one has its size.
Recycled ==
    [][\A p \in DOMAIN heap'.block \ DOMAIN heap.block :
          \A a \in FreeBlocks(heap) : heap.block[a].size # heap'.block[p].size]_heapVars
=============================================================================
