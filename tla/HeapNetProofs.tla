--------------------------- MODULE HeapNetProofs ---------------------------
(***************************************************************************)
(* The kernel heap keeps its blocks apart and roomy, for every set of      *)
(* classes, every pool and every sequence of requests (Heap), and the net  *)
(* service stops on its own lock only while its tables are cold, for every *)
(* set of hosts (NetStack).                                                *)
(***************************************************************************)
EXTENDS Heap, NetStack, TLAPS

\* The inductive invariant.  HeapSound alone is not inductive: that a block
\* freed into a bin is as large as the bin promises needs Shaped.
Good(h) == IsHeap(h) /\ Shaped(h) /\ Sound(h)
HeapInv == Good(heap)

\* A heap in which block a is in nobody's hands: taken off its list and not
\* yet given to the caller, or taken back and not yet listed.
Unlisted(h, a) ==
    a \notin Elems(h.large) /\ \A c \in Classes : a \notin Elems(h.bins[c])
Between(h, a) ==
    /\ IsHeap(h) /\ Shaped(h) /\ Apart(h) /\ Roomy(h) /\ Listed(h)
    /\ a \in DOMAIN h.block \ InUse(h)
    /\ Unlisted(h, a)
    /\ \A b \in DOMAIN h.block : b = a \/ b \in InUse(h) \/ ~Unlisted(h, b)

-----------------------------------------------------------------------------
(* Sequences *)

LEMMA PushElems ==
    ASSUME NEW S, NEW s \in Seq(S), NEW a \in S
    PROVE  /\ <<a>> \o s \in Seq(S)
           /\ Elems(<<a>> \o s) = Elems(s) \cup {a}
           /\ NoRepeats(s) /\ a \notin Elems(s) => NoRepeats(<<a>> \o s)
<1> DEFINE t == <<a>> \o s
<1>1. /\ t \in Seq(S) /\ Len(t) = Len(s) + 1 /\ Len(s) \in Nat
      /\ t[1] = a /\ \A i \in 1 .. Len(s) : t[i + 1] = s[i]
  OBVIOUS
<1>2. \A i \in 1 .. Len(t) : i = 1 \/ (i - 1 \in 1 .. Len(s) /\ t[i] = s[i - 1])
  BY <1>1
<1> HIDE DEF t
<1>3. Elems(t) = Elems(s) \cup {a}
  <2>1. ASSUME NEW x \in Elems(t) PROVE x \in Elems(s) \cup {a}
    BY <1>1, <1>2, <2>1, SMTT(60) DEF Elems
  <2>2. ASSUME NEW x \in Elems(s) PROVE x \in Elems(t)
    <3>1. PICK i \in 1 .. Len(s) : x = s[i]
      BY <2>2 DEF Elems
    <3>2. i + 1 \in 1 .. Len(t) /\ t[i + 1] = x
      BY <1>1, <3>1
    <3> QED
      BY <3>2 DEF Elems
  <2>3. a \in Elems(t)
    <3>1. 1 \in 1 .. Len(t)
      BY <1>1
    <3> QED
      BY <1>1, <3>1 DEF Elems
  <2> QED
    BY <2>1, <2>2, <2>3
<1>4. ASSUME NoRepeats(s), a \notin Elems(s) PROVE NoRepeats(t)
  <2>1. SUFFICES ASSUME NEW i \in 1 .. Len(t), NEW j \in 1 .. Len(t), t[i] = t[j]
                 PROVE  i = j
    BY DEF NoRepeats
  <2>2. \A k \in 1 .. Len(s) : s[k] # a
    BY <1>4 DEF Elems
  <2>3. CASE i = 1 \/ j = 1
    BY <1>1, <1>2, <2>1, <2>2, <2>3, SMTT(60)
  <2>4. CASE i # 1 /\ j # 1
    <3>1. i - 1 = j - 1
      BY <1>2, <1>4, <2>1, <2>4 DEF NoRepeats
    <3> QED
      BY <3>1
  <2> QED
    BY <2>3, <2>4
<1> QED
  BY <1>1, <1>3, <1>4 DEF t

LEMMA TailElems ==
    ASSUME NEW S, NEW s \in Seq(S), s # << >>, NoRepeats(s)
    PROVE  /\ Tail(s) \in Seq(S)
           /\ Head(s) \in Elems(s)
           /\ Elems(Tail(s)) = Elems(s) \ {Head(s)}
           /\ NoRepeats(Tail(s))
<1> DEFINE t == Tail(s)
<1>1. /\ t \in Seq(S) /\ Len(t) = Len(s) - 1 /\ Len(s) \in Nat \ {0}
      /\ Head(s) = s[1] /\ \A i \in 1 .. Len(t) : t[i] = s[i + 1]
  OBVIOUS
<1>2. \A i \in 1 .. Len(s) : i = 1 \/ (i - 1 \in 1 .. Len(t) /\ t[i - 1] = s[i])
  BY <1>1
<1> HIDE DEF t
<1>3. Elems(t) = Elems(s) \ {Head(s)}
  BY <1>1, <1>2, SMTT(60) DEF Elems, NoRepeats
<1>4. NoRepeats(t)
  BY <1>1 DEF NoRepeats
<1>5. Head(s) \in Elems(s)
  BY <1>1 DEF Elems
<1> QED
  BY <1>1, <1>3, <1>4, <1>5 DEF t

LEMMA UnlinkedElems ==
    ASSUME NEW S, NEW s \in Seq(S), NoRepeats(s), NEW i \in 1 .. Len(s)
    PROVE  /\ Unlinked(s, i) \in Seq(S)
           /\ Elems(Unlinked(s, i)) = Elems(s) \ {s[i]}
           /\ NoRepeats(Unlinked(s, i))
<1> DEFINE t == Unlinked(s, i)
<1>1. /\ Len(s) \in Nat /\ \A j \in 1 .. Len(s) : s[j] \in S
  OBVIOUS
<1>2. /\ t \in Seq(S) /\ Len(t) = Len(s) - 1
      /\ \A j \in 1 .. Len(t) : t[j] = IF j < i THEN s[j] ELSE s[j + 1]
  <2>1. \A j \in 1 .. Len(s) - 1 : (IF j < i THEN s[j] ELSE s[j + 1]) \in S
    BY <1>1
  <2>2. Len(s) - 1 \in Nat
    BY <1>1
  <2> QED
    BY <2>1, <2>2 DEF Unlinked
<1> HIDE DEF t
<1>3. \A j \in 1 .. Len(s) :
          \/ j = i
          \/ j < i /\ j \in 1 .. Len(t) /\ t[j] = s[j]
          \/ j > i /\ j - 1 \in 1 .. Len(t) /\ t[j - 1] = s[j]
  BY <1>1, <1>2
<1>4. Elems(t) = Elems(s) \ {s[i]}
  <2>1. ASSUME NEW x \in Elems(t) PROVE x \in Elems(s) \ {s[i]}
    BY <1>1, <1>2, <2>1 DEF Elems, NoRepeats
  <2>2. ASSUME NEW x \in Elems(s), x # s[i] PROVE x \in Elems(t)
    BY <1>1, <1>3, <2>2 DEF Elems
  <2> QED
    BY <2>1, <2>2
<1>5. NoRepeats(t)
  <2>1. SUFFICES ASSUME NEW j \in 1 .. Len(t), NEW k \in 1 .. Len(t), t[j] = t[k]
                 PROVE  j = k
    BY DEF NoRepeats
  <2> DEFINE At(m) == IF m < i THEN m ELSE m + 1
  <2>2. \A m \in 1 .. Len(t) : At(m) \in 1 .. Len(s) /\ t[m] = s[At(m)]
    BY <1>1, <1>2
  <2>3. At(j) = At(k)
    BY <2>1, <2>2, ZenonT(60) DEF NoRepeats
  <2> QED
    BY <1>1, <1>2, <2>3
<1> QED
  BY <1>2, <1>4, <1>5 DEF t

-----------------------------------------------------------------------------
(* Sizes *)

LEMMA AlignedUp ==
    ASSUME NEW n \in Nat
    PROVE  Aligned(n) \in Nat /\ n <= Aligned(n)
  BY DEF Aligned

LEMMA NeedHolds ==
    ASSUME NEW n \in Nat
    PROVE  Need(n) \in Nat /\ n + Hdr <= Need(n)
<1> DEFINE m == (IF n = 0 THEN 1 ELSE n) + Hdr
<1>1. m \in Nat /\ n + Hdr <= m
  BY DEF Hdr
<1>2. Aligned(m) \in Nat /\ m <= Aligned(m)
  BY <1>1, AlignedUp
<1> HIDE DEF m
<1>3. Need(n) = Aligned(m)
  BY DEF Need, m
<1> QED
  BY <1>1, <1>2, <1>3 DEF Hdr

-----------------------------------------------------------------------------
(* One block changes hands *)

\* A block nobody holds is given to a caller.
LEMMA GiveGood ==
    ASSUME NEW h, NEW a, NEW n \in Nat, Between(h, a),
           n + Hdr <= h.block[a].size
    PROVE  /\ Good(Give(h, a, n).heap)
           /\ InUse(Give(h, a, n).heap) = InUse(h) \cup {a}
<1> DEFINE given == With(h.given, a, n)
           g == InHands(h, given)
<1>1. /\ DOMAIN given = InUse(h) \cup {a}
      /\ given[a] = n
      /\ \A x \in InUse(h) : x # a => given[x] = h.given[x]
      /\ given \in [InUse(h) \cup {a} -> Nat]
  BY DEF With, InUse, Between, IsHeap
<1> HIDE DEF given
<1>2. /\ g.ptr = h.ptr /\ g.block = h.block /\ g.bins = h.bins
      /\ g.large = h.large /\ g.given = given
  BY DEF InHands, Heap
<1>3. Give(h, a, n).heap = g
  BY DEF Give, Outcome, given
<1> HIDE DEF g
<1>4. InUse(g) = InUse(h) \cup {a}
  BY <1>1, <1>2 DEF InUse
<1>5. IsHeap(g)
  BY <1>1, <1>2, <1>4 DEF Between, IsHeap, InUse
<1>6. Shaped(g) /\ Apart(g)
  BY <1>2 DEF Between, Shaped, Apart
<1>7. Roomy(g)
  BY <1>1, <1>2, <1>4 DEF Between, Roomy
<1>8. Listed(g)
  BY <1>2, <1>4 DEF Between, Listed, Unlisted
<1>9. Kept(g)
  BY <1>2, <1>4 DEF Between, Kept, Unlisted
<1> QED
  BY <1>3, <1>4, <1>5, <1>6, <1>7, <1>8, <1>9 DEF Good, Sound

\* A block in use is given again for another size that fits.
LEMMA RegiveGood ==
    ASSUME NEW h, NEW a \in InUse(h), NEW n \in Nat, Good(h),
           n + Hdr <= h.block[a].size
    PROVE  Good(Give(h, a, n).heap)
<1> DEFINE given == With(h.given, a, n)
           g == InHands(h, given)
<1>1. /\ DOMAIN given = InUse(h)
      /\ given[a] = n
      /\ \A x \in InUse(h) : x # a => given[x] = h.given[x]
      /\ given \in [InUse(h) -> Nat]
  BY DEF With, InUse, Good, IsHeap
<1> HIDE DEF given
<1>2. /\ g.ptr = h.ptr /\ g.block = h.block /\ g.bins = h.bins
      /\ g.large = h.large /\ g.given = given
  BY DEF InHands, Heap
<1>3. Give(h, a, n).heap = g
  BY DEF Give, Outcome, given
<1> HIDE DEF g
<1>4. InUse(g) = InUse(h)
  BY <1>1, <1>2 DEF InUse
<1>5. IsHeap(g)
  BY <1>1, <1>2, <1>4 DEF Good, IsHeap, InUse
<1>6. Shaped(g) /\ Apart(g) /\ Listed(g) /\ Kept(g)
  BY <1>2, <1>4 DEF Good, Sound, Shaped, Apart, Listed, Kept
<1>7. Roomy(g)
  BY <1>1, <1>2, <1>4 DEF Good, Sound, Roomy
<1> QED
  BY <1>3, <1>5, <1>6, <1>7 DEF Good, Sound

\* A new block lies behind all others.
LEMMA FreshGood ==
    ASSUME NEW h, Good(h), NEW n \in Nat, NEW size \in Nat,
           NEW cls \in Classes \cup {RT_LARGE_CLASS},
           n + Hdr <= size, cls # RT_LARGE_CLASS => size = cls
    PROVE  /\ Good(Fresh(h, n, size, cls).heap)
           /\ InUse(h) \subseteq InUse(Fresh(h, n, size, cls).heap)
<1> DEFINE p == Aligned(h.ptr)
           b == [size |-> size, cls |-> cls]
           block == With(h.block, p, b)
           g == Grown(h, p + size, block)
<1>1. CASE p + size > PoolEnd
  BY <1>1 DEF Fresh, Outcome
<1>2. CASE ~(p + size > PoolEnd)
  <2>1. Fresh(h, n, size, cls) = Give(g, p, n)
    BY <1>2 DEF Fresh
  <2>2. p \in Nat /\ h.ptr <= p /\ h.ptr \in Nat
    BY AlignedUp, Zenon DEF Good, IsHeap
  <2> HIDE DEF p
  <2>3. size > 0 /\ b \in BlockType /\ b.size = size /\ b.cls = cls
    BY DEF Hdr, BlockType
  <2> HIDE DEF b
  <2>4. /\ DOMAIN block = DOMAIN h.block \cup {p}
        /\ block[p] = b
        /\ \A x \in DOMAIN h.block : x # p => block[x] = h.block[x]
        /\ block \in [DOMAIN h.block \cup {p} -> BlockType]
    BY <2>3 DEF With, Good, IsHeap
  <2> HIDE DEF block
  <2>5. /\ g.ptr = p + size /\ g.block = block /\ g.bins = h.bins
        /\ g.large = h.large /\ g.given = h.given
    BY DEF Grown, Heap
  <2> HIDE DEF g
  <2>6. \A x \in DOMAIN h.block : /\ x \in Nat /\ h.block[x].size \in Nat \ {0}
                                 /\ x + h.block[x].size <= h.ptr
    BY DEF Good, IsHeap, BlockType, Sound, Apart
  <2>7. p \notin DOMAIN h.block
    BY <2>2, <2>6
  <2>8. InUse(g) = InUse(h) /\ InUse(h) \subseteq DOMAIN h.block
    BY <2>5 DEF InUse, Good, Sound, Roomy
  <2>9. PoolBase <= p /\ p # 0
    BY <2>2, HeapAssumption DEF Good, Sound, Apart
  <2>10. IsHeap(g)
    BY <2>2, <2>4, <2>5, <2>8, <2>9 DEF Good, IsHeap, InUse
  <2>11. Shaped(g)
    BY <2>3, <2>4, <2>5, <2>7 DEF Good, Shaped
  <2>12. Apart(g)
    <3>1. PoolBase <= g.ptr /\ g.ptr <= PoolEnd
      BY <1>2, <2>2, <2>5, <2>9, HeapAssumption
    <3>2. ASSUME NEW x \in DOMAIN g.block
          PROVE  PoolBase <= x /\ x + g.block[x].size <= g.ptr
      BY <2>2, <2>3, <2>4, <2>5, <2>6, <2>9 DEF Good, Sound, Apart
    <3>3. ASSUME NEW x \in DOMAIN g.block, NEW y \in DOMAIN g.block, x # y
          PROVE  \/ x + g.block[x].size <= y
                 \/ y + g.block[y].size <= x
      <4>1. CASE x # p /\ y # p
        BY <2>4, <2>5, <3>3, <4>1 DEF Good, Sound, Apart
      <4>2. CASE x = p \/ y = p
        BY <2>2, <2>4, <2>5, <2>6, <3>3, <4>2
      <4> QED
        BY <4>1, <4>2
    <3> QED
      BY <3>1, <3>2, <3>3 DEF Apart
  <2>13. Roomy(g)
    BY <2>4, <2>5, <2>7, <2>8 DEF Good, Sound, Roomy
  <2>14. Listed(g) /\ Unlisted(g, p)
    BY <2>4, <2>5, <2>7, <2>8 DEF Good, Sound, Listed, Unlisted
  <2>15. Between(g, p)
    BY <2>4, <2>5, <2>7, <2>8, <2>10, <2>11, <2>12, <2>13, <2>14
       DEF Between, Good, Sound, Kept, Unlisted
  <2>16. n + Hdr <= g.block[p].size
    BY <2>3, <2>4, <2>5
  <2> QED
    BY <2>1, <2>8, <2>15, <2>16, GiveGood
<1> QED
  BY <1>1, <1>2

\* A free block is taken off the list that holds it.
LEMMA TakeGood ==
    ASSUME NEW h, Good(h), NEW a \in DOMAIN h.block \ InUse(h),
           NEW bins \in [Classes -> Seq(Nat)], NEW large \in Seq(Nat),
           NoRepeats(large), Elems(large) = Elems(h.large) \ {a},
           \A c \in Classes : /\ NoRepeats(bins[c])
                              /\ Elems(bins[c]) = Elems(h.bins[c]) \ {a}
    PROVE  LET g == Relisted(h, bins, large)
           IN  Between(g, a) /\ InUse(g) = InUse(h) /\ g.block = h.block
<1> DEFINE g == Relisted(h, bins, large)
<1>1. /\ g.ptr = h.ptr /\ g.block = h.block /\ g.bins = bins
      /\ g.large = large /\ g.given = h.given
  BY DEF Relisted, Heap
<1> HIDE DEF g
<1>2. InUse(g) = InUse(h)
  BY <1>1 DEF InUse
<1>3. IsHeap(g)
  BY <1>1, <1>2 DEF Good, IsHeap, InUse
<1>4. Shaped(g) /\ Apart(g) /\ Roomy(g)
  BY <1>1, <1>2 DEF Good, Sound, Shaped, Apart, Roomy
<1>5. Listed(g)
  BY <1>1, <1>2 DEF Good, Sound, Listed
<1>6. Unlisted(g, a)
  BY <1>1 DEF Unlisted
<1>7. \A b \in DOMAIN g.block : b = a \/ b \in InUse(g) \/ ~Unlisted(g, b)
  BY <1>1, <1>2 DEF Good, Sound, Kept, Unlisted
<1>8. Between(g, a) /\ InUse(g) = InUse(h) /\ g.block = h.block
  BY <1>1, <1>2, <1>3, <1>4, <1>5, <1>6, <1>7 DEF Between
<1> QED
  BY <1>8 DEF g

LEMMA LargeMallocGood ==
    ASSUME NEW h, Good(h), NEW n \in Nat, NEW need \in Nat, n + Hdr <= need,
           NEW r \in LargeMalloc(h, n, need)
    PROVE  Good(r.heap) /\ InUse(h) \subseteq InUse(r.heap)
<1>1. CASE large_fit(h, need) # {}
  <2>1. PICK i \in large_fit(h, need) :
            r = Give(Relisted(h, h.bins, Unlinked(h.large, i)), h.large[i], n)
    BY <1>1, SMTT(60) DEF LargeMalloc
  <2> DEFINE a == h.large[i]
             large == Unlinked(h.large, i)
             g == Relisted(h, h.bins, large)
  <2>2. /\ i \in 1 .. Len(h.large) /\ h.block[a].size >= need
        /\ h.large \in Seq(Nat) /\ NoRepeats(h.large)
    BY DEF large_fit, Fits, Good, IsHeap, Sound, Listed
  <2>3. /\ large \in Seq(Nat) /\ NoRepeats(large)
        /\ Elems(large) = Elems(h.large) \ {a}
    BY <2>2, UnlinkedElems
  <2>4. a \in Elems(h.large)
    BY <2>2 DEF Elems
  <2>6. r = Give(g, a, n)
    BY <2>1
  <2> HIDE DEF a, large
  <2>7. a \in DOMAIN h.block \ InUse(h) /\ IsLarge(h.block[a])
    BY <2>4 DEF Good, Sound, Listed
  <2>8. \A c \in Classes : /\ NoRepeats(h.bins[c])
                           /\ Elems(h.bins[c]) = Elems(h.bins[c]) \ {a}
    BY <2>7 DEF Good, Sound, Listed
  <2>9. h.bins \in [Classes -> Seq(Nat)]
    BY DEF Good, IsHeap
  <2>10. Between(g, a) /\ InUse(g) = InUse(h) /\ g.block = h.block
    <3>1. a \in DOMAIN h.block \ InUse(h)
      BY <2>7
    <3>2. large \in Seq(Nat)
      BY <2>3
    <3>3. NoRepeats(large) /\ Elems(large) = Elems(h.large) \ {a}
      BY <2>3
    <3> QED
      BY <2>8, <2>9, <3>1, <3>2, <3>3, TakeGood, ZenonT(180)
  <2> HIDE DEF g
  <2>11. n + Hdr <= g.block[a].size
    BY <2>2, <2>7, <2>10 DEF Hdr, Good, IsHeap, BlockType
  <2> QED
    BY <2>6, <2>10, <2>11, GiveGood
<1>2. CASE large_fit(h, need) = {}
  <2>1. r = Fresh(h, n, need, RT_LARGE_CLASS)
    BY <1>2 DEF LargeMalloc
  <2> QED
    BY <2>1, FreshGood
<1> QED
  BY <1>1, <1>2

LEMMA BinMallocGood ==
    ASSUME NEW h, Good(h), NEW n \in Nat, NEW c \in Classes, n + Hdr <= c
    PROVE  LET r == BinMalloc(h, n, c)
           IN  Good(r.heap) /\ InUse(h) \subseteq InUse(r.heap)
<1>1. c \in Nat /\ c # RT_LARGE_CLASS
  BY HeapAssumption DEF RT_LARGE_CLASS
<1>2. CASE h.bins[c] # << >>
  <2> DEFINE a == Head(h.bins[c])
             bins == [h.bins EXCEPT ![c] = Tail(@)]
             g == Relisted(h, bins, h.large)
  <2>1. BinMalloc(h, n, c) = Give(g, a, n)
    BY <1>2 DEF BinMalloc
  <2>2. h.bins \in [Classes -> Seq(Nat)] /\ NoRepeats(h.bins[c])
    BY DEF Good, IsHeap, Sound, Listed
  <2>3. /\ Tail(h.bins[c]) \in Seq(Nat) /\ a \in Elems(h.bins[c])
        /\ Elems(Tail(h.bins[c])) = Elems(h.bins[c]) \ {a}
        /\ NoRepeats(Tail(h.bins[c]))
    BY <1>2, <2>2, TailElems
  <2>5. /\ bins \in [Classes -> Seq(Nat)] /\ bins[c] = Tail(h.bins[c])
        /\ \A d \in Classes : d # c => bins[d] = h.bins[d]
    BY <2>2, <2>3
  <2> HIDE DEF a, bins
  <2>6. /\ a \in DOMAIN h.block \ InUse(h) /\ h.block[a].cls = c
        /\ ~IsLarge(h.block[a])
    BY <2>3 DEF Good, Sound, Listed
  <2>7. /\ NoRepeats(h.large) /\ Elems(h.large) = Elems(h.large) \ {a}
        /\ h.large \in Seq(Nat)
    BY <2>6 DEF Good, Sound, Listed, IsHeap
  <2>8. \A d \in Classes : /\ NoRepeats(bins[d])
                           /\ Elems(bins[d]) = Elems(h.bins[d]) \ {a}
    <3>1. ASSUME NEW d \in Classes, d # c
          PROVE  NoRepeats(h.bins[d]) /\ a \notin Elems(h.bins[d])
      BY <2>6, <3>1 DEF Good, Sound, Listed
    <3> QED
      BY <2>3, <2>5, <3>1
  <2>9. Between(g, a) /\ InUse(g) = InUse(h) /\ g.block = h.block
    <3>1. bins \in [Classes -> Seq(Nat)] /\ h.large \in Seq(Nat)
      BY <2>5, <2>7
    <3>2. a \in DOMAIN h.block \ InUse(h)
      BY <2>6
    <3>3. NoRepeats(h.large) /\ Elems(h.large) = Elems(h.large) \ {a}
      BY <2>7
    <3> QED
      BY <2>8, <3>1, <3>2, <3>3, TakeGood, ZenonT(180)
  <2> HIDE DEF g
  <2>10. n + Hdr <= g.block[a].size
    BY <1>1, <2>6, <2>9 DEF Good, Shaped
  <2> QED
    BY <2>1, <2>9, <2>10, GiveGood
<1>3. CASE h.bins[c] = << >>
  <2>1. BinMalloc(h, n, c) = Fresh(h, n, c, c)
    BY <1>3 DEF BinMalloc
  <2> QED
    BY <1>1, <2>1, FreshGood
<1> QED
  BY <1>2, <1>3

LEMMA MallocGood ==
    ASSUME NEW h, Good(h), NEW n \in Nat, NEW r \in rt_malloc(h, n)
    PROVE  Good(r.heap) /\ InUse(h) \subseteq InUse(r.heap)
<1> DEFINE need == Need(n)
<1>1. need \in Nat /\ n + Hdr <= need
  BY NeedHolds
<1> HIDE DEF need
<1>2. CASE need >= LargeMin
  <2>1. r \in LargeMalloc(h, n, need)
    BY <1>2 DEF rt_malloc, need
  <2> QED
    BY <1>1, <2>1, LargeMallocGood
<1>3. CASE ~(need >= LargeMin) /\ cls_of(need) # {}
  <2>1. PICK c \in cls_of(need) : r = BinMalloc(h, n, c)
    BY <1>3 DEF rt_malloc, need
  <2>2. c \in Classes /\ c \in Nat /\ n + Hdr <= c
    BY <1>1, HeapAssumption DEF cls_of, Hdr
  <2> QED
    BY <2>1, <2>2, BinMallocGood
<1>4. CASE ~(need >= LargeMin) /\ cls_of(need) = {}
  <2>1. r = Fresh(h, n, need, RT_LARGE_CLASS)
    BY <1>4 DEF rt_malloc, need
  <2> QED
    BY <1>1, <2>1, FreshGood
<1> QED
  BY <1>2, <1>3, <1>4

\* A block taken back is put on one list.
LEMMA PutGood ==
    ASSUME NEW h, NEW a, Between(h, a),
           NEW bins \in [Classes -> Seq(Nat)], NEW large \in Seq(Nat),
           NoRepeats(large), \A c \in Classes : NoRepeats(bins[c]),
           Elems(large) =
               Elems(h.large) \cup {x \in {a} : IsLarge(h.block[a])},
           \A c \in Classes :
               Elems(bins[c]) =
                   Elems(h.bins[c]) \cup {x \in {a} : /\ ~IsLarge(h.block[a])
                                                      /\ h.block[a].cls = c}
    PROVE  Good(Relisted(h, bins, large))
<1> DEFINE g == Relisted(h, bins, large)
<1>1. /\ g.ptr = h.ptr /\ g.block = h.block /\ g.bins = bins
      /\ g.large = large /\ g.given = h.given
  BY DEF Relisted, Heap
<1> HIDE DEF g
<1>2. InUse(g) = InUse(h) /\ a \in DOMAIN h.block \ InUse(h)
  BY <1>1 DEF InUse, Between
<1>3. IsHeap(g)
  BY <1>1, <1>2 DEF Between, IsHeap, InUse
<1>4. Shaped(g) /\ Apart(g) /\ Roomy(g)
  BY <1>1, <1>2 DEF Between, Shaped, Apart, Roomy
<1>5. Listed(g)
  BY <1>1, <1>2 DEF Between, Listed
<1>6. Kept(g)
  <2>1. h.block[a].cls \in Classes \/ IsLarge(h.block[a])
    BY <1>2 DEF Between, IsHeap, BlockType, IsLarge
  <2>2. a \in Elems(large) \/ \E c \in Classes : a \in Elems(bins[c])
    BY <2>1
  <2>3. ASSUME NEW b \in DOMAIN h.block, b # a, b \notin InUse(h)
        PROVE  b \in Elems(large) \/ \E c \in Classes : b \in Elems(bins[c])
    BY <2>3 DEF Between, Unlisted
  <2> QED
    BY <1>1, <1>2, <2>2, <2>3 DEF Kept
<1> QED
  BY <1>3, <1>4, <1>5, <1>6 DEF Good, Sound, g

LEMMA FreeGood ==
    ASSUME NEW h, Good(h), NEW a \in InUse(h)
    PROVE  Good(rt_free(h, a))
<1> DEFINE given == Without(h.given, a)
           g == InHands(h, given)
           b == h.block[a]
<1>1. /\ DOMAIN given = InUse(h) \ {a}
      /\ \A x \in InUse(h) : x # a => given[x] = h.given[x]
      /\ given \in [InUse(h) \ {a} -> Nat]
  BY DEF Without, InUse, Good, IsHeap
<1> HIDE DEF given
<1>2. /\ g.ptr = h.ptr /\ g.block = h.block /\ g.bins = h.bins
      /\ g.large = h.large /\ g.given = given
  BY DEF InHands, Heap
<1>3. rt_free(h, a) =
          IF IsLarge(b)
          THEN Relisted(g, h.bins, <<a>> \o h.large)
          ELSE Relisted(g, [h.bins EXCEPT ![b.cls] = <<a>> \o @], h.large)
  BY DEF rt_free, given
<1> HIDE DEF g
<1>4. InUse(g) = InUse(h) \ {a} /\ a \in DOMAIN h.block
  BY <1>1, <1>2 DEF InUse, Good, Sound, Roomy
<1>5. Between(g, a)
  <2>1. IsHeap(g)
    BY <1>1, <1>2, <1>4 DEF Good, IsHeap, InUse
  <2>2. Shaped(g) /\ Apart(g)
    BY <1>2 DEF Good, Sound, Shaped, Apart
  <2>3. Roomy(g)
    BY <1>1, <1>2, <1>4 DEF Good, Sound, Roomy
  <2>4. Listed(g) /\ Unlisted(g, a)
    BY <1>2, <1>4 DEF Good, Sound, Listed, Unlisted
  <2>5. \A x \in DOMAIN g.block : x = a \/ x \in InUse(g) \/ ~Unlisted(g, x)
    BY <1>2, <1>4 DEF Good, Sound, Kept, Unlisted
  <2> QED
    BY <1>2, <1>4, <2>1, <2>2, <2>3, <2>4, <2>5 DEF Between
<1>6. /\ g.bins \in [Classes -> Seq(Nat)] /\ g.large \in Seq(Nat) /\ a \in Nat
      /\ NoRepeats(g.large) /\ \A c \in Classes : NoRepeats(g.bins[c])
      /\ a \notin Elems(g.large) /\ \A c \in Classes : a \notin Elems(g.bins[c])
  BY <1>2, <1>4, <1>5 DEF Between, IsHeap, Listed, Unlisted
<1>7. CASE IsLarge(b)
  <2> DEFINE large == <<a>> \o g.large
  <2>1. /\ large \in Seq(Nat) /\ NoRepeats(large)
        /\ Elems(large) = Elems(g.large) \cup {a}
    BY <1>6, PushElems
  <2>2. rt_free(h, a) = Relisted(g, g.bins, large)
    BY <1>2, <1>3, <1>7
  <2> HIDE DEF large
  <2>3. IsLarge(g.block[a])
    BY <1>2, <1>7
  <2>4. /\ Elems(large) = Elems(g.large) \cup {x \in {a} : IsLarge(g.block[a])}
        /\ \A c \in Classes :
               Elems(g.bins[c]) =
                   Elems(g.bins[c]) \cup {x \in {a} : /\ ~IsLarge(g.block[a])
                                                      /\ g.block[a].cls = c}
    BY <2>1, <2>3
  <2>5. Good(Relisted(g, g.bins, large))
    BY <1>5, <1>6, <2>1, <2>4, PutGood, Zenon
  <2> QED
    BY <2>2, <2>5
<1>8. CASE ~IsLarge(b)
  <2>1. b.cls \in Classes
    BY <1>4, <1>8, SMTT(60) DEF IsLarge, Good, IsHeap, BlockType
  <2> DEFINE list == <<a>> \o g.bins[b.cls]
             bins == [g.bins EXCEPT ![b.cls] = list]
  <2>2. /\ list \in Seq(Nat) /\ NoRepeats(list)
        /\ Elems(list) = Elems(g.bins[b.cls]) \cup {a}
    BY <1>6, <2>1, PushElems, SMTT(60)
  <2>3. rt_free(h, a) = Relisted(g, bins, g.large)
    BY <1>2, <1>3, <1>8
  <2> HIDE DEF list
  <2>4. /\ bins \in [Classes -> Seq(Nat)] /\ bins[b.cls] = list
        /\ \A c \in Classes : c # b.cls => bins[c] = g.bins[c]
    BY <1>6, <2>1, <2>2
  <2> HIDE DEF bins
  <2>5. ~IsLarge(g.block[a]) /\ g.block[a].cls = b.cls
    BY <1>2, <1>8, SMTT(60)
  <2>6. /\ Elems(g.large) = Elems(g.large) \cup {x \in {a} : IsLarge(g.block[a])}
        /\ \A c \in Classes : NoRepeats(bins[c])
        /\ \A c \in Classes :
               Elems(bins[c]) =
                   Elems(g.bins[c]) \cup {x \in {a} : /\ ~IsLarge(g.block[a])
                                                      /\ g.block[a].cls = c}
    BY <1>6, <2>2, <2>4, <2>5, ZenonT(60)
  <2>7. Good(Relisted(g, bins, g.large))
    BY <1>5, <1>6, <2>4, <2>6, PutGood, Zenon
  <2> QED
    BY <2>3, <2>7
<1> QED
  BY <1>7, <1>8

LEMMA ReallocGood ==
    ASSUME NEW h, Good(h), NEW a \in InUse(h), NEW n \in Nat,
           NEW r \in rt_realloc(h, a, n)
    PROVE  Good(r.heap)
<1>1. a \in DOMAIN h.block /\ h.block[a].size \in Nat
  BY DEF Good, Sound, Roomy, IsHeap, BlockType
<1>2. CASE n <= h.block[a].size - Hdr
  <2>1. r = Give(h, a, n)
    BY <1>2 DEF rt_realloc
  <2>2. n + Hdr <= h.block[a].size
    BY <1>1, <1>2 DEF Hdr
  <2> QED
    BY <2>1, <2>2, RegiveGood
<1>3. CASE ~(n <= h.block[a].size - Hdr)
  <2>1. PICK m \in rt_malloc(h, n) :
            r = IF m.at = 0 THEN m ELSE Outcome(rt_free(m.heap, a), m.at)
    BY <1>3 DEF rt_realloc
  <2>2. Good(m.heap) /\ a \in InUse(m.heap)
    BY MallocGood
  <2>3. Good(rt_free(m.heap, a))
    BY <2>2, FreeGood
  <2> QED
    BY <2>1, <2>2, <2>3 DEF Outcome
<1> QED
  BY <1>2, <1>3

LEMMA RawAllocGood ==
    ASSUME NEW n \in Nat, HeapInv, RawAlloc(n)
    PROVE  HeapInv'
<1>1. /\ heap' = Grown(heap, heap.ptr + n, heap.block)
      /\ heap.ptr + n \in Nat /\ heap.ptr <= heap.ptr + n
      /\ heap.ptr + n <= PoolEnd
  BY DEF RawAlloc, HeapInv, Good, IsHeap
<1>2. /\ heap'.ptr = heap.ptr + n /\ heap'.block = heap.block
      /\ heap'.bins = heap.bins /\ heap'.large = heap.large
      /\ heap'.given = heap.given
  BY <1>1 DEF Grown, Heap
<1>3. InUse(heap') = InUse(heap)
  BY <1>2, SMTT(60) DEF InUse
<1>4. IsHeap(heap')
  BY <1>1, <1>2, <1>3, SMTT(60) DEF HeapInv, Good, IsHeap, InUse
<1>5. Apart(heap')
  <2>1. \A a \in DOMAIN heap.block : a \in Nat /\ heap.block[a].size \in Nat
    BY DEF HeapInv, Good, IsHeap, BlockType
  <2>2. heap.ptr \in Nat
    BY SMTT(60) DEF HeapInv, Good, IsHeap
  <2> QED
    BY <1>1, <1>2, <2>1, <2>2, HeapAssumption, SMTT(60) DEF HeapInv, Good, Sound, Apart
<1>6. Shaped(heap') /\ Roomy(heap') /\ Listed(heap') /\ Kept(heap')
  BY <1>2, <1>3 DEF HeapInv, Good, Sound, Shaped, Roomy, Listed, Kept
<1> QED
  BY <1>4, <1>5, <1>6 DEF HeapInv, Good, Sound

-----------------------------------------------------------------------------
LEMMA HeapInitInv == HeapInit => HeapInv
<1> SUFFICES ASSUME HeapInit PROVE HeapInv
  OBVIOUS
<1>1. /\ heap.ptr = PoolBase /\ heap.block = [a \in {} |-> 0]
      /\ heap.bins = [c \in Classes |-> << >>] /\ heap.large = << >>
      /\ heap.given = [a \in {} |-> 0]
  BY DEF HeapInit, Heap, Nothing
<1>2. InUse(heap) = {} /\ DOMAIN heap.block = {}
  BY <1>1 DEF InUse
<1>3. IsHeap(heap)
  <2>1. << >> \in Seq(Nat)
    OBVIOUS
  <2> QED
    BY <1>1, <1>2, <2>1, HeapAssumption DEF IsHeap, InUse
<1>4. Elems(<< >>) = {} /\ NoRepeats(<< >>)
  BY DEF Elems, NoRepeats
<1>5. Listed(heap)
  BY <1>1, <1>4 DEF Listed
<1> QED
  BY <1>1, <1>2, <1>3, <1>5, HeapAssumption
     DEF HeapInv, Good, Sound, Shaped, Apart, Roomy, Kept

LEMMA HeapStep == HeapInv /\ [HeapNext]_heapVars => HeapInv'
<1> SUFFICES ASSUME HeapInv, [HeapNext]_heapVars PROVE HeapInv'
  OBVIOUS
<1>1. CASE \E n \in Requests : Malloc(n)
  <2>1. PICK n \in Requests : \E r \in rt_malloc(heap, n) : heap' = r.heap
    BY <1>1 DEF Malloc
  <2> QED
    BY <2>1, MallocGood, HeapAssumption DEF HeapInv
<1>2. CASE \E a \in InUse(heap) : Free(a)
  BY <1>2, FreeGood DEF HeapInv, Free
<1>3. CASE \E a \in InUse(heap), n \in Requests : Realloc(a, n)
  <2>1. PICK a \in InUse(heap), n \in Requests :
            \E r \in rt_realloc(heap, a, n) : heap' = r.heap
    BY <1>3 DEF Realloc
  <2> QED
    BY <2>1, ReallocGood, HeapAssumption DEF HeapInv
<1>4. CASE \E n \in RawSizes : RawAlloc(n)
  BY <1>4, RawAllocGood, HeapAssumption
<1>5. CASE UNCHANGED heapVars
  BY <1>5 DEF heapVars, HeapInv
<1> QED
  BY <1>1, <1>2, <1>3, <1>4, <1>5 DEF HeapNext

\* The heap never hands out overlapping or too small blocks and never loses
\* one (rt_malloc, rt_free, rt_realloc), whatever the classes and the sizes.
THEOREM HeapSafe == HeapSpec => []HeapSound
<1>1. HeapInv => HeapSound
  BY DEF HeapInv, Good, HeapSound
<1> QED
  BY <1>1, HeapInitInv, HeapStep, PTL DEF HeapSpec

\* The heap keeps its type: what the free lists hold, and what is in use, are
\* addresses, and every block has a size (core/rt.cc hdr).
THEOREM HeapTyped == HeapSpec => []HeapTypeOK
<1>1. HeapInv => HeapTypeOK
  BY DEF HeapInv, Good, HeapTypeOK
<1> QED
  BY <1>1, HeapInitInv, HeapStep, PTL DEF HeapSpec

-----------------------------------------------------------------------------
(* Address resolution: NetStack *)


InFrame == [kind : {"arpReply", "arpRequest", "echoReply", "echoRequest", "tcp"},
            src : Hosts \cup {"far", "none"}, seq : Nat]

StackTypeOK ==
    /\ wire \in Seq(InFrame)
    /\ call \in [op : {"idle", "resolve", "await"}, dst : {"none", "near", "far"}, left : Int]
    /\ Budget \in Int /\ pings \in Nat /\ restarts \in Nat

Teaches(f, h) == f.kind \in {"arpReply", "arpRequest"} /\ f.src = h

\* Frame f makes the stack answer, so it needs the next hop's address.
Asks(f) == f.kind \in {"echoRequest", "tcp"}

\* A peer that knows this host is in the cache or an ARP frame of it is on
\* its way, ahead of everything the peer has sent since.
Warm ==
    /\ \A h \in known : h \in cache \/ \E i \in DOMAIN wire : Teaches(wire[i], h)
    /\ \A i \in DOMAIN wire : Asks(wire[i]) =>
          \/ via(wire[i].src) \in cache
          \/ \E j \in 1 .. i - 1 : Teaches(wire[j], via(wire[i].src))

StackInv ==
    /\ StackTypeOK
    /\ restarts = 0 /\ ~lost => Warm
    /\ StuckOnlyWhenCold

\* A frame that arrives: what it asks comes from a peer that knows this host,
\* and a peer that learns of this host by the frame is taught by it.
LEMMA ArriveWarm ==
    ASSUME StackTypeOK, Warm, NEW f \in InFrame, wire' = Append(wire, f), cache' = cache,
           Asks(f) => via(f.src) \in known,
           \A h \in known' : h \in known \/ Teaches(f, h)
    PROVE  Warm'
  <1> DEFINE n == Len(wire)
  <1>1. /\ n \in Nat /\ DOMAIN wire = 1 .. n /\ DOMAIN wire' = 1 .. n + 1
        /\ \A i \in 1 .. n : wire'[i] = wire[i]
        /\ wire'[n + 1] = f
    BY DEF StackTypeOK
  <1> HIDE DEF n
  <1>2. \A h \in known' : h \in cache' \/ \E i \in DOMAIN wire' : Teaches(wire'[i], h)
    <2> SUFFICES ASSUME NEW h \in known', h \notin cache
                 PROVE  \E i \in 1 .. n + 1 : Teaches(wire'[i], h)
      BY <1>1
    <2>1. CASE Teaches(f, h)
      BY <1>1, <2>1
    <2>2. CASE h \in known
      <3>1. PICK i \in 1 .. n : Teaches(wire[i], h)
        BY <1>1, <2>2 DEF Warm
      <3> QED
        BY <1>1, <3>1
    <2> QED
      BY <2>1, <2>2, Zenon
  <1>3. ASSUME NEW i \in DOMAIN wire', Asks(wire'[i])
        PROVE  \/ via(wire'[i].src) \in cache'
               \/ \E j \in 1 .. i - 1 : Teaches(wire'[j], via(wire'[i].src))
    <2>1. i = n + 1 \/ i \in 1 .. n
      BY <1>1
    <2>2. CASE i = n + 1
      <3>1. via(f.src) \in known /\ wire'[i] = f
        BY <1>1, <1>3, <2>2
      <3>2. CASE via(f.src) \notin cache
        <4>1. PICK j \in 1 .. n : Teaches(wire[j], via(f.src))
          BY <1>1, <3>1, <3>2 DEF Warm
        <4>2. j \in 1 .. i - 1 /\ Teaches(wire'[j], via(wire'[i].src))
          BY <1>1, <2>2, <3>1, <4>1
        <4> QED
          BY <4>2
      <3> QED
        BY <3>1, <3>2
    <2>3. CASE i \in 1 .. n
      <3>1. wire'[i] = wire[i]
        BY <1>1, <2>3
      <3>2. CASE via(wire[i].src) \notin cache
        <4>1. PICK j \in 1 .. i - 1 : Teaches(wire[j], via(wire[i].src))
          BY <1>1, <1>3, <2>3, <3>1, <3>2 DEF Warm
        <4>2. Teaches(wire'[j], via(wire'[i].src))
          BY <1>1, <2>3, <3>1, <4>1
        <4> QED
          BY <4>2
      <3> QED
        BY <3>1, <3>2
    <2> QED
      BY <2>1, <2>2, <2>3
  <1> QED
    BY <1>2, <1>3 DEF Warm

\* pump: the frame handled has taught the cache what it could.
LEMMA HandledWarm ==
    ASSUME StackTypeOK, Warm, wire # <<>>, wire' = Tail(wire),
           cache' = learn(Head(wire)),
           \A h \in known' : h \in known \/ h \in cache'
    PROVE  Warm'
  <1> DEFINE n == Len(wire)
  <1>1. /\ n \in Nat /\ n > 0 /\ DOMAIN wire = 1 .. n /\ DOMAIN wire' = 1 .. n - 1
        /\ \A i \in 1 .. n - 1 : wire'[i] = wire[i + 1]
        /\ Head(wire) = wire[1]
    BY DEF StackTypeOK
  <1> HIDE DEF n
  <1>2. cache \subseteq cache' /\ \A h : Teaches(wire[1], h) => h \in cache'
    BY <1>1 DEF learn, Teaches
  <1>3. ASSUME NEW h, NEW m \in 1 .. n, NEW i \in 1 .. m, Teaches(wire[i], h)
        PROVE  h \in cache' \/ \E j \in 1 .. m - 1 : Teaches(wire'[j], h)
    <2>1. CASE i = 1
      BY <1>2, <1>3, <2>1
    <2>2. CASE i > 1
      <3>1. i - 1 \in 1 .. m - 1 /\ i - 1 \in 1 .. n - 1 /\ (i - 1) + 1 = i
        BY <1>1, <2>2
      <3> QED
        BY <1>1, <1>3, <3>1
    <2> QED
      BY <1>1, <2>1, <2>2
  <1>4. \A h \in known' : h \in cache' \/ \E i \in DOMAIN wire' : Teaches(wire'[i], h)
    <2> SUFFICES ASSUME NEW h \in known', h \notin cache'
                 PROVE  \E i \in DOMAIN wire' : Teaches(wire'[i], h)
      OBVIOUS
    <2>1. PICK i \in 1 .. n : Teaches(wire[i], h)
      BY <1>1, <1>2 DEF Warm
    <2>2. n \in 1 .. n
      BY <1>1
    <2> QED
      BY <1>1, <1>3, <2>1, <2>2, Zenon
  <1>5. ASSUME NEW i \in DOMAIN wire', Asks(wire'[i])
        PROVE  \/ via(wire'[i].src) \in cache'
               \/ \E j \in 1 .. i - 1 : Teaches(wire'[j], via(wire'[i].src))
    <2>1. PICK h : h = via(wire'[i].src)
      OBVIOUS
    <2>2. i \in 1 .. n - 1 /\ i + 1 \in 1 .. n /\ wire'[i] = wire[i + 1] /\ (i + 1) - 1 = i
      BY <1>1
    <2>3. h = via(wire[i + 1].src)
      BY <2>1, <2>2
    <2>4. h \in cache \/ \E j \in 1 .. i : Teaches(wire[j], h)
      BY <1>1, <1>5, <2>2, <2>3 DEF Warm
    <2>5. i \in 1 .. n
      BY <1>1, <2>2
    <2>6. h \in cache' \/ \E j \in 1 .. i - 1 : Teaches(wire'[j], h)
      BY <1>2, <1>3, <2>4, <2>5, Zenon
    <2> QED
      BY <2>1, <2>6
  <1> QED
    BY <1>4, <1>5 DEF Warm

\* One poll of the receive window.
LEMMA PumpInv ==
    ASSUME StackInv, pump, ~stuck, UNCHANGED <<mask, lost, restarts, pings>>,
           call' \in [op : {"idle", "resolve", "await"}, dst : {"none", "near", "far"}, left : Int]
    PROVE  StackInv'
  <1>1. CASE wire = <<>>
    <2>1. UNCHANGED <<wire, cache, known, stuck>>
      BY <1>1 DEF pump
    <2>2. Warm' <=> Warm
      BY <2>1 DEF Warm
    <2>3. StackTypeOK'
      BY <2>1 DEF StackInv, StackTypeOK
    <2> QED
      BY <2>1, <2>2, <2>3 DEF StackInv, StuckOnlyWhenCold
  <1>2. CASE wire # <<>>
    <2>0. PICK f \in InFrame : f = Head(wire)
      BY <1>2 DEF StackInv, StackTypeOK
    <2>1. wire' = Tail(wire) /\ cache' = learn(f) /\ handleFrame(f)
      BY <1>2, <2>0 DEF pump, handleFrame
    <2>2. StackTypeOK'
      BY <1>2, <2>1 DEF StackInv, StackTypeOK
    <2>3. \A h \in known' : h \in known \/ h \in cache'
      BY <2>1 DEF handleFrame, learn
    <2>4. restarts' = 0 /\ ~lost' => Warm'
      BY <1>2, <2>0, <2>1, <2>3, HandledWarm DEF StackInv
    <2>5. ASSUME stuck', restarts = 0, mask, ~lost
          PROVE  FALSE
      <3>1. Asks(f) /\ nextHop(f.src) \notin cache
        BY <2>1, <2>5, Zenon DEF handleFrame, respond, Asks
      <3>2. nextHop(f.src) = via(f.src)
        BY <2>5 DEF nextHop, onLink, via
      <3>3. 1 \in DOMAIN wire /\ f = wire[1] /\ 1 .. 1 - 1 = {}
        BY <1>2, <2>0 DEF StackInv, StackTypeOK
      <3>4. Warm
        BY <2>5 DEF StackInv
      <3>5. via(f.src) \in cache
        BY <3>1, <3>3, <3>4 DEF Warm
      <3> QED
        BY <3>1, <3>2, <3>5
    <2>6. StuckOnlyWhenCold'
      BY <2>5 DEF StackInv, StackTypeOK, StuckOnlyWhenCold
    <2> QED
      BY <2>2, <2>4, <2>6 DEF StackInv
  <1> QED
    BY <1>1, <1>2

\* A frame arrives, or none does.
LEMMA ArriveInv ==
    ASSUME StackInv, UNCHANGED <<mask, cache, lost, stuck, restarts>>,
           \/ wire' = wire /\ known' = known
           \/ \E f \in InFrame : /\ wire' = Append(wire, f)
                                 /\ Asks(f) => via(f.src) \in known
                                 /\ \A h \in known' : h \in known \/ Teaches(f, h),
           pings' \in Nat,
           call' \in [op : {"idle", "resolve", "await"}, dst : {"none", "near", "far"}, left : Int]
    PROVE  StackInv'
  <1>1. StackTypeOK'
    BY SMTT(60) DEF StackInv, StackTypeOK
  <1>2. restarts = 0 /\ ~lost => Warm'
    <2>1. CASE wire' = wire /\ known' = known
      BY <2>1 DEF StackInv, Warm
    <2>2. CASE \E f \in InFrame : /\ wire' = Append(wire, f)
                                  /\ Asks(f) => via(f.src) \in known
                                  /\ \A h \in known' : h \in known \/ Teaches(f, h)
      BY <2>2, ArriveWarm DEF StackInv
    <2> QED
      BY <2>1, <2>2
  <1> QED
    BY <1>1, <1>2 DEF StackInv, StuckOnlyWhenCold

LEMMA SendEchoInv ==
    ASSUME StackInv, UNCHANGED <<mask, cache, lost, stuck, restarts, known>>,
           NEW dst \in {"none", "near", "far"}, NEW seq \in Nat, SendEcho(dst, seq),
           pings' \in Nat
    PROVE  StackInv'
  <1>1. call' \in [op : {"idle", "resolve", "await"}, dst : {"none", "near", "far"}, left : Int]
    BY DEF SendEcho, StackInv, StackTypeOK
  <1>2. PICK f \in InFrame : f = Frame("echoReply", dst, seq)
    BY Zenon DEF InFrame, Frame, Hosts
  <1>3. ~Asks(f)
    BY <1>2 DEF Asks, Frame
  <1>4. wire' = wire \/ wire' = Append(wire, f)
    BY <1>2 DEF SendEcho
  <1> QED
    BY <1>1, <1>3, <1>4, ArriveInv

LEMMA PingInv ==
    ASSUME StackInv, NEW dst \in {"near", "far"}, Ping(dst)
    PROVE  StackInv'
  <1>1. pings' = pings + 1 /\ pings' \in Nat /\ UNCHANGED <<mask, cache, stuck, restarts>>
    BY DEF Ping, StackInv, StackTypeOK
  <1>2. CASE SendEcho(dst, pings') /\ UNCHANGED <<known, lost>>
    BY <1>1, <1>2, SendEchoInv
  <1>3. CASE call' = [op |-> "resolve", dst |-> dst, left |-> Budget]
    <2>1. call' \in [op : {"idle", "resolve", "await"}, dst : {"none", "near", "far"}, left : Int]
      BY <1>3 DEF StackInv, StackTypeOK
    <2>2. CASE UNCHANGED <<known, wire, lost>>
      BY <1>1, <2>1, <2>2, ArriveInv
    <2>3. CASE /\ nextHop(dst) \in Hosts
               /\ known' = known \cup {nextHop(dst)}
               /\ wire' = Append(wire, Frame("arpReply", nextHop(dst), 0))
               /\ UNCHANGED lost
      <3>1. PICK f \in InFrame : f = Frame("arpReply", nextHop(dst), 0)
        BY <2>3 DEF InFrame, Frame
      <3>2. ~Asks(f) /\ Teaches(f, nextHop(dst))
        BY <3>1 DEF Asks, Teaches, Frame
      <3> QED
        BY <1>1, <2>1, <2>3, <3>1, <3>2, ArriveInv
    <2>4. CASE lost' = TRUE /\ UNCHANGED wire
      BY <1>1, <2>1, <2>4 DEF StackInv, StackTypeOK, StuckOnlyWhenCold
    <2> QED
      BY <1>3, <2>2, <2>3, <2>4, Zenon DEF Ping, SendEcho
  <1> QED
    BY <1>2, <1>3 DEF Ping

LEMMA PollInv == ASSUME StackInv, PollResolve \/ PollReply PROVE StackInv'
  <1> DEFINE Calls == [op : {"idle", "resolve", "await"}, dst : {"none", "near", "far"}, left : Int]
  <1>1. pings \in Nat /\ pings' = pings /\ call \in Calls /\ ~stuck
        /\ UNCHANGED <<mask, lost, restarts>>
    BY DEF PollResolve, PollReply, StackInv, StackTypeOK
  <1>2. NoCall \in Calls
    BY DEF NoCall
  <1>3. [call EXCEPT !.left = @ - 1] \in Calls /\ call.dst \in {"none", "near", "far"}
    BY <1>1
  <1> HIDE DEF Calls
  <1>4. CASE SendEcho(call.dst, pings) /\ UNCHANGED <<cache, known, stuck>>
    BY <1>1, <1>3, <1>4, SendEchoInv
  <1>5. CASE call' = NoCall /\ UNCHANGED <<wire, cache, known, stuck>>
    BY <1>1, <1>2, <1>5, ArriveInv DEF Calls
  <1>6. CASE call' = [call EXCEPT !.left = @ - 1] /\ pump
    BY <1>1, <1>3, <1>6, PumpInv DEF Calls
  <1> QED
    BY <1>4, <1>5, <1>6 DEF PollResolve, PollReply

LEMMA PeerInv ==
    ASSUME StackInv,
           \/ \E h \in Hosts : PeerAsks(h)
           \/ \E src \in {"near", "far"}, kind \in {"echoRequest", "tcp"} :
                 PeerSends(src, kind)
    PROVE  StackInv'
  <1>1. /\ UNCHANGED <<mask, cache, call, pings, known, lost, stuck, restarts>>
        /\ \E f \in InFrame : /\ wire' = Append(wire, f)
                              /\ Asks(f) => via(f.src) \in known
    <2>1. ASSUME NEW h \in Hosts, PeerAsks(h)
          PROVE  <1>1!:
      <3>1. Frame("arpRequest", h, 0) \in InFrame /\ ~Asks(Frame("arpRequest", h, 0))
        BY DEF InFrame, Frame, Asks
      <3> QED
        BY <2>1, <3>1 DEF PeerAsks
    <2>2. ASSUME NEW src \in {"near", "far"}, NEW kind \in {"echoRequest", "tcp"},
                 PeerSends(src, kind)
          PROVE  <1>1!:
      <3>1. Frame(kind, src, 0) \in InFrame /\ Frame(kind, src, 0).src = src
        BY DEF InFrame, Frame, Hosts
      <3> QED
        BY <2>2, <3>1 DEF PeerSends
    <2> QED
      BY <2>1, <2>2
  <1> QED
    BY <1>1, ArriveInv DEF StackInv, StackTypeOK

\* The service stops itself only while its tables are colder than its peers':
\* after a restart, without a netmask, or when the reply to its own ARP
\* request was lost (netstack.go: a handler's Resolve pumps under the lock
\* pump holds).  Budget is the number of polls of Resolve and Ping.
THEOREM WarmStackServes == StackSpec => []StuckOnlyWhenCold
<1> USE BudgetAssumption
<1>1. StackInit => StackInv
  <2> SUFFICES ASSUME StackInit PROVE StackInv
    OBVIOUS
  <2>1. StackTypeOK
    BY DEF StackInit, StackTypeOK, NoCall
  <2>2. Warm
    BY DEF StackInit, Warm
  <2> QED
    BY <2>1, <2>2 DEF StackInit, StackInv, StuckOnlyWhenCold
<1>2. StackInv /\ [StackNext]_stackVars => StackInv'
  <2> SUFFICES ASSUME StackInv, [StackNext]_stackVars PROVE StackInv'
    OBVIOUS
  <2>1. CASE Serve
    BY <2>1, PumpInv DEF Serve, StackInv, StackTypeOK
  <2>2. CASE AdoptLease
    BY <2>2 DEF AdoptLease, StackInv, StackTypeOK, Warm, StuckOnlyWhenCold
  <2>3. CASE RestartNet
    <3>1. StackTypeOK' /\ restarts' > 0
      BY <2>3 DEF RestartNet, StackInv, StackTypeOK, NoCall
    <3> QED
      BY <3>1 DEF StackInv, StackTypeOK, StuckOnlyWhenCold
  <2>4. CASE UNCHANGED stackVars
    BY <2>4 DEF stackVars, StackInv, StackTypeOK, Warm, StuckOnlyWhenCold
  <2> QED
    BY <2>1, <2>2, <2>3, <2>4, PollInv, PingInv, PeerInv DEF StackNext
<1>3. StackInv => StuckOnlyWhenCold
  BY SMTT(60) DEF StackInv
<1> QED
  BY <1>1, <1>2, <1>3, PTL DEF StackSpec
=============================================================================
