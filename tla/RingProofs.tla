----------------------------- MODULE RingProofs -----------------------------
(***************************************************************************)
(* Rings that are indexed by counters, for every size: the packet window   *)
(* is a first-in first-out wire although its counters wrap (WindowRing),   *)
(* and a reader of the kernel log gets its bytes in order although pushes  *)
(* lap it (KLog).                                                          *)
(***************************************************************************)
EXTENDS WindowRing, KLog, TLAPS

LEMMA SameSeq ==
    ASSUME NEW S, NEW s \in Seq(S), NEW t \in Seq(S),
           Len(s) = Len(t), \A i \in 1 .. Len(s) : s[i] = t[i]
    PROVE  s = t
  OBVIOUS

LEMMA Concatenated ==
    ASSUME NEW S, NEW s \in Seq(S), NEW t \in Seq(S)
    PROVE  /\ s \o t \in Seq(S) /\ Len(s \o t) = Len(s) + Len(t)
           /\ \A i \in 1 .. Len(s) + Len(t) :
                 (s \o t)[i] = IF i <= Len(s) THEN s[i] ELSE t[i - Len(s)]
  OBVIOUS

\* Arithmetic modulo n, from the two facts the provers have.
LEMMA ModFacts ==
    ASSUME NEW a \in Int, NEW n \in Nat \ {0}
    PROVE  /\ a % n \in 0 .. n - 1
           /\ \E q \in Int : a = n * q + (a % n)
  <1>1. a % n \in 0 .. n - 1
    OBVIOUS
  <1>2. a \div n \in Int /\ a = n * (a \div n) + (a % n)
    OBVIOUS
  <1> QED
    BY <1>1, <1>2, Zenon

LEMMA ModUnique ==
    ASSUME NEW n \in Nat \ {0}, NEW q \in Int, NEW p \in Int,
           NEW r \in 0 .. n - 1, NEW s \in 0 .. n - 1, n * q + r = n * p + s
    PROVE  r = s /\ q = p
  <1>1. n * (q - p) = s - r
    OBVIOUS
  <1>2. CASE q - p >= 1
    <2>1. n * (q - p) >= n
      BY <1>2
    <2> QED
      BY <1>1, <2>1
  <1>3. CASE q - p <= -1
    <2>1. n * (q - p) <= -n
      BY <1>3
    <2> QED
      BY <1>1, <2>1
  <1> QED
    BY <1>1, <1>2, <1>3

LEMMA ModIs ==
    ASSUME NEW n \in Nat \ {0}, NEW q \in Int, NEW r \in 0 .. n - 1
    PROVE  (n * q + r) % n = r
  <1>1. n * q + r \in Int
    OBVIOUS
  <1>2. PICK a \in Int : a = n * q + r
    BY <1>1
  <1>3. PICK p \in Int : a = n * p + (a % n)
    BY ModFacts, Zenon
  <1>4. PICK t \in 0 .. n - 1 : t = a % n
    BY ModFacts
  <1>5. n * q + r = n * p + t
    BY <1>2, <1>3, <1>4
  <1>6. r = t
    BY <1>5, ModUnique
  <1> QED
    BY <1>2, <1>4, <1>6

\* Numbers less than n apart are equal when they are modulo n.
LEMMA ModClose ==
    ASSUME NEW n \in Nat \ {0}, NEW a \in Int, NEW b \in Int, a % n = b % n,
           a - b < n, b - a < n
    PROVE  a = b
  <1>1. PICK q \in Int : a = n * q + (a % n)
    BY ModFacts, Zenon
  <1>2. PICK p \in Int : b = n * p + (b % n)
    BY ModFacts, Zenon
  <1>3. a % n \in Int
    BY ModFacts
  <1>4. a - b = n * (q - p)
    BY <1>1, <1>2, <1>3
  <1>5. CASE q - p >= 1
    <2>1. n * (q - p) >= n
      BY <1>5
    <2> QED
      BY <1>4, <2>1
  <1>6. CASE q - p <= -1
    <2>1. n * (q - p) <= -n
      BY <1>6
    <2> QED
      BY <1>4, <2>1
  <1> QED
    BY <1>1, <1>2, <1>5, <1>6

\* A counter modulo n moves as the number it stands for.
LEMMA ModAdd ==
    ASSUME NEW n \in Nat \ {0}, NEW a \in Int, NEW i \in Int
    PROVE  ((a % n) + i) % n = (a + i) % n
  <1>1. PICK q \in Int : a = n * q + (a % n)
    BY ModFacts, Zenon
  <1>2. PICK r \in Int : r = a % n
    BY ModFacts
  <1>3. PICK b \in Int : b = r + i
    OBVIOUS
  <1>4. PICK p \in Int : b = n * p + (b % n)
    BY ModFacts, Zenon
  <1>5. PICK s \in 0 .. n - 1 : s = b % n
    BY ModFacts
  <1>6. a = n * q + r /\ r + i = n * p + s
    BY <1>1, <1>2, <1>3, <1>4, <1>5
  <1>7. PICK u \in Int : u = q + p
    OBVIOUS
  <1>8. (n * u + s) % n = s
    BY ModIs
  <1>9. a + i = n * u + s
    BY <1>6, <1>7
  <1> QED
    BY <1>2, <1>3, <1>5, <1>8, <1>9

\* The difference of two counters modulo n is that of the numbers.
LEMMA ModDiff ==
    ASSUME NEW n \in Nat \ {0}, NEW a \in Int, NEW b \in Int, a - b \in 0 .. n - 1
    PROVE  ((a % n) - (b % n)) % n = a - b
  <1>1. PICK q \in Int : a = n * q + (a % n)
    BY ModFacts, Zenon
  <1>2. PICK p \in Int : b = n * p + (b % n)
    BY ModFacts, Zenon
  <1>3. PICK r \in Int : r = a % n
    BY ModFacts
  <1>4. PICK s \in Int : s = b % n
    BY ModFacts
  <1>5. a = n * q + r /\ b = n * p + s
    BY <1>1, <1>2, <1>3, <1>4
  <1>6. r - s = n * (p - q) + (a - b)
    BY <1>5
  <1>7. (n * (p - q) + (a - b)) % n = a - b
    BY ModIs
  <1> QED
    BY <1>3, <1>4, <1>6, <1>7

\* A modulus that is divided by another one does not disturb it.
LEMMA ModOfMod ==
    ASSUME NEW n \in Nat \ {0}, NEW m \in Nat \ {0}, m % n = 0, NEW a \in Int
    PROVE  (a % m) % n = a % n
  <1>1. PICK c \in Int : m = n * c
    BY ModFacts
  <1>2. PICK q \in Int : a = m * q + (a % m)
    BY ModFacts, Zenon
  <1>3. PICK r \in Int : r = a % m
    BY ModFacts
  <1>4. PICK p \in Int : r = n * p + (r % n)
    BY ModFacts, Zenon
  <1>5. PICK s \in 0 .. n - 1 : s = r % n
    BY ModFacts
  <1>6. a = (n * c) * q + (n * p + s)
    BY <1>1, <1>2, <1>3, <1>4, <1>5
  <1>7. a = n * (c * q + p) + s /\ c * q + p \in Int
    BY <1>6
  <1>8. a % n = s
    BY <1>7, ModIs
  <1> QED
    BY <1>3, <1>5, <1>8

-----------------------------------------------------------------------------
(* The packet window: WindowRing *)

\* The counter that stands for number k, and the slot of frame k + 1.
Count(k) == (FirstCount + k) % CountMod
At(k) == (FirstCount + k) % WinSlots

LEMMA CountFacts ==
    ASSUME WindowSizes, NEW k \in Nat, NEW j \in Nat
    PROVE  /\ Count(0) = FirstCount
           /\ Slot(Count(k)) = At(k) /\ At(k) \in 0 .. WinSlots - 1
           /\ (Count(k) + j) % CountMod = Count(k + j)
           /\ At(k) = At(j) /\ k - j < WinSlots /\ j - k < WinSlots => k = j
           /\ k - j \in 0 .. CountMod - 1 => (Count(k) - Count(j)) % CountMod = k - j
  <1> DEFINE a == FirstCount + k
             b == FirstCount + j
  <1>1. /\ WinSlots \in Nat \ {0} /\ CountMod \in Nat \ {0} /\ CountMod % WinSlots = 0
        /\ FirstCount \in 0 .. CountMod - 1 /\ FirstCount \in Int
    BY DEF WindowSizes
  <1>2. a \in Int /\ b \in Int /\ a - b = k - j /\ b - a = j - k /\ a + j = FirstCount + (k + j)
    BY <1>1
  <1>3. Count(0) = FirstCount
    <2>1. (CountMod * 0 + FirstCount) % CountMod = FirstCount
      BY <1>1, ModIs
    <2>2. CountMod * 0 + FirstCount = FirstCount + 0
      BY <1>1
    <2> QED
      BY <1>1, <2>1, <2>2 DEF Count
  <1> HIDE DEF a, b
  <1>4. (a % CountMod) % WinSlots = a % WinSlots
    BY <1>1, <1>2, ModOfMod, Zenon
  <1>5. a % WinSlots \in 0 .. WinSlots - 1
    BY <1>1, <1>2, ModFacts
  <1>6. ((a % CountMod) + j) % CountMod = (a + j) % CountMod
    <2>1. \A i \in Int : ((a % CountMod) + i) % CountMod = (a + i) % CountMod
      BY <1>1, <1>2, ModAdd, Zenon
    <2> QED
      BY <2>1
  <1>7. a % WinSlots = b % WinSlots /\ k - j < WinSlots /\ j - k < WinSlots => k = j
    <2>1. a % WinSlots = b % WinSlots /\ a - b < WinSlots /\ b - a < WinSlots => a = b
      BY <1>1, <1>2, ModClose, Zenon
    <2> QED
      BY <1>2, <2>1
  <1>8. k - j \in 0 .. CountMod - 1 => ((a % CountMod) - (b % CountMod)) % CountMod = k - j
    BY <1>1, <1>2, ModDiff, Zenon
  <1> QED
    BY <1>2, <1>3, <1>4, <1>5, <1>6, <1>7, <1>8 DEF Count, At, Slot, a, b

WinInv ==
    LET g == taken["w"]
        s == put["w"]
    IN  /\ WindowSizes
        /\ put \in [{"w"} -> Nat] /\ taken \in [{"w"} -> Nat]
        /\ g <= s /\ s <= g + WinSlots
        /\ head = Count(g) /\ tail = Count(s)
        /\ slots \in [0 .. WinSlots - 1 -> Nat]
        /\ \A k \in g .. s - 1 : slots[At(k)] = k + 1
        /\ producer \in {"idle", "filled"}
        /\ producer = "filled" => s < g + WinSlots /\ slots[At(s)] = s + 1
        /\ consumer # 0 => g < s /\ consumer = g + 1

\* The wire that WinInv describes: the frames sent and not yet received.
LEMMA FramesAre ==
    WinInv =>
        /\ (tail - head) % CountMod = put["w"] - taken["w"]
        /\ Frames = [i \in 1 .. put["w"] - taken["w"] |-> [from |-> "w", n |-> taken["w"] + i]]
  <1> SUFFICES ASSUME WinInv
               PROVE  /\ (tail - head) % CountMod = put["w"] - taken["w"]
                      /\ Frames = [i \in 1 .. put["w"] - taken["w"] |->
                                     [from |-> "w", n |-> taken["w"] + i]]
    OBVIOUS
  <1>1. PICK g \in Nat, s \in Nat :
            /\ g = taken["w"] /\ s = put["w"] /\ g <= s /\ s <= g + WinSlots
            /\ head = Count(g) /\ tail = Count(s)
            /\ \A k \in g .. s - 1 : slots[At(k)] = k + 1
    BY Zenon DEF WinInv
  <1>2. WindowSizes /\ s - g \in 0 .. CountMod - 1
    BY <1>1 DEF WinInv, WindowSizes
  <1>3. (tail - head) % CountMod = s - g
    BY <1>1, <1>2, CountFacts, Zenon
  <1>4. ASSUME NEW i \in 1 .. s - g
        PROVE  slots[Slot((head + i - 1) % CountMod)] = g + i
    <2>1. PICK j \in Nat : j = i - 1
      OBVIOUS
    <2>2. head + i - 1 = Count(g) + j /\ g + j \in g .. s - 1 /\ (g + j) + 1 = g + i
      BY <1>1, <1>2, <2>1 DEF Count, WindowSizes
    <2>3. PICK m \in Nat : m = g + j
      OBVIOUS
    <2>4. (Count(g) + j) % CountMod = Count(g + j)
      BY <1>2, CountFacts
    <2>5. Slot(Count(m)) = At(m)
      BY <1>2, CountFacts
    <2> QED
      BY <1>1, <2>2, <2>3, <2>4, <2>5
  <1>5. Frames = [i \in 1 .. s - g |-> [from |-> "w", n |-> g + i]]
    BY <1>3, <1>4 DEF Frames
  <1> QED
    BY <1>1, <1>3, <1>5

LEMMA WinInitInv == ASSUME WindowSizes, WindowInit PROVE WinInv
  <1>1. Count(0) = FirstCount /\ At(0) \in 0 .. WinSlots - 1
    BY CountFacts
  <1> QED
    BY <1>1 DEF WindowInit, WinInv, WindowSizes

\* A slot is filled while it is free: it is that of no frame on the wire.
LEMMA FillInv == ASSUME WinInv, Fill PROVE WinInv'
  <1>1. PICK g \in Nat, s \in Nat : g = taken["w"] /\ s = put["w"] /\ g <= s
    BY DEF WinInv
  <1>2. s - g < WinSlots
    <2>1. (tail - head) % CountMod = s - g
      BY <1>1, FramesAre
    <2>2. ~(s - g >= WinSlots) /\ WinSlots \in Nat
      BY <2>1 DEF Fill, IsFull, WinInv, WindowSizes
    <2> QED
      BY <2>2
  <1>3. /\ Slot(tail) = At(s) /\ At(s) \in 0 .. WinSlots - 1
        /\ \A k \in g .. s - 1 : At(k) \in 0 .. WinSlots - 1 /\ At(k) # At(s)
    <2>1. WindowSizes /\ tail = Count(s)
      BY <1>1 DEF WinInv
    <2>2. Slot(Count(s)) = At(s) /\ At(s) \in 0 .. WinSlots - 1
      BY <2>1, CountFacts
    <2>3. ASSUME NEW k \in g .. s - 1
          PROVE  At(k) \in 0 .. WinSlots - 1 /\ At(k) # At(s)
      <3>1. k \in Nat /\ k # s /\ k - s < WinSlots /\ s - k < WinSlots
        BY <1>1, <1>2, <2>1 DEF WindowSizes
      <3> QED
        BY <2>1, <3>1, CountFacts, Zenon
    <2> QED
      BY <2>1, <2>2, <2>3
  <1>4. /\ slots' = [slots EXCEPT ![At(s)] = s + 1] /\ producer' = "filled"
        /\ UNCHANGED <<head, tail, consumer, put, taken>>
    BY <1>1, <1>3 DEF Fill
  <1>5. /\ slots' \in [0 .. WinSlots - 1 -> Nat] /\ slots'[At(s)] = s + 1
        /\ \A k \in g .. s - 1 : slots'[At(k)] = k + 1
    BY <1>1, <1>3, <1>4 DEF WinInv
  <1> QED
    BY <1>1, <1>2, <1>4, <1>5, SMTT(60) DEF WinInv, WindowSizes

LEMMA PublishInv == ASSUME WinInv, Publish PROVE WinInv'
  <1>1. PICK g \in Nat, s \in Nat :
            /\ g = taken["w"] /\ s = put["w"] /\ g <= s /\ s < g + WinSlots
            /\ slots[At(s)] = s + 1 /\ \A k \in g .. s - 1 : slots[At(k)] = k + 1
    BY Zenon DEF WinInv, Publish
  <1>2. tail' = Count(s + 1)
    BY <1>1, CountFacts DEF Publish, WinInv
  <1>3. put' \in [{"w"} -> Nat] /\ put'["w"] = s + 1
    BY <1>1 DEF Publish, WinInv
  <1>4. \A k \in g .. (s + 1) - 1 : slots[At(k)] = k + 1
    <2>1. \A k \in g .. (s + 1) - 1 : k = s \/ k \in g .. s - 1
      OBVIOUS
    <2> QED
      BY <1>1, <2>1
  <1>5. producer' = "idle" /\ UNCHANGED <<head, slots, consumer, taken>>
    BY DEF Publish
  <1> QED
    BY <1>1, <1>2, <1>3, <1>4, <1>5, SMTT(60) DEF WinInv, WindowSizes

\* The consumer copies the oldest frame, which no one overwrites.
LEMMA CopyInv == ASSUME WinInv, Copy PROVE WinInv'
  <1>1. PICK g \in Nat, s \in Nat :
            /\ g = taken["w"] /\ s = put["w"] /\ g <= s
            /\ head = Count(g) /\ tail = Count(s)
            /\ \A k \in g .. s - 1 : slots[At(k)] = k + 1
    BY Zenon DEF WinInv
  <1>2. g < s
    BY <1>1 DEF Copy
  <1>3. Slot(head) = At(g)
    BY <1>1, CountFacts DEF WinInv
  <1>4. consumer' = g + 1 /\ UNCHANGED <<head, tail, slots, producer, put, taken>>
    BY <1>1, <1>2, <1>3 DEF Copy
  <1> QED
    BY <1>1, <1>2, <1>4 DEF WinInv

LEMMA ReleaseInv == ASSUME WinInv, Release PROVE WinInv'
  <1>1. PICK g \in Nat, s \in Nat :
            /\ g = taken["w"] /\ s = put["w"] /\ g < s /\ consumer = g + 1
            /\ s <= g + WinSlots
            /\ \A k \in g .. s - 1 : slots[At(k)] = k + 1
    BY Zenon DEF WinInv, Release
  <1>2. head' = Count(g + 1)
    BY <1>1, CountFacts DEF Release, WinInv
  <1>3. taken' \in [{"w"} -> Nat] /\ taken'["w"] = g + 1
    BY <1>1 DEF Release, WinInv
  <1>4. consumer' = 0 /\ UNCHANGED <<tail, slots, producer, put>>
    BY DEF Release
  <1> QED
    BY <1>1, <1>2, <1>3, <1>4, SMTT(60) DEF WinInv, WindowSizes

\* The frames g + 1 to s, in order.
Numbered(g, s) == [i \in 1 .. s - g |-> [from |-> "w", n |-> g + i]]

LEMMA FunIsSeq ==
    ASSUME NEW S, NEW n \in Nat, NEW f \in [1 .. n -> S]
    PROVE  f \in Seq(S) /\ Len(f) = n
  OBVIOUS

LEMMA NumberedIs ==
    ASSUME NEW g \in Nat, NEW s \in Nat, g <= s
    PROVE  /\ Numbered(g, s) \in Seq([from : {"w"}, n : Nat])
           /\ Len(Numbered(g, s)) = s - g
           /\ \A i \in 1 .. s - g : Numbered(g, s)[i] = [from |-> "w", n |-> g + i]
  <1>1. PICK k \in Nat : k = s - g
    OBVIOUS
  <1>2. Numbered(g, s) \in [1 .. k -> [from : {"w"}, n : Nat]]
    BY <1>1 DEF Numbered
  <1>3. \A i \in 1 .. k : Numbered(g, s)[i] = [from |-> "w", n |-> g + i]
    BY <1>1 DEF Numbered
  <1>4. Numbered(g, s) \in Seq([from : {"w"}, n : Nat]) /\ Len(Numbered(g, s)) = k
    BY <1>2, FunIsSeq, Zenon
  <1> QED
    BY <1>1, <1>3, <1>4

LEMMA NumberedGrows ==
    ASSUME NEW g \in Nat, NEW s \in Nat, g <= s
    PROVE  Numbered(g, s + 1) = Append(Numbered(g, s), [from |-> "w", n |-> s + 1])
  <1> DEFINE old == Numbered(g, s)
             new == Numbered(g, s + 1)
             f == [from |-> "w", n |-> s + 1]
  <1>1. /\ old \in Seq([from : {"w"}, n : Nat]) /\ Len(old) = s - g
        /\ \A i \in 1 .. s - g : old[i] = [from |-> "w", n |-> g + i]
    BY NumberedIs
  <1>2. /\ new \in Seq([from : {"w"}, n : Nat]) /\ Len(new) = (s - g) + 1
        /\ \A i \in 1 .. (s - g) + 1 : new[i] = [from |-> "w", n |-> g + i]
    BY NumberedIs
  <1> HIDE DEF old, new
  <1>3. PICK k \in Nat : k = s - g
    OBVIOUS
  <1>4. ASSUME NEW i \in 1 .. k + 1 PROVE new[i] = Append(old, f)[i]
    <2>1. i = k + 1 \/ i \in 1 .. k
      OBVIOUS
    <2>2. CASE i = k + 1
      <3>1. g + i = s + 1
        BY <1>3, <2>2
      <3> QED
        BY <1>1, <1>2, <1>3, <2>2, <3>1, SMTT(60)
    <2>3. CASE i \in 1 .. k
      <3>1. f \in [from : {"w"}, n : Nat]
        OBVIOUS
      <3> HIDE DEF f
      <3>2. i \in 1 .. Len(old)
        BY <1>1, <1>3, <2>3
      <3>3. Append(old, f)[i] = old[i]
        BY <1>1, <3>1, <3>2
      <3>4. old[i] = [from |-> "w", n |-> g + i]
        BY <1>1, <1>3, <2>3
      <3> QED
        BY <1>2, <1>3, <2>3, <3>3, <3>4
    <2> QED
      BY <2>1, <2>2, <2>3, Zenon
  <1>5. f \in [from : {"w"}, n : Nat]
    OBVIOUS
  <1> HIDE DEF f
  <1>6. Append(old, f) \in Seq([from : {"w"}, n : Nat]) /\ Len(Append(old, f)) = k + 1
    BY <1>1, <1>3, <1>5
  <1>7. new = Append(old, f)
    BY <1>2, <1>3, <1>4, <1>6, SameSeq, SMTT(60)
  <1> QED
    BY <1>7 DEF old, new, f

LEMMA NumberedShrinks ==
    ASSUME NEW g \in Nat, NEW s \in Nat, g < s
    PROVE  /\ Numbered(g, s) # <<>> /\ Head(Numbered(g, s)) = [from |-> "w", n |-> g + 1]
           /\ Numbered(g + 1, s) = Tail(Numbered(g, s))
  <1> DEFINE old == Numbered(g, s)
             new == Numbered(g + 1, s)
  <1>1. PICK k \in Nat : k = s - (g + 1)
    OBVIOUS
  <1>2. /\ old \in Seq([from : {"w"}, n : Nat]) /\ Len(old) = k + 1
        /\ \A i \in 1 .. k + 1 : old[i] = [from |-> "w", n |-> g + i]
    BY <1>1, NumberedIs
  <1>3. /\ new \in Seq([from : {"w"}, n : Nat]) /\ Len(new) = k
        /\ \A i \in 1 .. k : new[i] = [from |-> "w", n |-> (g + 1) + i]
    BY <1>1, NumberedIs
  <1> HIDE DEF old, new
  <1>4. old # <<>> /\ Head(old) = [from |-> "w", n |-> g + 1]
    BY <1>2
  <1>5. Tail(old) \in Seq([from : {"w"}, n : Nat]) /\ Len(Tail(old)) = k
    BY <1>2, <1>4
  <1>6. ASSUME NEW i \in 1 .. k PROVE new[i] = Tail(old)[i]
    <2>1. i + 1 \in 1 .. k + 1 /\ g + (i + 1) = (g + 1) + i
      OBVIOUS
    <2>2. Tail(old)[i] = old[i + 1]
      BY <1>2, <1>4, <1>5
    <2> QED
      BY <1>2, <1>3, <2>1, <2>2
  <1>7. new = Tail(old)
    BY <1>3, <1>5, <1>6, SameSeq, SMTT(60)
  <1> QED
    BY <1>4, <1>7 DEF old, new

\* Publish is the send and Release the receive; the other steps are not seen.
LEMMA StepIsWireStep ==
    ASSUME WinInv, WinInv', [WindowNext]_windowVars
    PROVE  [Wire!Next]_(Wire!vars)
  <1>1. PICK g \in Nat, s \in Nat :
            /\ g = taken["w"] /\ s = put["w"] /\ g <= s /\ s <= g + WinSlots
            /\ producer = "filled" => s < g + WinSlots
            /\ consumer # 0 => g < s /\ consumer = g + 1
    BY DEF WinInv
  <1>2. PICK h \in Nat, t \in Nat : h = taken'["w"] /\ t = put'["w"]
    BY DEF WinInv
  <1>3. Frames = Numbered(g, s)
    BY <1>1, FramesAre DEF Numbered
  <1>4. Frames' = Numbered(h, t)
    <2>1. (Frames = [i \in 1 .. put["w"] - taken["w"] |-> [from |-> "w", n |-> taken["w"] + i]])'
      BY FramesAre, PTL
    <2> QED
      BY <1>2, <2>1 DEF Numbered
  <1>5. Len(Frames) = s - g
    BY <1>1, <1>3, NumberedIs, Zenon
  <1>6. CASE UNCHANGED <<put, taken>>
    BY <1>1, <1>2, <1>3, <1>4, <1>6 DEF Wire!vars
  <1>7. CASE Publish
    <2>1. h = g /\ t = s + 1 /\ s < g + WinSlots /\ WinSlots \in Nat
      BY <1>1, <1>2, <1>7 DEF Publish, WinInv, WindowSizes
    <2>2. Numbered(h, t) = Append(Numbered(g, s), [from |-> "w", n |-> s + 1])
      BY <1>1, <2>1, NumberedGrows, Zenon
    <2>3. Len(Frames) < WinSlots
      BY <1>1, <1>5, <2>1
    <2>4. put' = [put EXCEPT !["w"] = @ + 1] /\ taken' = taken
      BY <1>7 DEF Publish
    <2>5. Frames' = Append(Frames, [from |-> "w", n |-> put["w"] + 1])
      BY <1>1, <1>3, <1>4, <2>2, Zenon
    <2>6. Wire!Send("w")
      BY <2>3, <2>4, <2>5, Zenon DEF Wire!Send
    <2> QED
      BY <2>6 DEF Wire!Next
  <1>8. CASE Release
    <2>1. h = g + 1 /\ t = s /\ g < s /\ consumer = g + 1
      BY <1>1, <1>2, <1>8 DEF Release, WinInv
    <2>2. Numbered(g, s) # <<>> /\ Head(Numbered(g, s)) = [from |-> "w", n |-> g + 1]
      BY <2>1, NumberedShrinks
    <2>3. Numbered(h, t) = Tail(Numbered(g, s))
      BY <2>1, NumberedShrinks
    <2>5. Frames # <<>> /\ Head(Frames).from = "w" /\ Head(Frames).n = g + 1
      BY <1>3, <2>2
    <2>6. taken' = [taken EXCEPT !["w"] = g + 1] /\ put' = put
      BY <1>8, <2>1 DEF Release
    <2>7. Frames' = Tail(Frames)
      BY <1>3, <1>4, <2>3, Zenon
    <2>4. Wire!Recv
      BY <2>5, <2>6, <2>7, Zenon DEF Wire!Recv
    <2> QED
      BY <2>4 DEF Wire!Next
  <1> QED
    BY <1>6, <1>7, <1>8 DEF WindowNext, Fill, Copy, windowVars

\* packet.go: the window is a bounded first-in first-out wire wherever its
\* counters wrap and whatever steps of the two sides come between the filling
\* of a slot and the move of the tail, or the copy and the move of the head,
\* for every number of slots that divides the range of the counters.
THEOREM WindowIsWire == WindowSpec => WindowIsFifo
<1> USE WindowAssumption
<1>1. WindowInit => WinInv /\ Wire!Init
  <2> SUFFICES ASSUME WindowInit PROVE WinInv /\ Wire!Init
    OBVIOUS
  <2>1. WinInv
    BY WinInitInv
  <2>2. Frames = <<>>
    BY <2>1, FramesAre DEF WindowInit
  <2> QED
    BY <2>1, <2>2 DEF WindowInit, Wire!Init
<1>2. WinInv /\ [WindowNext]_windowVars => WinInv'
  <2> SUFFICES ASSUME WinInv, [WindowNext]_windowVars PROVE WinInv'
    OBVIOUS
  <2>1. CASE UNCHANGED windowVars
    BY <2>1 DEF windowVars, WinInv
  <2> QED
    BY <2>1, FillInv, PublishInv, CopyInv, ReleaseInv DEF WindowNext
<1>3. WinInv /\ WinInv' /\ [WindowNext]_windowVars => [Wire!Next]_(Wire!vars)
  BY StepIsWireStep
<1> QED
  BY <1>1, <1>2, <1>3, PTL DEF WindowSpec, WindowIsFifo, Wire!Spec

-----------------------------------------------------------------------------
(* The kernel log *)

\* A retained byte is in its place; what the reader has collected is older
\* than the offset it asks for next, and in order.
LogInv ==
    /\ log_total \in Nat
    /\ DOMAIN log_ring = 0 .. LogSize - 1
    /\ \A k \in Nat : k < log_total /\ log_total <= k + LogSize => log_ring[k % LogSize] = k
    /\ reader \in [pc : {"idle", "wait", "done", "failed"}, out : Seq(Int), off : Nat, upto : Nat]
    /\ \A i \in 1 .. Len(reader.out) : reader.out[i] < reader.off /\ reader.out[i] < log_total
    /\ \A i, j \in 1 .. Len(reader.out) :
          i < j /\ reader.out[j] # Stale => reader.out[i] < reader.out[j]

\* log_push: of the bytes it writes the last LogSize are retained, and they
\* leave alone the places of the older bytes that still are.
LEMMA PushKeeps ==
    ASSUME LogSize \in Nat \ {0}, LogInv, NEW n \in Nat, log_push(n)
    PROVE  LogInv'
  <1>1. PICK t \in Nat : t = log_total
    BY DEF LogInv
  <1>2. log_total' = t + n /\ reader' = reader
    BY <1>1 DEF log_push
  <1> DEFINE New(i) == {k \in t .. t + n - 1 : k % LogSize = i}
  <1>3. log_ring' = [i \in 0 .. LogSize - 1 |->
                       IF New(i) = {} THEN log_ring[i]
                       ELSE CHOOSE k \in New(i) : \A j \in New(i) : j <= k]
    BY <1>1 DEF log_push, LogInv
  <1>4. ASSUME NEW k \in Nat, k < t + n, t + n <= k + LogSize
        PROVE  log_ring'[k % LogSize] = k
    <2>0. k \in Int /\ k % LogSize \in 0 .. LogSize - 1
      BY ModFacts
    <2>1. PICK r \in 0 .. LogSize - 1 : r = k % LogSize
      BY <2>0, Zenon
    <2>2. ASSUME NEW j \in New(r) PROVE j \in Int /\ t <= j /\ j <= k
      <3>1. j \in Int /\ t <= j /\ j < t + n /\ j % LogSize = k % LogSize
        BY <1>1, <2>1
      <3>2. CASE j > k
        <4>1. j - k < LogSize /\ k - j < LogSize
          BY <1>1, <1>4, <3>1, <3>2
        <4>2. j = k
          BY <2>0, <3>1, <4>1, ModClose, Zenon
        <4> QED
          BY <3>2, <4>2
      <3> QED
        BY <3>1, <3>2
    <2>3. CASE k >= t
      <3>1. k \in New(r)
        BY <1>1, <1>4, <2>1, <2>3
      <3> DEFINE S == New(r)
                 c == CHOOSE c \in S : \A j \in S : j <= c
      <3>2. k \in S /\ \A j \in S : j \in Int /\ j <= k
        BY <2>2, <3>1, SMTT(60)
      <3>6. log_ring'[r] = c
        BY <1>3, <2>1, <3>1, SMTT(60)
      <3> HIDE DEF S
      <3>4. c \in S /\ \A j \in S : j <= c
        BY <3>2, Zenon
      <3> HIDE DEF c
      <3>5. c = k
        BY <3>2, <3>4
      <3> QED
        BY <2>1, <3>5, <3>6
    <2>4. CASE k < t
      <3>1. New(r) = {}
        <4> SUFFICES ASSUME NEW j \in New(r) PROVE FALSE
          OBVIOUS
        <4>1. j \in Int /\ t <= j /\ j <= k
          BY <2>2, Zenon
        <4> QED
          BY <1>1, <2>4, <4>1
      <3>2. log_ring'[r] = log_ring[r]
        BY <1>3, <2>1, <3>1
      <3>3. t <= k + LogSize
        BY <1>1, <1>4
      <3> QED
        BY <1>1, <2>1, <2>4, <3>2, <3>3, Zenon DEF LogInv
    <2> QED
      BY <1>1, <2>3, <2>4
  <1>5. DOMAIN log_ring' = 0 .. LogSize - 1
    BY <1>3
  <1>6. \A i \in 1 .. Len(reader.out) : reader.out[i] < reader.off /\ reader.out[i] < t + n
    <2>1. reader.out \in Seq(Int)
      BY DEF LogInv
    <2> QED
      BY <1>1, <2>1, SMTT(60) DEF LogInv
  <1> QED
    BY <1>1, <1>2, <1>4, <1>5, <1>6 DEF LogInv

\* log_read: the bytes of the log from begin on, as many as asked for and
\* there are; LogDump puts four bytes of the reply before them.
LEMMA DumpReads ==
    ASSUME LogSize \in Nat \ {0}, Chunk \in Nat, LogInv, NEW off \in Nat
    PROVE  \E b, n \in Nat :
             /\ off <= b /\ (n > 0 => b + n <= log_total)
             /\ log_read(off).begin = b
             /\ Data(log_read(off)) \in Seq(Int)
             /\ Len(Data(log_read(off))) = 4 + n
             /\ \A i \in 1 .. 4 + n :
                   Data(log_read(off))[i] = IF i <= 4 THEN Stale ELSE b + i - 5
  <1> DEFINE r == log_read(off)
             b == r.begin
             n == Least(IF b < log_total THEN log_total - b ELSE 0, Chunk)
             bytes == r.bytes
  <1>1. log_total \in Nat
    BY DEF LogInv
  <1>2. b \in Nat /\ off <= b /\ log_total <= b + LogSize
    BY <1>1 DEF log_read, Retained
  <1>3. bytes = [i \in 1 .. n |-> log_ring[(b + i - 1) % LogSize]]
    BY DEF log_read, Copied, Bytes
  <1> HIDE DEF b, bytes
  <1>4. n \in Nat /\ (n > 0 => b + n <= log_total)
    BY <1>1, <1>2 DEF Least
  <1> HIDE DEF n
  <1>5. \A i \in 1 .. n : bytes[i] = b + i - 1 /\ b + i - 1 \in Int
    <2> SUFFICES ASSUME NEW i \in 1 .. n PROVE bytes[i] = b + i - 1 /\ b + i - 1 \in Int
      OBVIOUS
    <2>1. PICK k \in Nat : k = b + i - 1
      BY <1>2, <1>4
    <2>2. k < log_total /\ log_total <= k + LogSize
      BY <1>1, <1>2, <1>4, <2>1
    <2>3. log_ring[k % LogSize] = k
      BY <2>2, Zenon DEF LogInv
    <2>4. bytes[i] = log_ring[k % LogSize]
      BY <1>3, <2>1
    <2> QED
      BY <2>1, <2>3, <2>4
  <1>6. bytes \in [1 .. n -> Int]
    BY <1>3, <1>5
  <1>7. bytes \in Seq(Int) /\ Len(bytes) = n
    BY <1>4, <1>6, FunIsSeq
  <1> DEFINE pad == [i \in 1 .. BytesPut - BytesTaken |-> Stale]
  <1>8. pad = [i \in 1 .. 4 |-> Stale] /\ Stale \in Int
    BY DEF BytesPut, BytesTaken, Stale
  <1>9. pad \in [1 .. 4 -> Int] /\ \A i \in 1 .. 4 : pad[i] = Stale
    BY <1>8
  <1> HIDE DEF pad
  <1>10. pad \in Seq(Int) /\ Len(pad) = 4
    BY <1>9, FunIsSeq, ZenonT(60)
  <1>11. /\ pad \o bytes \in Seq(Int) /\ Len(pad \o bytes) = 4 + n
         /\ \A i \in 1 .. 4 + n : (pad \o bytes)[i] = IF i <= 4 THEN Stale ELSE b + i - 5
    <2> DEFINE cat == pad \o bytes
    <2>0. /\ cat \in Seq(Int) /\ Len(cat) = Len(pad) + Len(bytes)
          /\ \A i \in 1 .. Len(pad) + Len(bytes) :
                cat[i] = IF i <= Len(pad) THEN pad[i] ELSE bytes[i - Len(pad)]
      BY <1>7, <1>10, Concatenated, Zenon
    <2> HIDE DEF cat
    <2>1. cat \in Seq(Int) /\ Len(cat) = 4 + n
      BY <1>4, <1>7, <1>10, <2>0
    <2>2. ASSUME NEW i \in 1 .. 4 + n
          PROVE  cat[i] = IF i <= 4 THEN Stale ELSE b + i - 5
      <3>1. cat[i] = IF i <= 4 THEN pad[i] ELSE bytes[i - 4]
        BY <1>4, <1>7, <1>10, <2>0
      <3>2. i > 4 => bytes[i - 4] = b + i - 5
        BY <1>2, <1>4, <1>5
      <3> QED
        BY <1>9, <3>1, <3>2
    <2> QED
      BY <2>1, <2>2 DEF cat
  <1>12. Data(r) = pad \o bytes
    BY DEF Data, pad, bytes
  <1> HIDE DEF r
  <1>13. r.begin = b
    BY DEF b
  <1>14. b \in Nat /\ n \in Nat
    BY <1>2, <1>4
  <1> USE <1>14
  <1> WITNESS b \in Nat, n \in Nat
  <1> QED
    BY <1>2, <1>4, <1>11, <1>12, <1>13, SMTT(60) DEF r

\* LogDump: the bytes of a reply are newer than those before it and older
\* than the offset of the next request.
LEMMA DumpKeeps ==
    ASSUME LogSize \in Nat \ {0}, Chunk \in Nat, LogInv, LogDump
    PROVE  LogInv'
  <1> DEFINE d == Data(log_read(reader.off))
             out == reader.out
             cat == out \o d
  <1>1. log_total \in Nat /\ out \in Seq(Int) /\ reader.off \in Nat /\ reader.upto \in Nat
    BY DEF LogInv
  <1>2. PICK b, n \in Nat :
             /\ reader.off <= b /\ (n > 0 => b + n <= log_total)
             /\ log_read(reader.off).begin = b
             /\ d \in Seq(Int)
             /\ Len(d) = 4 + n
             /\ \A i \in 1 .. 4 + n : d[i] = IF i <= 4 THEN Stale ELSE b + i - 5
    BY <1>1, DumpReads, Zenon
  <1>3. PICK m \in Nat : m = Len(out)
    BY <1>1
  <1>5. /\ reader'.out = cat /\ reader'.off = b + Len(d) /\ reader'.upto = reader.upto
        /\ reader' \in [pc : {"idle", "wait", "done", "failed"}, out : {cat}, off : {b + Len(d)}, upto : {reader.upto}]
        /\ log_ring' = log_ring /\ log_total' = log_total
    BY <1>2, Zenon DEF LogDump, LogInv
  <1> HIDE DEF out, d
  <1>4. /\ cat \in Seq(Int)
        /\ Len(cat) = Len(out) + Len(d)
        /\ \A i \in 1 .. Len(out) + Len(d) :
              cat[i] = IF i <= Len(out) THEN out[i] ELSE d[i - Len(out)]
    <2>1. out \in Seq(Int) /\ d \in Seq(Int)
      BY <1>1, <1>2 DEF out
    <2> QED
      BY <2>1, Concatenated, Zenon
  <1> HIDE DEF cat
  <1>6. \A i \in 1 .. m + 4 + n :
          \/ i <= m /\ cat[i] = out[i]
          \/ i > m /\ i <= m + 4 /\ cat[i] = Stale
          \/ i > m + 4 /\ cat[i] = b + (i - m) - 5
    <2> SUFFICES ASSUME NEW i \in 1 .. m + 4 + n, i > m
                 PROVE  \/ i <= m + 4 /\ cat[i] = Stale
                        \/ i > m + 4 /\ cat[i] = b + (i - m) - 5
      BY <1>2, <1>3, <1>4, SMTT(60)
    <2>1. PICK j \in 1 .. 4 + n : j = i - m
      OBVIOUS
    <2>2. cat[i] = d[j]
      <3>1. i \in 1 .. Len(out) + Len(d) /\ ~(i <= Len(out)) /\ i - Len(out) = j
        BY <1>2, <1>3, <2>1
      <3> QED
        BY <1>4, <3>1, Zenon
    <2>3. d[j] = IF j <= 4 THEN Stale ELSE b + j - 5
      BY <1>2
    <2> QED
      BY <2>1, <2>2, <2>3
  <1>7. /\ \A i \in 1 .. m : out[i] \in Int /\ out[i] < reader.off /\ out[i] < log_total
        /\ \A i, j \in 1 .. m : i < j /\ out[j] # Stale => out[i] < out[j]
    <2>1. /\ \A i \in 1 .. Len(reader.out) : reader.out[i] < reader.off /\ reader.out[i] < log_total
          /\ \A i, j \in 1 .. Len(reader.out) :
                i < j /\ reader.out[j] # Stale => reader.out[i] < reader.out[j]
      BY DEF LogInv
    <2>2. \A i \in 1 .. m : out[i] \in Int
      BY <1>1, <1>3 DEF out
    <2> QED
      BY <1>3, <2>1, <2>2 DEF out
  <1>8. ASSUME NEW i \in 1 .. m + 4 + n PROVE cat[i] < b + (4 + n) /\ cat[i] < log_total
    <2>1. PICK t \in Nat, o \in Nat : t = log_total /\ o = reader.off
      BY <1>1, SMTT(60)
    <2>2. o <= b /\ (n > 0 => b + n <= t)
      BY <1>2, <2>1
    <2>3. CASE i <= m
      BY <1>6, <1>7, <2>1, <2>2, <2>3
    <2>4. CASE i > m
      <3>1. cat[i] = -1 \/ (i > m + 4 /\ cat[i] = b + (i - m) - 5)
        BY <1>6, <2>4 DEF Stale
      <3> QED
        BY <2>1, <2>2, <3>1
    <2> QED
      BY <2>3, <2>4
  <1>9. ASSUME NEW i \in 1 .. m + 4 + n, NEW j \in 1 .. m + 4 + n, i < j, cat[j] # Stale
        PROVE  cat[i] < cat[j]
    <2>1. CASE j <= m
      BY <1>6, <1>7, <1>9, <2>1
    <2>2. CASE j > m
      <3>1. j > m + 4 /\ cat[j] = b + (j - m) - 5
        BY <1>6, <1>9, <2>2
      <3>2. \/ i <= m /\ cat[i] = out[i] /\ out[i] \in Int /\ out[i] < reader.off
            \/ cat[i] = -1
            \/ cat[i] = b + (i - m) - 5
        BY <1>6, <1>7 DEF Stale
      <3>3. PICK o \in Nat : o = reader.off /\ o <= b
        BY <1>1, <1>2
      <3> QED
        BY <1>9, <3>1, <3>2, <3>3
    <2> QED
      BY <2>1, <2>2
  <1>10. Len(cat) = m + 4 + n
    BY <1>2, <1>3, <1>4
  <1>11. reader' \in [pc : {"idle", "wait", "done", "failed"}, out : Seq(Int), off : Nat, upto : Nat]
    <2>1. b + Len(d) \in Nat
      BY <1>2
    <2> QED
      BY <1>1, <1>4, <1>5, <2>1
  <1>12. /\ \A i \in 1 .. Len(reader'.out) : reader'.out[i] < reader'.off /\ reader'.out[i] < log_total'
         /\ \A i, j \in 1 .. Len(reader'.out) :
               i < j /\ reader'.out[j] # Stale => reader'.out[i] < reader'.out[j]
    BY <1>2, <1>5, <1>8, <1>9, <1>10
  <1> QED
    BY <1>5, <1>11, <1>12, SMTT(60) DEF LogInv, Stale

\* registry.go, LogAll over core/log.cc: for every size of the ring and of a
\* reply, what a reader has collected of the log is in the order it was logged,
\* with no byte twice, whatever was logged between its requests.
THEOREM LogIsReadInOrder == LogSpec => []DumpInOrder
<1> USE LogSizeAssumption, ChunkAssumption
<1>1. LogInit => LogInv
  <2> SUFFICES ASSUME LogInit PROVE LogInv
    OBVIOUS
  <2>1. reader.out = << >> /\ reader.off = 0 /\ reader.upto = 0 /\ log_total = 0
    BY DEF LogInit, Idle
  <2>2. reader \in [pc : {"idle", "wait", "done", "failed"}, out : Seq(Int), off : Nat, upto : Nat]
    BY DEF LogInit, Idle
  <2>3. DOMAIN log_ring = 0 .. LogSize - 1
    BY DEF LogInit
  <2>4. 1 .. Len(reader.out) = {} /\ \A k \in Nat : ~(k < log_total)
    BY <2>1
  <2> QED
    BY <2>1, <2>2, <2>3, <2>4 DEF LogInv
<1>2. LogInv /\ [LogNext]_logVars => LogInv'
  <2> SUFFICES ASSUME LogInv, [LogNext]_logVars PROVE LogInv'
    OBVIOUS
  <2>1. ASSUME NEW n \in 1 .. MaxPush, log_push(n) PROVE LogInv'
    <3>1. n \in Nat
      OBVIOUS
    <3> QED
      BY <2>1, <3>1, PushKeeps
  <2>2. CASE Start
    <3>1. log_total \in Nat /\ log_ring' = log_ring /\ log_total' = log_total
      BY <2>2 DEF Start, LogInv
    <3>2. reader' = [pc |-> "wait", out |-> << >>, off |-> 0, upto |-> log_total]
      BY <2>2, ZenonT(60) DEF Start, Idle
    <3>3. 1 .. Len(reader'.out) = {}
      BY <3>2
    <3>4. reader' \in [pc : {"idle", "wait", "done", "failed"}, out : Seq(Int), off : Nat, upto : Nat]
      BY <3>1, <3>2
    <3> QED
      BY <3>1, <3>3, <3>4, Zenon DEF LogInv
  <2>3. CASE LogDump
    BY <2>3, DumpKeeps
  <2>4. CASE LogDumpFails
    BY <2>4, SMTT(60) DEF LogDumpFails, LogInv, Stale
  <2>5. CASE UNCHANGED logVars
    BY <2>5 DEF logVars, LogInv, Stale
  <2> QED
    BY <2>1, <2>2, <2>3, <2>4, <2>5 DEF LogNext
<1>3. LogInv => DumpInOrder
  BY SMTT(60) DEF LogInv, DumpInOrder, Logged
<1> QED
  BY <1>1, <1>2, <1>3, PTL DEF LogSpec
=============================================================================
