------------------------------- MODULE JitMem -------------------------------
(***************************************************************************)
(* services/jitc: linear memory and globals, in the interpreter (interp.go,*)
(* interp_alu.go) and in the emitted code (emit64.go).  Each engine has    *)
(* its memory and its global; both are given the same instruction.         *)
(* A byte has B bits, a slot 8*B bits, an i32 the low 4*B of them.         *)
(***************************************************************************)
EXTENDS Integers, Sequences

CONSTANTS
    B,          \* bits of a byte
    MemSize,    \* bytes of memory
    Loads,      \* load instructions tried: size, sign extension, 64-bit result
    Stores,     \* store sizes tried
    Addresses,  \* address slots; some have bits above an i32
    Offsets,    \* static offsets
    Values,     \* value slots stored and filled with
    Overlaps,   \* whether memory.copy is tried with dst inside the source
    MaxInstrs   \* instructions run

VARIABLES mem,      \* for each engine: memory, global and the last result
          instrs

vars == <<mem, instrs>>

Engines == {"interp", "native"}

narrow == 4 * B     \* the bits of an i32

Low32(v) == v % 2^narrow
Byte(v, i) == (v \div 2^(B * i)) % 2^B

\* The i bytes at address a, least significant first.
RECURSIVE LittleEndian(_, _, _)
LittleEndian(m, a, n) == IF n = 0 THEN 0 ELSE m[a + 1] + 2^B * LittleEndian(m, a + 1, n - 1)

SignExtend(v, n) == IF v >= 2^(B * n - 1) THEN v + 2^(8 * B) - 2^(B * n) ELSE v

Write(m, a, n, v) == [i \in 1..MemSize |-> IF i \in (a + 1)..(a + n) THEN Byte(v, i - a - 1) ELSE m[i]]

Result(e, v) == [e EXCEPT !.res = v, !.trap = "none"]
OOB(e) == [e EXCEPT !.trap = "OOB", !.res = 0]

-----------------------------------------------------------------------------
\* The interpreter.

InterpLoad(e, size, sext, wide, ea, off) ==
    LET a == Low32(ea) + off
        v == LittleEndian(e.bytes, a, size)
    IN  IF a + size > MemSize THEN OOB(e)
        ELSE Result(e, IF sext /\ (size < 4 \/ (size = 4 /\ wide)) THEN SignExtend(v, size)
                       ELSE IF wide THEN v ELSE Low32(v))

InterpStore(e, size, ea, off, v) ==
    LET a == Low32(ea) + off IN
    IF a + size > MemSize THEN OOB(e)
    ELSE [Result(e, 0) EXCEPT !.bytes = Write(@, a, size, v)]

\* copy() moves as if through a buffer.
InterpCopy(e, d, s, n) ==
    IF Low32(d) + Low32(n) > MemSize \/ Low32(s) + Low32(n) > MemSize THEN OOB(e)
    ELSE [Result(e, 0) EXCEPT !.bytes = [i \in 1..MemSize |->
            IF i \in (Low32(d) + 1)..(Low32(d) + Low32(n)) THEN e.bytes[i - Low32(d) + Low32(s)] ELSE e.bytes[i]]]

InterpFill(e, d, v, n) ==
    IF Low32(d) + Low32(n) > MemSize THEN OOB(e)
    ELSE [Result(e, 0) EXCEPT !.bytes = [i \in 1..MemSize |->
            IF i \in (Low32(d) + 1)..(Low32(d) + Low32(n)) THEN Byte(v, 0) ELSE e.bytes[i]]]

InterpGlobalSet(e, wide, v) == [Result(e, 0) EXCEPT !.global = v]

-----------------------------------------------------------------------------
\* The machine.  RSI is the memory's size.

\* r8; the access is in bounds when memsize >= size and r8 <= memsize - size.
MemEA(ea, off, size) ==
    LET r8 == Low32(ea) + off IN
    IF MemSize < size THEN MemSize
    ELSE IF r8 > MemSize - size THEN MemSize ELSE r8

\* mov, movsx and movsxd; the case for size 4 and a 64-bit result comes first.
MemLoad(e, size, sext, wide, ea, off) ==
    LET r8 == MemEA(ea, off, size)
        v == LittleEndian(e.bytes, r8, size)
    IN  IF r8 >= MemSize THEN OOB(e)
        ELSE Result(e, CASE size = 4 /\ wide -> v
                         [] size = 4 /\ ~wide -> IF sext THEN SignExtend(v, 4) ELSE v
                         [] size = 8 -> v
                         [] size < 4 /\ sext -> IF wide THEN SignExtend(v, size)
                                                ELSE Low32(SignExtend(v, size))
                         [] size < 4 /\ ~sext -> v)

MemStore(e, size, ea, off, v) ==
    LET r8 == MemEA(ea, off, size) IN
    IF r8 >= MemSize THEN OOB(e)
    ELSE [Result(e, 0) EXCEPT !.bytes = Write(@, r8, size, v)]

\* rep movsb copies upwards, a byte at a time.
RECURSIVE RepMovsb(_, _, _, _)
RepMovsb(m, d, s, n) == IF n = 0 THEN m ELSE RepMovsb([m EXCEPT ![d + 1] = m[s + 1]], d + 1, s + 1, n - 1)

MemoryCopy(e, d, s, n) ==
    IF Low32(s) + Low32(n) > MemSize \/ Low32(d) + Low32(n) > MemSize THEN OOB(e)
    ELSE [Result(e, 0) EXCEPT !.bytes = RepMovsb(@, d, s, Low32(n))]

RECURSIVE RepStosb(_, _, _, _)
RepStosb(m, d, al, n) == IF n = 0 THEN m ELSE RepStosb([m EXCEPT ![d + 1] = al], d + 1, al, n - 1)

MemoryFill(e, d, v, n) ==
    IF Low32(d) + Low32(n) > MemSize THEN OOB(e)
    ELSE [Result(e, 0) EXCEPT !.bytes = RepStosb(@, d, Byte(v, 0), Low32(n))]

\* A 32-bit global keeps the upper half of its slot.
GlobalSet(e, wide, v) ==
    [Result(e, 0) EXCEPT !.global = IF wide THEN v ELSE @ - Low32(@) + Low32(v)]

-----------------------------------------------------------------------------
Init ==
    /\ instrs = 0
    /\ mem = [x \in Engines |-> [bytes |-> [i \in 1..MemSize |-> i % 2^B], global |-> 0,
                                 res |-> 0, trap |-> "none", bits |-> narrow]]

Both(i, n, bits) ==
    mem' = [x \in Engines |-> [(IF x = "interp" THEN i ELSE n) EXCEPT !.bits = bits]]

Load ==
    \E l \in Loads, ea \in Addresses, off \in Offsets :
        Both(InterpLoad(mem["interp"], l[1], l[2], l[3], ea, off),
             MemLoad(mem["native"], l[1], l[2], l[3], ea, off), IF l[3] THEN 2 * narrow ELSE narrow)

Store ==
    \E size \in Stores, ea \in Addresses, off \in Offsets, v \in Values :
        Both(InterpStore(mem["interp"], size, ea, off, v),
             MemStore(mem["native"], size, ea, off, v), narrow)

\* Operands of the bulk instructions are clean 32-bit values.
Copy ==
    \E d, s, n \in 0..(MemSize + 1) :
        /\ Overlaps \/ d <= s \/ d >= s + n
        /\ Both(InterpCopy(mem["interp"], d, s, n), MemoryCopy(mem["native"], d, s, n), narrow)

Fill ==
    \E d, n \in 0..(MemSize + 1), v \in Values :
        Both(InterpFill(mem["interp"], d, v, n), MemoryFill(mem["native"], d, v, n), narrow)

\* memory.grow always answers -1.
MemoryGrow == Both(Result(mem["interp"], 2^(8 * B) - 1), Result(mem["native"], 2^(8 * B) - 1), narrow)

SetGlobal ==
    \E wide \in BOOLEAN, v \in Values :
        Both(InterpGlobalSet(mem["interp"], wide, v), GlobalSet(mem["native"], wide, v), narrow)

\* A 32-bit global is read back by 32-bit instructions.
GetGlobal ==
    Both(Result(mem["interp"], mem["interp"].global), Result(mem["native"], mem["native"].global), narrow)

Next ==
    /\ instrs < MaxInstrs
    /\ \A x \in Engines : mem[x].trap = "none"
    /\ instrs' = instrs + 1
    /\ Load \/ Store \/ Copy \/ Fill \/ MemoryGrow \/ SetGlobal \/ GetGlobal

Spec == Init /\ [][Next]_vars

-----------------------------------------------------------------------------
\* interp.go: "Any divergence between interp and native on the same module+
\* inputs is an emitter bug".  After any run of memory instructions both
\* engines hold the same bytes, and the last one gave the same trap and the same
\* value in the bits its type has: at the last byte of memory, with an offset
\* that leads past it, with dirt above an i32 address.
MemAgrees ==
    LET i == mem["interp"]
        n == mem["native"]
    IN  /\ n.trap = i.trap
        /\ n.bytes = i.bytes
        /\ n.res % 2^n.bits = i.res % 2^i.bits
=============================================================================
