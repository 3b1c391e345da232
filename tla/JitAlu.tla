------------------------------- MODULE JitAlu -------------------------------
(***************************************************************************)
(* The integer instructions of the wasm compiler (services/jitc), twice:   *)
(* what the interpreter (interp_alu.go) computes, and what the machine     *)
(* code emitted for them (compile.go, emit.go, emit64.go) computes on an   *)
(* x86-64.  The interpreter is the oracle the compiler is tested against.  *)
(*                                                                         *)
(* A stack slot holds 2*W bits; the code's 32-bit operations work on W     *)
(* bits and its 64-bit operations on 2*W, so that "extend8" takes W/4 bits *)
(* and "extend16" W/2.  The operand stack is a sequence, top last.         *)
(***************************************************************************)
EXTENDS Integers, Sequences, Bitwise

CONSTANTS
    W,          \* the width the code calls 32 (a multiple of 8)
    Slots,      \* the slot values tried as operands
    Pin         \* what RDX holds: the address of the trap slot

VARIABLE alu    \* the instruction and the operand stack it is run on

vars == alu

Unary    == {"eqz", "clz", "ctz", "popcnt"}
Compares == {"eq", "ne", "lt_s", "lt_u", "gt_s", "gt_u", "le_s", "le_u", "ge_s", "ge_u"}
Divides  == {"div_s", "div_u", "rem_s", "rem_u"}
Logic    == {"and", "or", "xor"}
Shifts   == {"shl", "shr_s", "shr_u", "rotl", "rotr"}
Binary   == Compares \cup Divides \cup Logic \cup Shifts \cup {"add", "sub", "mul"}
Extends  == {"wrap", "extend8", "extend16", "extend32"}

Ops == (Unary \cup Binary) \X {W, 2 * W}
         \cup {<<"wrap", W>>, <<"extend8", W>>, <<"extend16", W>>}
         \cup {"extend8", "extend16", "extend32"} \X {2 * W}

-----------------------------------------------------------------------------
Low(v, n) == v % 2^n

Signed(v, n) == IF v >= 2^(n - 1) THEN v - 2^n ELSE v

Bool(b) == IF b THEN 1 ELSE 0

Abs(i) == IF i < 0 THEN -i ELSE i

\* Go's and the machine's division both truncate towards zero.
Quot(x, y) == IF (x < 0) = (y < 0) THEN Abs(x) \div Abs(y) ELSE -(Abs(x) \div Abs(y))

Rem(x, y) == x - y * Quot(x, y)

ShiftLeft(x, k, n) == Low(x, n - k) * 2^k

RotateLeft(x, k, n) == ShiftLeft(x, k, n) + x \div 2^(n - k)

Popped(s, k) == SubSeq(s, 1, Len(s) - k)

Push(s, v) == [stack |-> Append(s, v), trap |-> "none"]

Trapped(code) == [stack |-> << >>, trap |-> code]

-----------------------------------------------------------------------------
\* The interpreter.  x and y are the operands cut to n bits.

Relation(op, x, y, n) ==
    LET i == Signed(x, n)
        j == Signed(y, n)
    IN  CASE op = "eq"   -> x = y   [] op = "ne"   -> x # y
          [] op = "lt_s" -> i < j   [] op = "lt_u" -> x < y
          [] op = "gt_s" -> i > j   [] op = "gt_u" -> x > y
          [] op = "le_s" -> i <= j  [] op = "le_u" -> x <= y
          [] op = "ge_s" -> i >= j  [] op = "ge_u" -> x >= y

BitsSet(x, n) == {k \in 0..n - 1 : (x \div 2^k) % 2 = 1}

Count(S) == LET f[k \in 0..2 * W] == IF k = 0 THEN 0 ELSE f[k - 1] + Bool(k - 1 \in S) IN f[2 * W]

InterpUnary(op, x, n) ==
    LET ones == BitsSet(x, n)
        Max(S) == CHOOSE k \in S : \A j \in S : j <= k
        Min(S) == CHOOSE k \in S : \A j \in S : k <= j
    IN  CASE op = "eqz"    -> Bool(x = 0)
          [] op = "clz"    -> IF ones = {} THEN n ELSE n - 1 - Max(ones)
          [] op = "ctz"    -> IF ones = {} THEN n ELSE Min(ones)
          [] op = "popcnt" -> Count(ones)

InterpBinary(op, x, y, n) ==
    LET c   == y % n
        low == -(2^(n - 1))
        wraps == Signed(x, n) = low /\ Signed(y, n) = -1
    IN  CASE op = "add"   -> Low(x + y, n)
          [] op = "sub"   -> Low(x - y, n)
          [] op = "mul"   -> Low(x * Signed(y, n), n)
          [] op = "div_s" -> IF wraps THEN x ELSE Low(Quot(Signed(x, n), Signed(y, n)), n)
          [] op = "rem_s" -> IF wraps THEN 0 ELSE Low(Rem(Signed(x, n), Signed(y, n)), n)
          [] op = "div_u" -> x \div y
          [] op = "rem_u" -> x % y
          [] op = "and"   -> x & y
          [] op = "or"    -> x | y
          [] op = "xor"   -> x ^^ y
          [] op = "shl"   -> ShiftLeft(x, c, n)
          \* 32 bits: sign-extended to the slot, shifted logically, masked
          [] op = "shr_s" -> IF n = W THEN Low(Low(Signed(x, W), 2 * W) \div 2^c, W)
                             ELSE Low(Signed(x, n) \div 2^c, n)
          [] op = "shr_u" -> x \div 2^c
          [] op = "rotl"  -> RotateLeft(x, c, n)
          [] op = "rotr"  -> RotateLeft(x, (n - c) % n, n)

InterpExtend(op, a, n) ==
    CASE op = "wrap"     -> Low(a, W)
      [] op = "extend8"  -> Low(Signed(Low(a, W \div 4), W \div 4), n)
      [] op = "extend16" -> Low(Signed(Low(a, W \div 2), W \div 2), n)
      [] op = "extend32" -> Low(Signed(Low(a, W), W), n)

AluInt(op, n, s) ==
    LET top == s[Len(s)]
        x   == Low(s[Len(s) - 1], n)
        y   == Low(top, n)
    IN  CASE op \in Unary    -> Push(Popped(s, 1), InterpUnary(op, y, n))
          [] op \in Compares -> Push(Popped(s, 2), Bool(Relation(op, x, y, n)))
          [] op \in Extends  -> Push(Popped(s, 1), InterpExtend(op, top, n))
          [] op \in Divides /\ y = 0 -> Trapped("DivZero")
          [] OTHER -> Push(Popped(s, 2), InterpBinary(op, x, y, n))

-----------------------------------------------------------------------------
\* The machine.  A W-bit instruction clears the upper half of the slot.

\* The flags cmp leaves, and the conditions setcc reads from them.
Flags(x, y, n) ==
    LET d == Signed(x, n) - Signed(y, n) IN
    [zf |-> x = y, cf |-> x < y, sf |-> Low(x - y, n) >= 2^(n - 1),
     of |-> d < -(2^(n - 1)) \/ d >= 2^(n - 1)]

Condition(op, f) ==
    CASE op = "eq"   -> f.zf             [] op = "ne"   -> ~f.zf
      [] op = "lt_s" -> f.sf # f.of      [] op = "lt_u" -> f.cf
      [] op = "gt_s" -> ~f.zf /\ f.sf = f.of
      [] op = "gt_u" -> ~f.cf /\ ~f.zf
      [] op = "le_s" -> f.zf \/ f.sf # f.of
      [] op = "le_u" -> f.cf \/ f.zf
      [] op = "ge_s" -> f.sf = f.of      [] op = "ge_u" -> ~f.cf

\* bsr and bsf: the index of the highest and of the lowest bit set.
Bsr(x, n) == CHOOSE k \in BitsSet(x, n) : \A j \in BitsSet(x, n) : j <= k
Bsf(x, n) == CHOOSE k \in BitsSet(x, n) : \A j \in BitsSet(x, n) : k <= j

Clz(x, n) == IF x = 0 THEN n ELSE Bsr(x, n) ^^ (n - 1)

\* A mask of n bits that repeats the pattern p every k bits.
Repeat(p, k, n) == LET f[i \in 0..n \div k] == IF i = 0 THEN 0 ELSE f[i - 1] * 2^k + p IN f[n \div k]

Popcnt(x, n) ==
    LET a == x - ((x \div 2) & Repeat(1, 2, n))
        b == (a & Repeat(3, 4, n)) + ((a \div 4) & Repeat(3, 4, n))
        c == (b + b \div 16) & Repeat(15, 8, n)
    IN  Low(c * Repeat(1, 8, n), n) \div 2^(n - 8)

\* idiv and div cannot hold the quotient of the least integer by -1: they fault.
Divide(op, x, y, n) ==
    CASE op = "div_s" -> Low(Quot(Signed(x, n), Signed(y, n)), n)
      [] op = "rem_s" -> Low(Rem(Signed(x, n), Signed(y, n)), n)
      [] op = "div_u" -> x \div y
      [] op = "rem_u" -> x % y

\* RDX is pushed around the division, which overwrites it; the least integer
\* divided by -1 is answered without dividing, by a jump past the pop.
DivRem(op, s, x, y, n) ==
    LET least  == x = 2^(n - 1) /\ y = 2^n - 1
        saved  == Append(s, Pin)
    IN  IF y = 0 THEN Trapped("DivZero")
        ELSE IF op \in {"div_s", "rem_s"} /\ least
             THEN Push(saved, IF op = "rem_s" THEN 0 ELSE x)
             ELSE Push(Popped(saved, 1), Divide(op, x, y, n))

\* The hardware masks the count in CL to the width of the operand.
Shift(op, x, cl, n) ==
    LET c == cl % n IN
    CASE op = "shl"   -> ShiftLeft(x, c, n)
      [] op = "shr_s" -> Low(Signed(x, n) \div 2^c, n)
      [] op = "shr_u" -> x \div 2^c
      [] op = "rotl"  -> RotateLeft(x, c, n)
      [] op = "rotr"  -> x \div 2^c + Low(x, c) * 2^(n - c)

Sequence(op, s, n) ==
    LET rcx == s[Len(s)]
        rax == s[Len(s) - 1]
        x   == Low(rax, n)
        y   == Low(rcx, n)
        two == Popped(s, 2)
        one == Popped(s, 1)
    IN  CASE op = "add" -> Push(two, Low(x + y, n))
          [] op = "sub" -> Push(two, Low(x - y, n))
          [] op = "mul" -> Push(two, Low(Signed(x, n) * Signed(y, n), n))
          [] op = "and" -> Push(two, x & y)
          [] op = "or"  -> Push(two, x | y)
          [] op = "xor" -> Push(two, x ^^ y)
          [] op \in Shifts   -> Push(two, Shift(op, x, rcx, n))
          [] op \in Compares -> Push(two, Bool(Condition(op, Flags(x, y, n))))
          [] op \in Divides  -> DivRem(op, two, x, y, n)
          [] op = "eqz"    -> Push(one, Bool(y = 0))
          [] op = "clz"    -> Push(one, Clz(y, n))
          [] op = "ctz"    -> Push(one, IF y = 0 THEN n ELSE Bsf(y, n))
          [] op = "popcnt" -> Push(one, Popcnt(y, n))

Native32(op, s) == Sequence(op, s, W)

Native64(op, s) == Sequence(op, s, 2 * W)

\* movsx and movsxd into eax or rax; mov eax, eax for i32.wrap_i64.
EmitExtend(op, s, n) ==
    LET rax  == s[Len(s)]
        bits == CASE op = "extend8" -> W \div 4 [] op = "extend16" -> W \div 2
                  [] op \in {"extend32", "wrap"} -> W
    IN  Push(Popped(s, 1), IF op = "wrap" THEN Low(rax, W)
                           ELSE Low(Signed(Low(rax, bits), bits), n))

EmitIntRel(op, s, n) == IF n = W THEN Native32(op, s) ELSE Native64(op, s)

EmitIntALU(op, s, n) == IF n = W THEN Native32(op, s) ELSE Native64(op, s)

Native(op, n, s) ==
    CASE op \in Extends -> EmitExtend(op, s, n)
      [] op \in Compares \cup {"eqz"} -> EmitIntRel(op, s, n)
      [] OTHER -> EmitIntALU(op, s, n)

-----------------------------------------------------------------------------
\* Every instruction is tried on every pair of slots, over a third operand.
Init == alu = [op |-> "none"]

Pick ==
    /\ alu.op = "none"
    /\ \E o \in Ops, a, b \in Slots : alu' = [op |-> o[1], n |-> o[2], stack |-> <<2, a, b>>]

Next == Pick

Spec == Init /\ [][Next]_vars

-----------------------------------------------------------------------------
\* The division whose jump leaves RDX on the stack; StackIsOperands is about it.
LeavesPin ==
    /\ alu.op \in {"div_s", "rem_s"}
    /\ Low(alu.stack[2], alu.n) = 2^(alu.n - 1) /\ Low(alu.stack[3], alu.n) = 2^alu.n - 1

\* The stack the emitted code leaves, or the trap it takes, is the
\* interpreter's, at every operand: at the boundaries of the signed and unsigned
\* ranges, on dirty upper halves, on a zero divisor.  Of the least integer
\* divided by -1 only the result is compared.
AluAgrees ==
    alu.op # "none" =>
        LET i == AluInt(alu.op, alu.n, alu.stack)
            m == Native(alu.op, alu.n, alu.stack)
        IN  /\ m.trap = i.trap
            /\ i.trap = "none" => m.stack[Len(m.stack)] = i.stack[Len(i.stack)]
            /\ i.trap = "none" /\ ~LeavesPin => m.stack = i.stack

\* emit.go: "DivRem sequences push RDX on entry and pop it before joining".
\* The machine stack is the operand stack after every instruction: nothing
\* of the sequence's own is left under the result.
StackIsOperands ==
    alu.op # "none" =>
        LET i == AluInt(alu.op, alu.n, alu.stack)
            m == Native(alu.op, alu.n, alu.stack)
        IN  i.trap = "none" => m.stack = i.stack
=============================================================================
