------------------------------ MODULE JitFloat ------------------------------
(***************************************************************************)
(* The float instructions of the wasm compiler (services/jitc), as the     *)
(* interpreter computes them (interp_alu.go) and as the emitted SSE code   *)
(* does (float.go, called from compile.go).                                *)
(*                                                                         *)
(* A float is its bit pattern in a small IEEE format: a sign, 4 bits of    *)
(* exponent and Narrow or Wide bits of mantissa for f32 and f64.  A finite *)
(* pattern stands for a multiple of 2^-10, kept as that multiple.          *)
(* Integers are I and 2*I - 2 bits wide, so that both bounds of each range *)
(* are floats of both formats, as 2^31, 2^32, 2^63 and 2^64 are.           *)
(* Addition, subtraction, multiplication, division and square roots are    *)
(* the hardware's in both engines and stay uninterpreted.                  *)
(***************************************************************************)
EXTENDS Integers, Sequences, Bitwise

CONSTANTS
    Narrow, Wide,   \* mantissa bits of f32 and of f64
    I,              \* the width of an i32
    Ops,            \* the instructions tried: name, source and target width
    Patterns,       \* float bit patterns tried, for each format
    Ints            \* integer slots tried

VARIABLE fpu    \* the instruction and the operand stack it is run on

vars == fpu

J == 2 * I - 2      \* the width of an i64

Sign(b, m) == b \div 2^(m + 4)
Magnitude(b, m) == b % 2^(m + 4)
SignBit(m) == 2^(m + 4)
Infinite(m) == 15 * 2^m
NaN(m) == Infinite(m) + 2^(m - 1)
IsNaN(b, m) == Magnitude(b, m) > Infinite(m)

\* Infinity has the place the next larger exponent would have.
Size(u, m) ==
    LET e == u \div 2^m
        f == u % 2^m
    IN  (IF e = 0 THEN f ELSE (2^m + f) * 2^(e - 1)) * 2^(4 - m)

Value(b, m) == IF Sign(b, m) = 1 THEN -Size(Magnitude(b, m), m) ELSE Size(b, m)

One == 2^10

\* The nearest float of a magnitude, ties to the even pattern.
Nearest(v, m) ==
    LET e    == CHOOSE x \in 1..15 : (x = 1 \/ 2^(x + 3) <= v) /\ (x = 15 \/ v < 2^(x + 4))
        unit == 2^(e + 3 - m)
        low  == v \div unit + (e - 1) * 2^m
        rest == 2 * (v % unit)
    IN  IF rest > unit \/ (rest = unit /\ low % 2 = 1) THEN low + 1 ELSE low

Encode(v, m) == IF v < 0 THEN SignBit(m) + Nearest(-v, m) ELSE Nearest(v, m)

Signed(v, n) == IF v >= 2^(n - 1) THEN v - 2^n ELSE v

\* Towards zero, in whole units.
Trunc(v) == IF v < 0 THEN -((-v) \div One) ELSE v \div One

Popped(s, k) == SubSeq(s, 1, Len(s) - k)

Push(s, v) == [stack |-> Append(s, v), trap |-> "none"]

Trapped == [stack |-> << >>, trap |-> "Conv"]

Bool(b) == IF b THEN 1 ELSE 0

Least(n, unsigned) == IF unsigned THEN 0 ELSE -(2^(n - 1))
Beyond(n, unsigned) == IF unsigned THEN 2^n ELSE 2^(n - 1)

Compares == {"eq", "ne", "lt", "gt", "le", "ge"}
Arith == {"add", "sub", "mul", "div"}
Rounds == {"ceil", "floor", "trunc", "nearest"}

-----------------------------------------------------------------------------
\* The interpreter.

InterpRel(op, a, b, m) ==
    LET x == Value(a, m)
        y == Value(b, m)
        ordered == ~IsNaN(a, m) /\ ~IsNaN(b, m)
    IN  CASE op = "eq" -> ordered /\ x = y   [] op = "ne" -> ~(ordered /\ x = y)
          [] op = "lt" -> ordered /\ x < y   [] op = "gt" -> ordered /\ x > y
          [] op = "le" -> ordered /\ x <= y  [] op = "ge" -> ordered /\ x >= y

FMin(a, b, m) ==
    IF IsNaN(a, m) \/ IsNaN(b, m) THEN NaN(m)
    ELSE IF Value(a, m) = 0 /\ Value(b, m) = 0
         THEN IF Sign(a, m) = 1 \/ Sign(b, m) = 1 THEN SignBit(m) ELSE 0
         ELSE IF Value(a, m) < Value(b, m) THEN a ELSE b

FMax(a, b, m) ==
    IF IsNaN(a, m) \/ IsNaN(b, m) THEN NaN(m)
    ELSE IF Value(a, m) = 0 /\ Value(b, m) = 0
         THEN IF Sign(a, m) = 1 /\ Sign(b, m) = 1 THEN SignBit(m) ELSE 0
         ELSE IF Value(a, m) > Value(b, m) THEN a ELSE b

\* Ceil, Floor, Trunc and RoundToEven of a magnitude u under a sign bit.
Rounded(op, a, m) ==
    LET u == Size(Magnitude(a, m), m)
        down == u \div One
        frac == u % One
        neg  == Sign(a, m) = 1
        up == CASE op = "ceil" -> ~neg /\ frac > 0
                [] op = "floor" -> neg /\ frac > 0
                [] op = "trunc" -> FALSE
                [] op = "nearest" -> frac > One \div 2 \/ (frac = One \div 2 /\ down % 2 = 1)
    IN  IF Magnitude(a, m) >= Infinite(m) THEN a
        ELSE SignBit(m) * Sign(a, m) + Nearest((down + Bool(up)) * One, m)

AluFloat(op, m, s) ==
    LET b == s[Len(s)]
        a == s[Len(s) - 1]
    IN  CASE op \in Compares -> Push(Popped(s, 2), Bool(InterpRel(op, a, b, m)))
          [] op \in Arith    -> Push(Popped(s, 2), <<op, a, b>>)
          [] op \in Rounds   -> Push(Popped(s, 1), Rounded(op, b, m))
          [] op = "min"      -> Push(Popped(s, 2), FMin(a, b, m))
          [] op = "max"      -> Push(Popped(s, 2), FMax(a, b, m))
          [] op = "copysign" -> Push(Popped(s, 2), Magnitude(a, m) + SignBit(m) * Sign(b, m))
          [] op = "abs"      -> Push(Popped(s, 1), Magnitude(b, m))
          [] op = "neg"      -> Push(Popped(s, 1), (b + SignBit(m)) % (2 * SignBit(m)))
          [] op = "sqrt"     -> Push(Popped(s, 1), <<op, b>>)

\* A float to an integer, trapping; an integer to a float; between formats.
InterpTrunc(unsigned, a, m, n) ==
    LET f == Value(a, m) IN
    IF IsNaN(a, m) \/ f < Least(n, unsigned) * One \/ f >= Beyond(n, unsigned) * One
    THEN Trapped
    ELSE Push(<< >>, Trunc(f) % 2^n)

InterpConvert(unsigned, a, n, m) ==
    Encode(One * (IF unsigned THEN a % 2^n ELSE Signed(a % 2^n, n)), m)

Reformat(a, m, to) ==
    IF IsNaN(a, m) THEN NaN(to)
    ELSE SignBit(to) * Sign(a, m) + Nearest(Size(Magnitude(a, m), m), to)

InterpSat(unsigned, a, m, n) ==
    LET f == Value(a, m) IN
    CASE IsNaN(a, m) -> 0
      [] ~IsNaN(a, m) /\ f < Least(n, unsigned) * One -> Least(n, unsigned) % 2^n
      [] ~IsNaN(a, m) /\ f >= Beyond(n, unsigned) * One -> Beyond(n, unsigned) - 1
      [] OTHER -> Trunc(f) % 2^n

-----------------------------------------------------------------------------
\* The machine: ucomis, its flags and the sequences built on them.

Ucomis(x, y, m) ==
    LET pf == IsNaN(x, m) \/ IsNaN(y, m) IN
    [pf |-> pf, zf |-> pf \/ Value(x, m) = Value(y, m), cf |-> pf \/ Value(x, m) < Value(y, m)]

\* Fault: the parity flag is left out: unordered operands compare equal.
FloatCmpNoParity(op, a, b, m) ==
    LET f == IF op \in {"gt", "ge"} THEN Ucomis(b, a, m) ELSE Ucomis(a, b, m) IN
    CASE op = "eq" -> f.zf
      [] op = "ne" -> ~f.zf
      [] op \in {"lt", "gt"} -> f.cf
      [] op \in {"le", "ge"} -> f.cf \/ f.zf

\* swap compares b with a; the flag is masked with "ordered", or joined with
\* "unordered" for ne.
FloatCmp(op, a, b, m) ==
    LET f == IF op \in {"gt", "ge"} THEN Ucomis(b, a, m) ELSE Ucomis(a, b, m) IN
    CASE op = "eq" -> f.zf /\ ~f.pf
      [] op = "ne" -> ~f.zf \/ f.pf
      [] op \in {"lt", "gt"} -> f.cf /\ ~f.pf
      [] op \in {"le", "ge"} -> (f.cf \/ f.zf) /\ ~f.pf

\* r8 joins the operands' bits (or for min, and for max); when all but its
\* sign is zero it is the result.
FloatMinMax(op, a, b, m) ==
    LET r8 == IF op = "min" THEN a | b ELSE a & b IN
    CASE Magnitude(r8, m) = 0 -> r8
      [] Magnitude(r8, m) # 0 /\ Ucomis(a, b, m).pf -> NaN(m)
      [] OTHER -> IF op = "min" THEN IF Value(a, m) < Value(b, m) THEN a ELSE b
                  ELSE IF Value(a, m) > Value(b, m) THEN a ELSE b

\* f64.neg is emitted with the opcode of "or".
FloatAbsNeg(op, b, m) ==
    IF op = "abs" THEN b & (SignBit(m) - 1)
    ELSE IF m = Wide THEN b | SignBit(m) ELSE b ^^ SignBit(m)

\* The immediate of roundss chooses nearest, down, up or towards zero.
RoundMode(imm) == CASE imm = 0 -> "nearest" [] imm = 1 -> "floor" [] imm = 2 -> "ceil" [] imm = 3 -> "trunc"

FloatRound(imm, b, m) == Rounded(RoundMode(imm), b, m)

CopySign(a, b, m) == (a & (SignBit(m) - 1)) | (b & SignBit(m))

EmitFloatALU(op, m, s) ==
    LET b == s[Len(s)]
        a == s[Len(s) - 1]
    IN  CASE op \in Compares -> Push(Popped(s, 2), Bool(FloatCmp(op, a, b, m)))
          [] op \in Arith    -> Push(Popped(s, 2), <<op, a, b>>)
          [] op = "ceil"     -> Push(Popped(s, 1), FloatRound(2, b, m))
          [] op = "floor"    -> Push(Popped(s, 1), FloatRound(1, b, m))
          [] op = "trunc"    -> Push(Popped(s, 1), FloatRound(3, b, m))
          [] op = "nearest"  -> Push(Popped(s, 1), FloatRound(0, b, m))
          [] op \in {"min", "max"} -> Push(Popped(s, 2), FloatMinMax(op, a, b, m))
          [] op = "copysign" -> Push(Popped(s, 2), CopySign(a, b, m))
          [] op \in {"abs", "neg"} -> Push(Popped(s, 1), FloatAbsNeg(op, b, m))
          \* a pair is popped for the one operand
          [] op = "sqrt"     -> Push(Popped(s, 2), <<op, b>>)

\* cvtt to an n-bit signed integer; out of range it gives the least one.
Cvtt(v, n) ==
    IF Trunc(v) < -(2^(n - 1)) \/ Trunc(v) >= 2^(n - 1) THEN 2^(n - 1) ELSE Trunc(v) % 2^n

\* In range: an unsigned 64-bit target is converted in two halves, every other
\* one by the signed conversion of its own width.
InRange(unsigned, v, n) ==
    LET half == 2^(J - 1) * One IN
    IF n = J /\ unsigned /\ v >= half THEN (Cvtt(v - half, J) + 2^(J - 1)) % 2^J
    ELSE Cvtt(v, n)

FloatTrunc(unsigned, a, m, n) ==
    LET v == Value(a, m) IN
    IF IsNaN(a, m) \/ v < Least(n, unsigned) * One \/ v >= Beyond(n, unsigned) * One
    THEN Trapped
    ELSE Push(<< >>, InRange(unsigned, v, n))

FloatSat(unsigned, a, m, n) ==
    LET v == Value(a, m) IN
    CASE IsNaN(a, m) -> 0
      [] ~IsNaN(a, m) /\ v < Least(n, unsigned) * One -> Least(n, unsigned) % 2^n
      [] ~IsNaN(a, m) /\ v >= Beyond(n, unsigned) * One -> (Beyond(n, unsigned) - 1) % 2^n
      [] OTHER -> InRange(unsigned, v, n)

\* The slot is cut to 32 bits and extended; an unsigned 64-bit integer with its
\* top bit set is read as negative and 2^64 is added before the one rounding.
FloatConvertInt(unsigned, a, n, m) ==
    LET rax == IF n = J THEN Signed(a % 2^J, J)
               ELSE IF unsigned THEN a % 2^I ELSE Signed(a % 2^I, I)
    IN  Encode(One * (IF n = J /\ unsigned /\ rax < 0 THEN rax + 2^J ELSE rax), m)

-----------------------------------------------------------------------------
\* An instruction is <<name, from, to>>: from and to are mantissa or integer
\* widths, equal when the instruction stays in one format.
Unsigned(op) == op \in {"trunc_u", "sat_u", "convert_u"}

Interp(op, from, to, s) ==
    LET a == s[Len(s)] IN
    CASE op \in {"trunc_s", "trunc_u"} -> InterpTrunc(Unsigned(op), a, from, to)
      [] op \in {"sat_s", "sat_u"} -> Push(<< >>, InterpSat(Unsigned(op), a, from, to))
      [] op \in {"convert_s", "convert_u"} -> Push(<< >>, InterpConvert(Unsigned(op), a, from, to))
      [] op = "reformat" -> Push(<< >>, Reformat(a, from, to))
      [] OTHER -> AluFloat(op, from, s)

EmitNumeric(op, from, to, s) ==
    LET a == s[Len(s)] IN
    CASE op \in {"trunc_s", "trunc_u"} -> FloatTrunc(Unsigned(op), a, from, to)
      [] op \in {"sat_s", "sat_u"} -> Push(<< >>, FloatSat(Unsigned(op), a, from, to))
      [] op \in {"convert_s", "convert_u"} -> Push(<< >>, FloatConvertInt(Unsigned(op), a, from, to))
      [] op = "reformat" -> Push(<< >>, Reformat(a, from, to))
      [] OTHER -> EmitFloatALU(op, from, s)

Init == fpu = [op |-> "none"]

Pick ==
    /\ fpu.op = "none"
    /\ \E o \in Ops :
         \E a, b \in IF o[1] \in {"convert_s", "convert_u"} THEN Ints ELSE Patterns[o[2]] :
           fpu' = [op |-> o[1], from |-> o[2], to |-> o[3], stack |-> <<0, a, b>>]

Next == Pick

Spec == Init /\ [][Next]_vars

-----------------------------------------------------------------------------
\* The kind of float an instruction answers with (0: an integer or a Boolean).
Answer(op, to) ==
    IF op \in Compares \cup {"trunc_s", "trunc_u", "sat_s", "sat_u"} \cup Arith \cup {"sqrt"}
    THEN 0 ELSE to

\* The differential harness's comparison: any NaN equals any NaN.
Same(x, y, m) == x = y \/ (m > 0 /\ IsNaN(x, m) /\ IsNaN(y, m))

\* interp.go: "Any divergence between interp and native on the same module+
\* inputs is an emitter bug".  Both engines trap on the same operands, and
\* otherwise leave the same operand stack: on NaNs, on infinities, on zeros of
\* either sign and on both bounds of every integer range.
FloatAgrees ==
    fpu.op # "none" =>
        LET i == Interp(fpu.op, fpu.from, fpu.to, fpu.stack)
            n == EmitNumeric(fpu.op, fpu.from, fpu.to, fpu.stack)
        IN  /\ n.trap = i.trap
            /\ Len(n.stack) = Len(i.stack)
            /\ i.trap = "none" =>
                 Same(n.stack[Len(n.stack)], i.stack[Len(i.stack)], Answer(fpu.op, fpu.to))

\* interp.go: "textbook wasm semantics ... exact trap conditions".  A trapping
\* conversion traps exactly when the truncated operand is not an integer of
\* the target type.
TruncTrapsExactly ==
    fpu.op \in {"trunc_s", "trunc_u"} =>
        LET a == fpu.stack[Len(fpu.stack)]
            t == Trunc(Value(a, fpu.from))
            u == Unsigned(fpu.op)
        IN  (Interp(fpu.op, fpu.from, fpu.to, fpu.stack).trap # "none")
              = (IsNaN(a, fpu.from) \/ t < Least(fpu.to, u) \/ t >= Beyond(fpu.to, u))
=============================================================================
