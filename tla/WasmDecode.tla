----------------------------- MODULE WasmDecode -----------------------------
(***************************************************************************)
(* The wasm decoder of services/jitc (leb.go, decode.go, ir.go).  Input is *)
(* a sequence of bytes.  A section is a vector of entries and an entry, or *)
(* an instruction's immediate, a sequence of fields; Section, Immediate    *)
(* and Field say which bytes each of them takes and what it rejects.       *)
(* Encode is the binary format the decoder is to invert.                   *)
(***************************************************************************)
EXTENDS Integers, Sequences, FiniteSetsExt, SequencesExt

CONSTANTS
    Modules,    \* modules tried: sequences of [id, entries]
    Pads        \* extra bytes of each LEB128 number (a padded 0 is 80 00)

VARIABLE input  \* the module, its padding and how much of its bytes is left

vars == input

\* What a read gives: the next offset and the value, or nothing.
Bad == [ok |-> FALSE, off |-> 0, v |-> 0]
Read(off, v) == [ok |-> TRUE, off |-> off, v |-> v]

\* What follows a read, unless it failed.
Then(r, K(_)) == IF r.ok THEN K(r) ELSE Bad

rest(b, off) == Len(b) - off

u8(b, off) == IF rest(b, off) < 1 THEN Bad ELSE Read(off + 1, b[off + 1])

bytes(b, off, n) ==
    IF rest(b, off) < n THEN Bad ELSE Read(off + n, SubSeq(b, off + 1, off + n))

\* At most five groups of seven bits; the fifth has room for four.
RECURSIVE U32(_, _, _, _)
U32(b, off, i, v) ==
    Then(u8(b, off), LAMBDA r :
      LET w == v + (r.v % 128) * 2^(7 * i)
      IN  IF i = 5 \/ (i = 4 /\ r.v >= 16) THEN Bad
          ELSE IF r.v < 128 THEN Read(r.off, w) ELSE U32(b, r.off, i + 1, w))

u32leb(b, off) == U32(b, off, 0, 0)

Bit(g, j) == (g \div 2^j) % 2

\* The groups of seven bits of a signed number; a last one that asks for
\* another is an overflow.
RECURSIVE Groups(_, _, _, _)
Groups(b, off, most, gs) ==
    Then(u8(b, off), LAMBDA r :
      LET all == Append(gs, r.v % 128)
      IN  IF r.v < 128 THEN Read(r.off, all)
          ELSE IF Len(all) = most THEN Bad ELSE Groups(b, r.off, most, all))

\* Fault: the longest form is refused.
SignedShort(b, off, w, most) ==
    Then(Groups(b, off, most - 1, << >>), LAMBDA r :
      Read(r.off, [j \in 0..(w - 1) |-> IF j < 7 * Len(r.v) THEN Bit(r.v[j \div 7 + 1], j % 7)
                                        ELSE Bit(Last(r.v), 6)]))

\* A signed number of w bits, as the function from places to bits: what a group
\* has above the width is shifted out, and bit 6 of the last group fills the
\* places that no group reaches.
Signed(b, off, w, most) ==
    Then(Groups(b, off, most, << >>), LAMBDA r :
      Read(r.off, [j \in 0..(w - 1) |-> IF j < 7 * Len(r.v) THEN Bit(r.v[j \div 7 + 1], j % 7)
                                        ELSE Bit(Last(r.v), 6)]))

s32leb(b, off) == Signed(b, off, 32, 5)
s64leb(b, off) == Signed(b, off, 64, 10)

\* A length, and as many bytes.
name(b, off) == Then(u32leb(b, off), LAMBDA n : bytes(b, n.off, n.v))

\* A count that cannot fit in the rest of the input is rejected.
vecLen(b, off) == Then(u32leb(b, off), LAMBDA n : IF n.v <= rest(b, n.off) THEN n ELSE Bad)

ValTypes == 124..127

\* A byte that must be one of S.
OneOf(b, off, S) == Then(u8(b, off), LAMBDA r : IF r.v \in S THEN r ELSE Bad)

-----------------------------------------------------------------------------
\* Fields of fixed shape.  "init" and "offset" are constant expressions: the
\* operator, its operand and the end.
Operand(op) ==
    CASE op = 65 -> "s32" [] op = 66 -> "s64" [] op = 67 -> "raw4" [] op = 68 -> "raw8" [] op = 35 -> "u32"

RECURSIVE Field(_, _, _), Fields(_, _, _, _), Vector(_, _, _, _, _)

Expression(b, off, allowed) ==
    Then(OneOf(b, off, allowed), LAMBDA op :
      Then(Field(Operand(op.v), b, op.off), LAMBDA v :
        Then(OneOf(b, v.off, {11}), LAMBDA end : Read(end.off, <<op.v, v.v>>))))

\* A flag, the minimum and, when the flag is 1, the maximum.
Limits(b, off) ==
    Then(u32leb(b, off), LAMBDA flags :
      IF flags.v > 1 THEN Bad ELSE Fields([i \in 1..(flags.v + 1) |-> "u32"], b, flags.off, << >>))

\* The fields of an import, by kind: a function, a table, a memory, a global.
Described == << <<"u32">>, <<"u8", "limits">>, <<"limits">>, <<"u8", "u8">> >>

ImportDesc(b, off) ==
    Then(OneOf(b, off, 0..3), LAMBDA kind :
      Then(Fields(Described[kind.v + 1], b, kind.off, << >>), LAMBDA d : Read(d.off, <<kind.v, d.v>>)))

Counted(b, off, field) == Then(vecLen(b, off), LAMBDA n : Vector(field, b, n.off, n.v, << >>))

\* The targets of br_table and the default.
Targets(b, off) ==
    Then(Counted(b, off, "u32"), LAMBDA t :
      Then(u32leb(b, t.off), LAMBDA d : Read(d.off, Append(t.v, d.v))))

\* A run of locals; its count too must fit in the rest of the body.
Locals(b, off) ==
    Then(vecLen(b, off), LAMBDA n :
      Then(OneOf(b, n.off, ValTypes), LAMBDA t : Read(t.off, <<n.v, t.v>>)))

\* The immediates of an instruction, by opcode; << "none" >> is unsupported.
Immediate(op) ==
    CASE op \in {0, 1, 5, 11, 15, 26, 27} \cup 69..189 \cup 192..196 -> << >>
      [] op \in 2..4 -> <<"blocktype">>
      [] op \in {12, 13, 16} \cup 32..36 -> <<"u32">>
      [] op = 14 -> <<"targets">>
      [] op = 17 -> <<"u32", "u32">>
      [] op \in 40..62 -> <<"u32", "u32">>
      [] op \in {63, 64} -> <<"zero">>
      [] op \in 65..68 -> <<Operand(op)>>
      [] op = 252 -> <<"misc">>
      [] OTHER -> <<"none">>

Misc(b, off) ==
    Then(u32leb(b, off), LAMBDA sub :
      IF sub.v \notin 0..7 \cup {10, 11} THEN Bad
      ELSE Then(Fields([i \in 1..(IF sub.v < 10 THEN 0 ELSE 12 - sub.v) |-> "zero"], b, sub.off, << >>),
                LAMBDA r : Read(r.off, <<sub.v, r.v>>)))

\* The fields of a section's entries, by section.
Entry == <<"Type", "Import", "Func", "Table", "Mem", "Global", "Export", "Start", "Elem", "Code", "Data">>

EntryNames == Range(Entry)

TypeSec == <<"functype", "valtypes", "valtypes">>
ImportSec == <<"name", "name", "import">>
FuncSec == <<"u32">>
TableSec == <<"u8", "limits">>
MemSec == <<"limits">>
GlobalSec == <<"valtype", "mut", "init">>
ExportSec == <<"name", "kind", "u32">>
StartSec == <<"u32">>
ElemSec == <<"u32", "offset", "u32s">>
CodeSec == <<"body">>
DataSec == <<"u32", "offset", "name">>

Shape(f) ==
    CASE f = "Type" -> TypeSec   [] f = "Import" -> ImportSec [] f = "Func" -> FuncSec [] f = "Table" -> TableSec
      [] f = "Mem" -> MemSec     [] f = "Global" -> GlobalSec [] f = "Export" -> ExportSec
      [] f = "Start" -> StartSec [] f = "Elem" -> ElemSec     [] f = "Code" -> CodeSec [] f = "Data" -> DataSec

\* Instructions up to the end at nesting depth 0, which must be the last byte.
RECURSIVE Code(_, _, _, _)
Code(b, off, depth, ops) ==
    IF off = Len(b)
    THEN IF ops = << >> THEN Bad ELSE IF Last(ops)[1] = 11 THEN Read(off, ops) ELSE Bad
    ELSE LET op == b[off + 1]
             inner == IF op \in 2..4 THEN depth + 1 ELSE IF op = 11 THEN depth - 1 ELSE depth
         IN  Then(Fields(Immediate(op), b, off + 1, << >>), LAMBDA imm :
               IF inner >= 0 THEN Code(b, imm.off, inner, Append(ops, <<op, imm.v>>))
               ELSE IF imm.off = Len(b) THEN Read(imm.off, Append(ops, <<op, imm.v>>)) ELSE Bad)

\* A size and a body of that size.
FuncBody(b, off) ==
    Then(name(b, off), LAMBDA sized :
      Then(Counted(sized.v, 0, "locals"), LAMBDA l :
        Then(Code(sized.v, l.off, 0, << >>), LAMBDA ops :
          Read(sized.off, [locals |-> l.v, ops |-> ops.v, at |-> off]))))

Field(f, b, off) ==
    CASE f = "u8" -> u8(b, off)             [] f = "u32" -> u32leb(b, off)
      [] f = "s32" -> s32leb(b, off)        [] f = "s64" -> s64leb(b, off)
      [] f = "raw4" -> bytes(b, off, 4)     [] f = "raw8" -> bytes(b, off, 8)
      [] f = "name" -> name(b, off)
      [] f = "functype" -> OneOf(b, off, {96})
      [] f = "valtype" -> OneOf(b, off, ValTypes)
      [] f = "mut" -> OneOf(b, off, 0..1)   [] f = "zero" -> OneOf(b, off, {0})
      [] f = "kind" -> OneOf(b, off, 0..3)
      [] f = "blocktype" -> OneOf(b, off, ValTypes \cup {64})
      [] f = "valtypes" -> Counted(b, off, "valtype")
      [] f = "u32s" -> Counted(b, off, "u32")
      [] f = "init" -> Expression(b, off, 65..68 \cup {35})
      [] f = "offset" -> Expression(b, off, {65, 35})
      [] f = "limits" -> Limits(b, off)     [] f = "import" -> ImportDesc(b, off)
      [] f = "locals" -> Locals(b, off)     [] f = "targets" -> Targets(b, off)
      [] f = "misc" -> Misc(b, off)         [] f = "body" -> FuncBody(b, off)
      [] f \in EntryNames -> Fields(Shape(f), b, off, << >>)
      [] f = "none" -> Bad

Fields(fs, b, off, done) ==
    IF fs = << >> THEN Read(off, done)
    ELSE Then(Field(fs[1], b, off), LAMBDA r : Fields(Tail(fs), b, r.off, Append(done, r.v)))

Vector(field, b, off, n, done) ==
    IF n = 0 THEN Read(off, done)
    ELSE Then(Field(field, b, off), LAMBDA r : Vector(field, b, r.off, n - 1, Append(done, r.v)))

-----------------------------------------------------------------------------
\* Sections.  m is the sequence of sections decoded so far.

Count(m, id) == FoldLeft(LAMBDA n, x : n + (IF x.id = id THEN Len(x.entries) ELSE 0), 0, m)

Moved(entries, base) == [i \in DOMAIN entries |-> <<[entries[i][1] EXCEPT !.at = @ + base]>>]

\* A function's type must exist; a body's place is counted from the start of
\* the file.
DecodeSection(m, id, p, base) ==
    IF id = 0
    THEN Then(name(p, 0), LAMBDA custom : Read(0, << <<custom.v, SubSeq(p, custom.off + 1, Len(p))>> >>))
    ELSE IF id \notin DOMAIN Entry THEN Bad
    ELSE Then(IF id = 8 THEN Vector("Start", p, 0, 1, << >>) ELSE Counted(p, 0, Entry[id]), LAMBDA es :
           IF id = 3 /\ \E i \in DOMAIN es.v : es.v[i][1] >= Count(m, 1) THEN Bad
           ELSE IF id = 10 THEN Read(0, Moved(es.v, base)) ELSE es)

RECURSIVE Sections(_, _, _)
Sections(b, off, m) ==
    IF off = Len(b)
    THEN IF Count(m, 10) # 0 /\ Count(m, 3) # Count(m, 10) THEN Bad ELSE Read(off, m)
    ELSE Then(name(b, off + 1), LAMBDA p :
           Then(DecodeSection(m, b[off + 1], p.v, p.off - Len(p.v)), LAMBDA s :
             Sections(b, p.off, Append(m, [id |-> b[off + 1], entries |-> s.v]))))

Header == <<0, 97, 115, 109, 1, 0, 0, 0>>

Decode(b) ==
    Then(bytes(b, 0, 8), LAMBDA h : IF h.v # Header THEN Bad ELSE Sections(b, 8, << >>))

-----------------------------------------------------------------------------
\* The format.  A number has its least groups and pad more, up to its longest.
Padded(least, longest, pad, Group(_)) ==
    LET n == Min({least + pad, longest})
    IN  [k \in 1..n |-> Group(k) + (IF k < n THEN 128 ELSE 0)]

Leb(v, pad) ==
    LET Left(k) == v \div 128^(k - 1)
        least == CHOOSE n \in 1..5 : Left(n) < 128 /\ (n = 1 \/ Left(n) # 0)
    IN  Padded(least, 5, pad, LAMBDA k : Left(k) % 128)

\* v is a function from places to bits, as in Signed.
SLeb(v, w, pad) ==
    LET Holds(n) == \A j \in (7 * n - 1)..(w - 1) : v[j] = v[w - 1]
        At(j) == v[Min({j, w - 1})]
        longest == (w + 6) \div 7
        least == Min({n \in 1..longest : Holds(n)})
    IN  Padded(least, longest, pad, LAMBDA k : MapThenSumSet(LAMBDA j : At(7 * k - 7 + j) * 2^j, 0..6))

RECURSIVE Enc(_, _, _), EncFields(_, _, _)
EncAll(f, vs, pad) == FlattenSeq([i \in DOMAIN vs |-> Enc(f, vs[i], pad)])

Sized(b, pad) == Leb(Len(b), pad) \o b

EncBody(v, pad) ==
    Sized(Leb(Len(v.locals), pad) \o EncAll("locals", v.locals, pad)
            \o FlattenSeq([i \in DOMAIN v.ops |->
                 <<v.ops[i][1]>> \o EncFields(Immediate(v.ops[i][1]), v.ops[i][2], pad)]), pad)

Enc(f, v, pad) ==
    CASE f \in {"u8", "functype", "valtype", "mut", "zero", "kind", "blocktype"} -> <<v>>
      [] f = "u32" -> Leb(v, pad)
      [] f = "s32" -> SLeb(v, 32, pad)
      [] f = "s64" -> SLeb(v, 64, pad)
      [] f \in {"raw4", "raw8"} -> v
      [] f = "name" -> Sized(v, pad)
      [] f = "valtypes" -> Leb(Len(v), pad) \o v
      [] f = "u32s" -> Leb(Len(v), pad) \o EncAll("u32", v, pad)
      [] f \in {"init", "offset"} -> <<v[1]>> \o Enc(Operand(v[1]), v[2], pad) \o <<11>>
      [] f = "limits" -> Leb(Len(v) - 1, pad) \o EncAll("u32", v, pad)
      [] f = "import" -> <<v[1]>> \o EncFields(Described[v[1] + 1], v[2], pad)
      [] f = "locals" -> Leb(v[1], pad) \o <<v[2]>>
      [] f = "targets" -> Leb(Len(v) - 1, pad) \o EncAll("u32", v, pad)
      [] f = "misc" -> Leb(v[1], pad) \o v[2]
      [] f = "body" -> EncBody(v, pad)
      [] f \in EntryNames -> EncFields(Shape(f), v, pad)

EncFields(fs, vs, pad) == FlattenSeq([i \in DOMAIN fs |-> Enc(fs[i], vs[i], pad)])

EncSection(s, pad) ==
    <<s.id>> \o Sized(CASE s.id = 0 -> Sized(s.entries[1][1], pad) \o s.entries[1][2]
                        [] s.id = 8 -> EncAll("Start", s.entries, pad)
                        [] OTHER -> Leb(Len(s.entries), pad) \o EncAll(Entry[s.id], s.entries, pad), pad)

Encode(m, pad) == Header \o FlattenSeq([i \in DOMAIN m |-> EncSection(m[i], pad)])

Init == input = [m |-> << >>, pad |-> 0, cut |-> -1]

Pick ==
    /\ input.cut = -1
    /\ \E m \in Modules, pad \in Pads :
         \E cut \in 0..Len(Encode(m, pad)) : input' = [m |-> m, pad |-> pad, cut |-> cut]

Next == Pick

Spec == Init /\ [][Next]_vars

-----------------------------------------------------------------------------
\* Where the first k sections of the module end.
Boundary(m, pad, k) == Len(Encode(SubSeq(m, 1, k), pad))

\* What was encoded, and each body found at the place recorded for it.
Exact(got, m, b, pad) ==
    /\ Len(got) = Len(m)
    /\ \A i \in DOMAIN m :
         /\ got[i].id = m[i].id
         /\ Len(got[i].entries) = Len(m[i].entries)
         /\ \A e \in DOMAIN m[i].entries :
              IF m[i].id # 10 THEN got[i].entries[e] = m[i].entries[e]
              ELSE LET g == got[i].entries[e][1]
                       w == m[i].entries[e][1]
                       size == EncBody(w, pad)
                   IN  /\ g.locals = w.locals /\ g.ops = w.ops
                       /\ SubSeq(b, g.at + 1, g.at + Len(size)) = size

\* decode.go: "unrecognised *content* inside recognised sections is rejected";
\* ir.go: WasmOff "is the absolute file offset of the body's size field ... which
\* is what the kernel's native dispatch lookup keys on".  A module cut anywhere
\* but between two sections is rejected; otherwise the decoder returns exactly
\* the sections that were encoded, however long its numbers are written, and
\* every body is where its offset says.
DecodeExact ==
    input.cut >= 0 =>
        LET b == SubSeq(Encode(input.m, input.pad), 1, input.cut)
            d == Decode(b)
            whole == {k \in 0..Len(input.m) : Boundary(input.m, input.pad, k) = input.cut}
        IN  IF whole = {} THEN ~d.ok
            ELSE \A k \in whole : d.ok /\ Exact(d.v, SubSeq(input.m, 1, k), b, input.pad)
=============================================================================
