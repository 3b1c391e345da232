------------------------------ MODULE JitFunc ------------------------------
(***************************************************************************)
(* services/jitc: a function body is compiled to machine code in one pass  *)
(* (compile.go, emit.go) and interpreted (interp.go).  The body is written *)
(* one instruction at a time; each is handed to the compiler, which keeps  *)
(* the operand depth, the open blocks and whether the code is unreachable, *)
(* and rejects what it cannot follow.  At the end of the body both engines *)
(* run the function.                                                       *)
(*                                                                         *)
(* Values are 32-bit and small: what instructions compute is JitAlu's,     *)
(* JitFloat's and JitMem's subject; "div" stands for them here, with its   *)
(* trap.  The function takes one parameter, has one more local, one result *)
(* and can call a second function of two parameters, Callee.               *)
(***************************************************************************)
EXTENDS Integers, Sequences, SequencesExt

CONSTANTS
    Instrs,     \* the instructions a body is written from
    Openings,   \* the instructions a body begins with
    MaxOps,     \* the most instructions after them
    MaxDepth,   \* the most operands before an instruction
    Args,       \* the arguments the function is run with
    Budget,     \* MaxSteps of the interpreter; native runs are cut as well
    Quirks      \* which instructions and branches are tried: see Tried

VARIABLE fn     \* funcCtx and the code buffer, with the body so far

vars == fn

Junk == 99      \* what uninitialised stack slots and clobbered registers hold
nparams == 1
nlocals == 2

\* Traps unless its first argument is zero; returns the second.
Callee == << <<"get", 0>>, <<"if", 0>>, <<"unreachable", 0>>, <<"end", 0>>,
             <<"get", 1>>, <<"end", 0>> >>

Table(l) == <<l, 1 - l>>

-----------------------------------------------------------------------------
\* The code buffer.  A label is an index of labels; 0 is the nil label.

Out(c, code) == [c EXCEPT !.code = @ \o code]

Fail(c) == [c EXCEPT !.status = "error"]

NewLabel(c) == [c EXCEPT !.labels = Append(@, 0)]

Bind(c, l) ==
    IF l = 0 THEN [c EXCEPT !.status = "panic"]
    ELSE IF c.labels[l] # 0 THEN Fail(c)
    ELSE [c EXCEPT !.labels[l] = Len(c.code) + 1]

addRsp(n) == IF n = 0 THEN << >> ELSE << <<"add", n>> >>

Prologue(nloc) == << <<"enter", nloc>> >>
CopyParams(n) == [i \in 1..n |-> <<"param", i, n>>]
ZeroNonParamLocals(nloc, n) == [i \in 1..(nloc - n) |-> <<"zero", n + i>>]
Safepoint == << <<"poll">> >>
Epilogue == << <<"leave">> >>
Trap(code) == << <<"trap", code>> >>
Result1 == << <<"pop">> >>

-----------------------------------------------------------------------------
\* The compiler.

Pushed(c, n) == [c EXCEPT !.depth = @ + n]

\* pop(n), then the code, then push(k).
Plain(c, n, code, k) ==
    IF c.depth < n THEN Fail(c) ELSE Pushed(Out(c, code), k - n)

Frame(c, arity, brk, top, isLoop, isIf) ==
    [entry |-> c.depth, arity |-> arity, brk |-> brk, top |-> top,
     loop |-> isLoop, if |-> isIf, inElse |-> FALSE]

Enter(c, f) == [c EXCEPT !.blocks = Append(@, f)]

Target(c, to) == c.blocks[Len(c.blocks) - to]

\* Bytes (here slots) to discard for a branch; negative means block parameters.
brDrop(c, to) == c.depth - Target(c, to).entry
                   - (IF Target(c, to).loop THEN 0 ELSE Target(c, to).arity)

brLabel(c, to) == IF Target(c, to).loop THEN Target(c, to).top ELSE Target(c, to).brk

Branches(c, to) == to < Len(c.blocks) /\ brDrop(c, to) >= 0

\* A frame opened in unreachable code has no labels: its jump goes nowhere.
Jump(c, to) ==
    IF ~Branches(c, to) THEN Fail(c)
    ELSE IF brLabel(c, to) = 0 THEN [c EXCEPT !.status = "panic"]
    ELSE Out(c, addRsp(brDrop(c, to)) \o << <<"jmp", brLabel(c, to)>> >>)

emitBranch(c, to) == [Jump(c, to) EXCEPT !.dead = TRUE]

OpenBlock(c, o) ==
    LET n == Len(c.labels)
        c1 == NewLabel(c)
        c2 == Out(Bind(NewLabel(c1), n + 2), Safepoint)
    IN  IF o[1] = "loop" THEN Enter(c2, Frame(c, o[2], n + 1, n + 2, TRUE, FALSE))
        ELSE Enter(c1, Frame(c, o[2], n + 1, 0, FALSE, FALSE))

OpenIf(c, o) ==
    LET n == Len(c.labels)
        c1 == Pushed(Out(NewLabel(NewLabel(c)), << <<"pop">>, <<"jz", n + 1>> >>), -1)
    IN  IF c.depth < 1 THEN Fail(c) ELSE Enter(c1, Frame(c1, o[2], n + 2, n + 1, FALSE, TRUE))

Else(c) ==
    LET k == Len(c.blocks)
        b == c.blocks[k]
        jumped == Bind(Out(c, << <<"jmp", b.brk>> >>), b.top)
    IN  IF k = 0 THEN Fail(c)
        ELSE IF ~b.if \/ b.inElse \/ c.depth # b.entry + b.arity THEN Fail(c)
        ELSE IF b.brk = 0 THEN [c EXCEPT !.status = "panic"]
        ELSE [jumped EXCEPT !.blocks[k].inElse = TRUE, !.depth = b.entry]

End(c) ==
    LET k == Len(c.blocks)
        b == c.blocks[k]
        c1 == [c EXCEPT !.blocks = Front(@)]
        c2 == IF b.if /\ ~b.inElse THEN Bind(c1, b.top) ELSE c1
    IN  IF c2.status # "open" THEN c2
        ELSE IF c.depth # b.entry + b.arity THEN Fail(c2)
        ELSE Bind(c2, b.brk)

\* Fault: the slots to drop are counted with the condition still on the stack.
brIfUnpopped(c, l) ==
    LET c1 == Out(NewLabel(c), << <<"pop">>, <<"jz", Len(c.labels) + 1>> >>)
        c2 == Jump(c1, l)
    IN  IF c.depth < 1 THEN Fail(c)
        ELSE IF c2.status # "open" THEN c2 ELSE Pushed(Bind(c2, Len(c.labels) + 1), -1)

brIf(c, l) ==
    LET c1 == Pushed(Out(NewLabel(c), << <<"pop">>, <<"jz", Len(c.labels) + 1>> >>), -1)
        c2 == Jump(c1, l)
    IN  IF c.depth < 1 THEN Fail(c)
        ELSE IF c2.status # "open" THEN c2 ELSE Bind(c2, Len(c.labels) + 1)

\* The cascade of compares, then the default target.
RECURSIVE Cascade(_, _, _)
Cascade(c, table, i) ==
    LET l == Len(c.labels) + 1
        c1 == Jump(Out(NewLabel(c), << <<"jne", i - 1, l>> >>), table[i])
    IN  IF i = Len(table) THEN emitBranch(c, table[i])
        ELSE IF c1.status # "open" THEN c1 ELSE Cascade(Bind(c1, l), table, i + 1)

brTable(c, table) ==
    IF c.depth < 1 THEN Fail(c) ELSE Cascade(Pushed(Out(c, << <<"pop">> >>), -1), table, 1)

Return(c) ==
    IF c.depth < 1 THEN Fail(c) ELSE [Out(c, Result1 \o Epilogue) EXCEPT !.dead = TRUE]

\* R10 points at the arguments; they stay on the stack until the callee is back.
emitCall(c) == Plain(c, 2, << <<"lea">>, <<"call">>, <<"add", 2>>, <<"push">> >>, 1)

\* Imports of 4 (fd_write), 3, 2 and 0 (sched_yield) arguments.  The pad is to
\* keep the stack aligned; fd_write pushes its last argument after it.
ImportSlots(k, d) == ((nlocals + d + 1) % 2) + (IF k = 4 THEN 1 ELSE 0)

ImportCall(c, k) ==
    LET slots == ImportSlots(k, c.depth - k)
    IN  Plain(c, k, << <<"args", k>>, <<"sub", slots>>, <<"import", k>> >> \o addRsp(slots)
                      \o (IF k = 0 THEN << >> ELSE << <<"tail">> >>) \o << <<"push">> >>, 1)

EmitLive(c, o) ==
    CASE o[1] = "unreachable" -> [Out(c, Trap("unreachable")) EXCEPT !.dead = TRUE]
      [] o[1] \in {"block", "loop"} -> OpenBlock(c, o)
      [] o[1] = "if" -> OpenIf(c, o)
      [] o[1] = "else" -> Else(c)
      [] o[1] = "end" -> End(c)
      [] o[1] = "br" -> emitBranch(c, o[2])
      [] o[1] = "br_if" -> brIf(c, o[2])
      [] o[1] = "br_table" -> brTable(c, Table(o[2]))
      [] o[1] = "return" -> Return(c)
      [] o[1] = "call" -> emitCall(c)
      [] o[1] = "import" -> ImportCall(c, o[2])
      [] o[1] = "drop" -> Plain(c, 1, addRsp(1), 0)
      [] o[1] = "select" -> Plain(c, 3, << <<"select">> >>, 1)
      [] o[1] = "get" -> Plain(c, 0, << <<"get", o[2]>>, <<"push">> >>, 1)
      [] o[1] = "set" -> Plain(c, 1, << <<"pop">>, <<"set", o[2]>> >>, 0)
      [] o[1] = "tee" -> Plain(c, 1, << <<"pop">>, <<"set", o[2]>>, <<"push">> >>, 1)
      [] o[1] = "const" -> Plain(c, 0, << <<"const", o[2]>>, <<"push">> >>, 1)
      [] o[1] = "div" -> Plain(c, 2, << <<"div">> >>, 1)

DeadElse(c) ==
    LET k == Len(c.blocks)
        b == c.blocks[k]
    IN  IF k = 0 THEN Fail(c)
        ELSE IF ~b.if \/ b.inElse THEN Fail(c)
        ELSE [c EXCEPT !.blocks[k].inElse = TRUE, !.dead = FALSE, !.depth = b.entry]

\* The labels of a block that went dead are still the targets of live jumps.
DeadEnd(c) ==
    LET b == Last(c.blocks)
        c1 == [c EXCEPT !.blocks = Front(@)]
        c2 == IF b.brk # 0 THEN Bind(c1, b.brk) ELSE c1
        c3 == IF b.if /\ ~b.inElse /\ b.top # 0 THEN Bind(c2, b.top) ELSE c2
    IN  [c3 EXCEPT !.dead = FALSE, !.depth = b.entry + b.arity]

\* Unreachable code: only the structure is followed, but "unreachable" is
\* emitted, a branch may land on it.
EmitDead(c, o) ==
    CASE o[1] = "unreachable" -> Out(c, Trap("unreachable"))
      [] o[1] \in {"block", "loop"} -> Enter(c, Frame(c, 0, 0, 0, FALSE, FALSE))
      [] o[1] = "if" -> Enter(c, Frame(c, 0, 0, 0, FALSE, TRUE))
      [] o[1] = "else" -> DeadElse(c)
      [] o[1] = "end" -> DeadEnd(c)
      [] OTHER -> c

emit(c, o) == IF c.dead THEN EmitDead(c, o) ELSE EmitLive(c, o)

\* compileFunc before the body and after it; a jump whose label was never
\* bound is found by the caller.
Opened(n, nloc) ==
    [ops |-> << >>, room |-> MaxOps, depth |-> 0, dead |-> FALSE, blocks |-> << >>, labels |-> << >>,
     status |-> "open",
     code |-> Prologue(nloc) \o CopyParams(n) \o ZeroNonParamLocals(nloc, n) \o Safepoint]

Unbound(c) ==
    \E i \in DOMAIN c.code : c.code[i][1] \in {"jmp", "jz", "jne"} /\ c.labels[Last(c.code[i])] = 0

Closed(c) ==
    LET done == Out(c, IF c.dead THEN Epilogue ELSE Result1 \o Epilogue)
    IN  IF Unbound(c) \/ (~c.dead /\ c.depth # 1) THEN Fail(c)
        ELSE [done EXCEPT !.status = "done"]

RECURSIVE EmitAll(_, _)
EmitAll(c, ops) == IF Len(ops) = 1 THEN Closed(c) ELSE EmitAll(emit(c, ops[1]), Tail(ops))

CompileOne(ops, n, nloc) == EmitAll(Opened(n, nloc), ops)

-----------------------------------------------------------------------------
\* The machine.  stk is memory from the stack's base up, rbp and r10 indexes
\* into it; saved return addresses are <<function, pc>>.

Top(m) == Last(m.stk)

First == 3      \* the slots in use, and so aligned, after the first push of rbp

CalleeCode == CompileOne(Callee, 2, 2)

Leave(m) ==
    LET ret == m.stk[m.rbp - 1] IN
    [m EXCEPT !.stk = SubSeq(@, 1, m.rbp - 2), !.rbp = m.stk[m.rbp], !.f = ret[1], !.pc = ret[2]]

\* The kernel's handler of an import: it may find an argument out of bounds.
Handler(k, args) == IF k > 0 /\ args[k] # 0 THEN [trap |-> "OOB", v |-> 0]
                    ELSE [trap |-> "none", v |-> IF k = 0 THEN 0 ELSE args[1]]

Execute(m, i, labels) ==
    LET go == [m EXCEPT !.pc = @ + 1]
        n == Len(m.stk)
    IN
    CASE i[1] = "enter" -> [go EXCEPT !.rbp = n + 1, !.stk = Append(@, m.rbp) \o [k \in 1..i[2] |-> Junk]]
      [] i[1] = "param" -> [go EXCEPT !.stk[m.rbp + i[2]] = m.stk[m.r10 - (i[3] - i[2])]]
      [] i[1] = "zero" -> [go EXCEPT !.stk[m.rbp + i[2]] = 0]
      [] i[1] = "poll" -> [go EXCEPT !.rax = Junk, !.r10 = Junk]
      [] i[1] = "push" -> [go EXCEPT !.stk = Append(@, m.rax)]
      [] i[1] = "pop" -> [go EXCEPT !.rax = Top(m), !.stk = Front(@)]
      [] i[1] = "add" -> [go EXCEPT !.stk = SubSeq(@, 1, n - i[2])]
      [] i[1] = "const" -> [go EXCEPT !.rax = i[2]]
      [] i[1] = "get" -> [go EXCEPT !.rax = m.stk[m.rbp + 1 + i[2]]]
      [] i[1] = "set" -> [go EXCEPT !.stk[m.rbp + 1 + i[2]] = m.rax]
      [] i[1] = "select" -> [go EXCEPT !.stk = Append(SubSeq(@, 1, n - 3),
                                         IF Top(m) # 0 THEN m.stk[n - 2] ELSE m.stk[n - 1])]
      [] i[1] = "div" -> IF Top(m) = 0 THEN [Leave(m) EXCEPT !.trap = "div", !.rax = 0]
                         ELSE [go EXCEPT !.stk = Append(SubSeq(@, 1, n - 2), m.stk[n - 1] \div Top(m))]
      [] i[1] = "jmp" -> [m EXCEPT !.pc = labels[i[2]]]
      [] i[1] = "jz" -> [m EXCEPT !.pc = IF m.rax = 0 THEN labels[i[2]] ELSE @ + 1]
      [] i[1] = "jne" -> [m EXCEPT !.pc = IF m.rax # i[2] THEN labels[i[3]] ELSE @ + 1]
      [] i[1] = "lea" -> [go EXCEPT !.r10 = n]
      [] i[1] = "call" -> [m EXCEPT !.stk = Append(@, <<m.f, m.pc + 1>>), !.f = 1, !.pc = 1]
      [] i[1] = "args" -> [go EXCEPT !.args = SubSeq(m.stk, n - i[2] + 1, n), !.stk = SubSeq(@, 1, n - i[2])]
      [] i[1] = "sub" -> [go EXCEPT !.stk = @ \o [k \in 1..i[2] |-> Junk]]
      [] i[1] = "import" ->
           [go EXCEPT !.rax = Handler(i[2], m.args).v, !.r10 = Junk,
                      !.trap = IF i[2] = 0 THEN @ ELSE Handler(i[2], m.args).trap,
                      !.aligned = @ /\ (n - First) % 2 = 0]
      [] i[1] = "tail" -> IF m.trap = "none" THEN go ELSE [Leave(m) EXCEPT !.trap = "OOB", !.rax = 0]
      [] i[1] = "leave" -> Leave(m)
      [] i[1] = "trap" -> [Leave(m) EXCEPT !.trap = i[2], !.rax = 0]

\* The embedder pushed the argument and calls function 0; function 2 is itself.
Entered(a) ==
    [f |-> 0, pc |-> 1, stk |-> <<a, <<2, 1>> >>, rbp |-> 0, rax |-> Junk, r10 |-> 1, trap |-> "none",
     args |-> << >>, aligned |-> TRUE]

RECURSIVE Steps(_, _, _)
Steps(c, m, k) ==
    LET code == IF m.f = 0 THEN c ELSE CalleeCode IN
    IF m.f = 2 \/ k = 0 THEN m
    ELSE Steps(c, Execute(m, code.code[m.pc], code.labels), k - 1)

Ran(c, a) == Steps(c, Entered(a), 10 * Budget)

Native(c, a) ==
    LET m == Ran(c, a)
    IN  IF m.f # 2 THEN <<"budget">>
        ELSE IF m.trap # "none" THEN <<"trap", m.trap>> ELSE <<"value", m.rax>>

-----------------------------------------------------------------------------
\* The interpreter.  It jumps, so it needs the end of every block beforehand.

Opens(o) == o[1] \in {"block", "loop", "if"}

\* blockMap: the end, and the else if any, of the block opened at pc.
Nesting(ops, p, q) ==
    Cardinality({i \in p..q : Opens(ops[i])}) - Cardinality({i \in p..(q - 1) : ops[i][1] = "end"})

EndPC(ops, p) == CHOOSE q \in p..Len(ops) : ops[q][1] = "end" /\ Nesting(ops, p, q) = 1

ElsePC(ops, p) == {q \in p..EndPC(ops, p) : ops[q][1] = "else" /\ Nesting(ops, p, q) = 1}

\* A state of execFunc; res is <<"running">> until it returns.
Return1(x, r) == [x EXCEPT !.res = r]

Interpreted(x, n, v) ==
    IF Len(x.stack) < n THEN Return1(x, <<"static">>)
    ELSE [x EXCEPT !.stack = SubSeq(@, 1, Len(@) - n) \o v]

\* A branch to a loop keeps every frame; any other pops down to its target.
brTarget(x, ops, to) ==
    LET k == Len(x.blocks) - to
        b == x.blocks[k]
        Cut(n) == SubSeq(x.stack, 1, n)
    IN  IF k < 1 THEN Return1(x, <<"static">>)
        ELSE IF b.loop
        THEN IF b.entry > Len(x.stack) THEN Return1(x, <<"static">>)
             ELSE [x EXCEPT !.pc = b.start + 1, !.stack = Cut(b.entry)]
        ELSE IF b.entry + b.arity > Len(x.stack) THEN Return1(x, <<"static">>)
        ELSE [x EXCEPT !.pc = EndPC(ops, b.start) + 1, !.stack = Cut(b.entry + b.arity),
                       !.blocks = SubSeq(@, 1, k - 1)]

InterpIf(x, ops, o, p) ==
    LET y == Interpreted(x, 1, << >>)
        opened == [y EXCEPT !.blocks = Append(@, [loop |-> FALSE, arity |-> o[2],
                                                  entry |-> Len(y.stack), start |-> p])]
        els == ElsePC(ops, p)
    IN  IF y.res # <<"running">> THEN y
        ELSE IF Last(x.stack) # 0 THEN opened
        ELSE IF els # {} THEN [opened EXCEPT !.pc = (CHOOSE q \in els : TRUE) + 1]
        ELSE [y EXCEPT !.pc = EndPC(ops, p) + 1]

InterpEnd(x) ==
    IF x.blocks # << >> THEN [x EXCEPT !.blocks = Front(@)]
    ELSE IF Len(x.stack) # 1 THEN Return1(x, <<"static">>)
    ELSE Return1(x, <<"value", x.stack[1]>>)

\* What the callee's own execFunc returns.
InterpCall(x) ==
    LET n == Len(x.stack) IN
    IF n < 2 THEN Return1(x, <<"static">>)
    ELSE IF x.stack[n - 1] # 0 THEN Return1(x, <<"trap", "unreachable">>)
    ELSE Interpreted(x, 2, <<x.stack[n]>>)

InterpImport(x, k) ==
    LET n == Len(x.stack)
        r == Handler(k, SubSeq(x.stack, n - k + 1, n))
    IN  IF n < k THEN Return1(x, <<"static">>)
        ELSE IF r.trap # "none" THEN Return1(x, <<"trap", r.trap>>)
        ELSE Interpreted(x, k, <<r.v>>)

\* br, br_if and br_table
InterpBranch(x, ops, o) ==
    LET n == Len(x.stack)
        popped == Interpreted(x, 1, << >>)
    IN
    IF o[1] = "br" THEN brTarget(x, ops, o[2])
    ELSE IF n < 1 THEN Return1(x, <<"static">>)
    ELSE IF o[1] = "br_table" THEN brTarget(popped, ops, IF x.stack[n] = 0 THEN o[2] ELSE Last(Table(o[2])))
    ELSE IF x.stack[n] = 0 THEN popped ELSE brTarget(popped, ops, o[2])

\* The instructions that move the program counter.
InterpControl(x, ops, o, p) ==
    LET n == Len(x.stack) IN
    CASE o[1] = "unreachable" -> Return1(x, <<"trap", "unreachable">>)
      [] o[1] \in {"block", "loop"} ->
           [x EXCEPT !.blocks = Append(@, [loop |-> o[1] = "loop", arity |-> o[2], entry |-> n, start |-> p])]
      [] o[1] = "if" -> InterpIf(x, ops, o, p)
      [] o[1] = "else" -> [x EXCEPT !.pc = EndPC(ops, Last(x.blocks).start)]
      [] o[1] = "end" -> InterpEnd(x)
      [] o[1] \in {"br", "br_if", "br_table"} -> InterpBranch(x, ops, o)
      [] o[1] = "return" -> IF n < 1 THEN Return1(x, <<"static">>) ELSE Return1(x, <<"value", x.stack[n]>>)

Control == {"unreachable", "block", "loop", "if", "else", "end", "br", "br_if", "br_table", "return"}

InterpOp(x, ops, o, p) ==
    LET s == x.stack
        n == Len(s)
    IN
    CASE o[1] \in Control -> InterpControl(x, ops, o, p)
      [] o[1] = "call" -> InterpCall(x)
      [] o[1] = "import" -> InterpImport(x, o[2])
      [] o[1] = "drop" -> Interpreted(x, 1, << >>)
      [] o[1] = "select" -> IF n < 3 THEN Return1(x, <<"static">>)
                            ELSE Interpreted(x, 3, <<IF s[n] # 0 THEN s[n - 2] ELSE s[n - 1]>>)
      \* local.get and local.tee share a case
      [] o[1] \in {"get", "tee"} -> Interpreted(x, 0, <<x.locals[o[2] + 1]>>)
      [] o[1] = "set" -> IF n < 1 THEN Return1(x, <<"static">>)
                         ELSE [Interpreted(x, 1, << >>) EXCEPT !.locals[o[2] + 1] = s[n]]
      [] o[1] = "const" -> Interpreted(x, 0, <<o[2]>>)
      [] o[1] = "div" -> IF n < 2 THEN Return1(x, <<"static">>)
                         ELSE IF s[n] = 0 THEN Return1(x, <<"trap", "div">>)
                         ELSE Interpreted(x, 2, <<s[n - 1] \div s[n]>>)

RECURSIVE Interpret(_, _, _)
Interpret(x, ops, k) ==
    IF x.res # <<"running">> THEN x.res
    ELSE IF k = 0 THEN <<"budget">>
    ELSE Interpret(InterpOp([x EXCEPT !.pc = @ + 1], ops, ops[x.pc], x.pc), ops, k - 1)

execFunc(ops, a) ==
    Interpret([pc |-> 1, stack |-> << >>, blocks |-> << >>, locals |-> <<a, 0>>,
               res |-> <<"running">>], ops, Budget)

-----------------------------------------------------------------------------
\* The bodies written.  Three kinds of body on which the engines part are tried
\* only when Quirks says so: a local.tee; a branch out of an inner block back to
\* a loop; a call that traps with more to do than return.  An if that leaves a
\* value and has no else is not wasm; the compiler takes it and the interpreter
\* stops at it, so it is not tried.
Labels(o) ==
    CASE o[1] \in {"br", "br_if"} -> {o[2]}
      [] o[1] = "br_table" -> Range(Table(o[2]))
      [] OTHER -> {}

Has(c, names) == \E i \in DOMAIN c.ops : c.ops[i][1] \in names

LacksElse(c) ==
    c.blocks # << >> /\ LET b == Last(c.blocks) IN b.if /\ b.arity > 0 /\ ~b.inElse

Tried(c, o) ==
    /\ o[1] = "tee" => "tee" \in Quirks
    /\ o[1] = "call" => "call" \in Quirks \/ ~Has(c, {"call", "loop"})
    /\ o[1] = "end" => ~LacksElse(c)
    /\ o[1] \in {"loop", "div", "import"} => "call" \in Quirks \/ ~Has(c, {"call"})
    /\ \A l \in Labels(o) :
         0 < l /\ l < Len(c.blocks) /\ Target(c, l).loop => "outer" \in Quirks

Written(c, o) == emit([c EXCEPT !.ops = Append(@, o)], o)

Init == \E p \in Openings : fn = FoldLeft(Written, Opened(nparams, nlocals), p)

Write ==
    /\ fn.status = "open"
    /\ fn.depth <= MaxDepth
    /\ \E o \in Instrs :
         /\ Tried(fn, o)
         /\ o[1] = "end" => fn.blocks # << >>
         /\ fn' = [Written(fn, o) EXCEPT !.room = @ - 1]
         /\ Len(fn'.blocks) <= fn'.room     \* every block can still end

\* The end that terminates the body.
Finish ==
    /\ fn.status = "open"
    /\ fn.blocks = << >>
    /\ fn' = Closed([fn EXCEPT !.ops = Append(@, <<"end", 0>>)])

Next == Write \/ Finish

Spec == Init /\ [][Next]_vars

-----------------------------------------------------------------------------
\* compile.go: "Miscompilation is impossible by construction"; interp.go: "Any
\* divergence between interp and native on the same module+inputs is an
\* emitter bug by construction".  A body the compiler accepts is one the
\* interpreter runs, and it returns the same value or the same trap natively and
\* interpreted, unless the interpreter's budget runs out.
EnginesAgree ==
    fn.status = "done" =>
        \A a \in Args :
            LET i == execFunc(fn.ops, a)
            IN  i # <<"budget">> => Native(fn, a) = i

\* emit64.go: "Stack alignment for the C call is STATIC: entry RSP is 16-aligned
\* after the prologue push in both harnesses, so the pad derives from compile-
\* time depth".  Every import is called with an even number of slots on the
\* stack.
ImportsAligned == fn.status = "done" => \A a \in Args : Ran(fn, a).aligned
=============================================================================
