----------------------------- MODULE MCServices -----------------------------
(***************************************************************************)
(* Services that do not share state: the JIT compiler, login, the          *)
(* packages, the terminal, the console, the codecs of the net service, the *)
(* usb rings and the bluetooth cycle, each at its own bounds.  A behaviour *)
(* belongs to one part; the others stay in their initial states.           *)
(***************************************************************************)
EXTENDS Login, Console, Integers, Sequences

VARIABLES
    part,
    alu, fpu, mem, instrs, fn, input,
    pBench, pCmds, pSignedBy, pDisk, pKeyfile, pMgr,
    tTerm, tShown, tKept, tDone,
    kInput,
    uSlots, uPending, uCount, uAccepted, uCompleted,
    bWire, bRx, bCtl, bFlow, bCut, bAstray

CONSTANTS Parts, RegionMax, Quirks, MaxOps

jitVars == <<alu, fpu, mem, instrs, fn, input>>
packageVars == <<pBench, pCmds, pSignedBy, pDisk, pKeyfile, pMgr>>
terminalVars == <<tTerm, tShown, tKept, tDone>>
usbVars == <<uSlots, uPending, uCount, uAccepted, uCompleted>>
btVars == <<bWire, bRx, bCtl, bFlow, bCut, bAstray>>
deviceVars == <<usbVars, btVars>>
vars == <<part, jitVars, loginVars, packageVars, terminalVars, consoleVars, kInput, deviceVars>>

-----------------------------------------------------------------------------
(* The JIT compiler *)

\* Words of 8 and 16 bits; the operands are around the signed and unsigned
\* limits of both, and some have rubbish above the narrow word.
MCSlots == {0, 1, 2, 3, 7, 8, 15, 16, 31, 127, 128, 129, 254, 255, 256, 257, 383, 384,
            32767, 32768, 32769, 65280, 65407, 65534, 65535}

Alu == INSTANCE JitAlu WITH W <- 8, Slots <- MCSlots, Pin <- 4242

\* Floats with mantissas of 2 and 4 bits, integers of 4 and 6 bits: some integers
\* round, some are above the largest float.
Float == INSTANCE JitFloat WITH Narrow <- 2, Wide <- 4, I <- 4, Ops <- {}, Patterns <- <<>>, Ints <- {}

Both(o) == {<<o, 2, 2>>, <<o, 4, 4>>}
MCOps == UNION {Both(o) : o \in Float!Compares \cup Float!Arith \cup Float!Rounds \cup {"min", "copysign", "abs"}}
         \cup ({"trunc_s", "sat_s"} \X {2, 4} \X {4, Float!J})
         \cup ({"trunc_u", "sat_u"} \X {2, 4} \X {Float!J})
         \cup ({"convert_s", "convert_u"} \X {4, Float!J} \X {2, 4})
         \cup {<<"neg", 2, 2>>, <<"reformat", 2, 4>>, <<"reformat", 4, 2>>}
\* The floats around the integer limits, the zeros, infinities and NaNs.
Near(m) == {0, 1, Float!SignBit(m) - 1, Float!SignBit(m), Float!Infinite(m) - 1}
           \cup {Float!Infinite(m), Float!Infinite(m) + Float!SignBit(m), Float!NaN(m), Float!NaN(m) + Float!SignBit(m)}
           \cup {Float!Encode(Float!One * i + d, m) :
                    i \in {-1, 0, 1, 2, 8, 16, 32, 64, -8, -32}, d \in {0, 512, -512}}
MCPatterns == [m \in {2, 4} |-> Near(m)]

Fpu == INSTANCE JitFloat WITH
    Narrow <- 2, Wide <- 4, I <- 4, Ops <- MCOps, Patterns <- MCPatterns,
    Ints <- {0, 1, 7, 8, 9, 15, 16, 17, 31, 32, 33, 63}

\* Bytes of two bits, a memory of nine; addresses that wrap and that do not.
MCLoads == {<<4, FALSE, FALSE>>, <<8, FALSE, TRUE>>, <<4, FALSE, TRUE>>} \cup ({1, 2} \X BOOLEAN \X BOOLEAN)

Mem == INSTANCE JitMem WITH
    B <- 2, MemSize <- 9, Loads <- MCLoads, Stores <- {1, 2, 4, 8}, Addresses <- {0, 1, 5, 8, 9, 255, 256, 261},
    Offsets <- {0, 1, 255}, Values <- {0, 1, 39936, 65535, 128}, Overlaps <- FALSE, MaxInstrs <- 2

MCInstrs == ({"set", "drop", "else", "end", "return", "unreachable", "select", "div", "call", "tee"} \X {0})
            \cup ({"block", "if", "br", "br_if", "get"} \X {0, 1})
            \cup {<<"loop", 0>>, <<"const", 1>>, <<"br_table", 0>>, <<"br_table", 1>>, <<"import", 0>>, <<"import", 2>>}

\* Bodies from the start, and from within two blocks with a condition at hand:
\* two that leave nothing, one around a loop, and one that leaves a value.
MCOpenings == {<< >>, << <<"block", 0>>, <<"block", 0>>, <<"get", 0>> >>,
               << <<"block", 0>>, <<"loop", 0>>, <<"get", 0>> >>,
               << <<"block", 1>>, <<"const", 1>>, <<"block", 0>>, <<"get", 0>> >>}

Func == INSTANCE JitFunc WITH Instrs <- MCInstrs, Openings <- MCOpenings, MaxDepth <- 2, Args <- {0, 1}, Budget <- 12

\* Three modules that between them have every section and every immediate.
Sec(id, es) == [id |-> id, entries |-> es]
Body(l, o) == <<[locals |-> l, ops |-> o, at |-> 0]>>
\* The bits of a small number, and of the least number of a width.
Bits(v, w) == [j \in 0..(w - 1) |-> IF j < 30 THEN (v \div 2^j) % 2 ELSE IF v < 0 THEN 1 ELSE 0]
Least(w) == [j \in 0..(w - 1) |-> IF j = w - 1 THEN 1 ELSE 0]
MCModules == {
  << Sec(1, << <<96, <<127, 126>>, <<127>>>>, <<96, << >>, << >>>> >>),
     Sec(2, << <<<<101>>, <<102, 103>>, <<0, <<1>>>>>>, <<<<101>>, << >>, <<1, <<112, <<1, 2>>>>>>>>,
               <<<<101>>, <<1>>, <<2, << <<3>> >>>>>>, <<<<101>>, <<1>>, <<3, <<127, 0>>>>>> >>),
     Sec(3, << <<0>>, <<1>> >>), Sec(4, << <<112, <<2, 5>>>> >>), Sec(5, << <<<<1>>>> >>),
     Sec(10, << Body(<< >>, << <<11, << >>>> >>),
                Body(<< <<2, 127>> >>, << <<2, <<64>>>>, <<32, <<1>>>>, <<13, <<0>>>>, <<11, << >>>>, <<11, << >>>> >>) >>) >>,
  << Sec(0, << <<<<97, 98>>, <<2>>>> >>),
     Sec(6, << <<127, 1, <<65, Bits(-65, 32)>>>>, <<127, 0, <<65, Least(32)>>>>, <<126, 1, <<66, Bits(64, 64)>>>>, <<125, 0, <<67, <<1, 2, 3, 4>>>>>>, <<126, 0, <<35, 200>>>> >>),
     Sec(7, << <<<<109>>, 2, 0>> >>), Sec(8, << <<0>> >>), Sec(9, << <<0, <<65, Bits(3, 32)>>, <<1, 130>>>> >>),
     Sec(11, << <<0, <<65, Bits(8, 32)>>, <<7, 7, 7>>>> >>) >>,
  << Sec(1, << <<96, << >>, <<126>>>> >>), Sec(3, << <<0>> >>),
     Sec(10, << Body(<< >>, << <<3, <<126>>>>, <<14, <<<<0, 1>>>>>>, <<4, <<64>>>>, <<5, << >>>>, <<11, << >>>>,
                               <<41, <<2, 300>>>>, <<17, <<0, 0>>>>, <<63, <<0>>>>, <<252, <<<<10, <<0, 0>>>>>>>>,
                               <<252, <<<<3, << >>>>>>>>, <<66, <<Bits(-300, 64)>>>>, <<66, <<Least(64)>>>>, <<65, <<Bits(-1, 32)>>>>,
                               <<68, <<<<1, 2, 3, 4, 5, 6, 7, 8>>>>>>,
                               <<11, << >>>>, <<193, << >>>>, <<11, << >>>> >>) >>) >> }

Decode == INSTANCE WasmDecode WITH Modules <- MCModules, Pads <- {0, 1, 9}
-----------------------------------------------------------------------------
(* The services *)

\* The second table takes one user out and changes the password of the other.
MCTables == {[u1 |-> "p", u2 |-> "q"], [u1 |-> "q"]}
MCDefaultUsers == [u1 |-> "any", u2 |-> "none"]

\* A module as the build leaves it, and one stamped twice.
MCBuilds == {<<[n |-> "code", v |-> <<"a">>], [n |-> "abi_ver", v |-> <<"2">>]>>,
             <<[n |-> "abi_ver", v |-> <<"2">>], [n |-> "code", v |-> <<"b">>],
               [n |-> "abi_ver", v |-> <<"1">>], [n |-> "name", v |-> <<"x">>]>>}

Packages == INSTANCE Packages WITH
    Keys <- {"k1", "k2"}, Trusted <- {"k1"}, Versions <- {"2"}, Builds <- MCBuilds,
    Managers <- {"s1", "s2"}, Chunk <- 2, MaxCmds <- 3,
    bench <- pBench, cmds <- pCmds, signedBy <- pSignedBy, disk <- pDisk, keyfile <- pKeyfile, mgr <- pMgr

MCInput == {[c |-> c, n |-> 0] : c \in {"ESC", "[", "?", ";", "x", "NL", "CR", "TAB", "BS", "m", "J", "K",
                                        "H", "B", "D", "s", "u", "r", "X", "h", "l"}}
           \cup {[c |-> "num", n |-> n] : n \in {2, 7, 1049}}

Terminal == INSTANCE Terminal WITH
    Cols <- 2, Rows <- 3, TabStop <- 2, Input <- MCInput, MaxParams <- 2, MaxDone <- 3,
    t <- tTerm, shown <- tShown, kept <- tKept, done <- tDone

MCDatagrams == {[kind |-> "echo", text |-> "> a", nl |-> FALSE], [kind |-> "echo", text |-> "> b", nl |-> FALSE],
                [kind |-> "echo", text |-> "> a", nl |-> TRUE], [kind |-> "tagged", text |-> "[fs] x", nl |-> TRUE],
                [kind |-> "plain", text |-> "y", nl |-> TRUE], [kind |-> "blank", text |-> "", nl |-> TRUE]}

\* Bytes of 16 values; contents of up to three, options of up to five.
Few == {0, 1, 15}
UpTo(S, n) == UNION {[1 .. k -> S] : k \in 0 .. n}
MCInputs ==
    {[kind |-> "ip", p |-> [ttl |-> t, proto |-> 6, src |-> s, dst |-> d, payload |-> x]] :
        t \in {0, 1}, s \in Few, d \in Few, x \in UpTo({0, 15}, 4)}
    \cup {[kind |-> "icmp", p |-> [type |-> 8, id |-> s, seq |-> d, data |-> x]] :
             s \in Few, d \in Few, x \in UpTo(Few, 3)}
    \cup {[kind |-> "udp", p |-> [src |-> s, dst |-> d, payload |-> x]] :
             s \in Few, d \in Few, x \in UpTo({0, 15}, 2)}
    \cup {[kind |-> "dhcp", b |-> x] : x \in UpTo({0, 1, 2, 3, 15}, 5)}
    \cup {[kind |-> "addr", p |-> <<x, y>>] : x \in {0, 9, 10, 99, 100, 255}, y \in {0, 7, 42, 200}}

Packets == INSTANCE Packets WITH
    Base <- 16, EthPayloadM <- 13, MinPad <- 12, IpLen <- 2, Inputs <- MCInputs, input <- kInput

\* Rings of four instead of eight: a full ring and two laps within six transfers.
Usb == INSTANCE UsbRing WITH
    SlotIds <- {1}, DataSlots <- 4, MaxSubmits <- 6,
    slots <- uSlots, pendingDB <- uPending, count <- uCount, accepted <- uAccepted, completed <- uCompleted

\* Two peers, and a report that can come after the scan.
Bt == INSTANCE Bluetooth WITH
    Peers <- {40, 50}, Level <- [p \in {40, 50} |-> p + 20], MaxAdvs <- 2,
    wire <- bWire, rx <- bRx, ctl <- bCtl, flow <- bFlow, cut <- bCut, astray <- bAstray

-----------------------------------------------------------------------------
JitInit == Alu!Init /\ Fpu!Init /\ Mem!Init /\ Func!Init /\ Decode!Init

JitNext ==
    \/ part = "alu" /\ Alu!Next /\ UNCHANGED <<part, fpu, mem, instrs, fn, input>>
    \/ part = "float" /\ Fpu!Next /\ UNCHANGED <<part, alu, mem, instrs, fn, input>>
    \/ part = "mem" /\ Mem!Next /\ UNCHANGED <<part, alu, fpu, fn, input>>
    \/ part = "func" /\ Func!Next /\ UNCHANGED <<part, alu, fpu, mem, instrs, input>>
    \/ part = "decode" /\ Decode!Next /\ UNCHANGED <<part, alu, fpu, mem, instrs, fn>>

Init ==
    /\ part \in Parts
    /\ JitInit /\ LoginInit /\ Packages!Init /\ Terminal!Init /\ ConsoleInit /\ Packets!Init
    /\ Usb!UsbInit /\ Bt!BtInit
    /\ part # "login" => file = [u1 |-> "q"]
    /\ part # "package" => Len(pBench) = 2
    /\ part # "func" => fn.ops = << >>

LoginStep == part = "login" /\ LoginNext /\ UNCHANGED <<part, jitVars, packageVars, terminalVars, consoleVars, kInput, deviceVars>>
PackageStep == part = "package" /\ Packages!Next /\ UNCHANGED <<part, jitVars, loginVars, terminalVars, consoleVars, kInput, deviceVars>>
TerminalStep == part = "terminal" /\ Terminal!Next /\ UNCHANGED <<part, jitVars, loginVars, packageVars, consoleVars, kInput, deviceVars>>
ConsoleStep == part = "console" /\ ConsoleNext /\ UNCHANGED <<part, jitVars, loginVars, packageVars, terminalVars, kInput, deviceVars>>
PacketStep == part = "packet" /\ Packets!Next /\ UNCHANGED <<part, jitVars, loginVars, packageVars, terminalVars, consoleVars, deviceVars>>

UsbStep == part = "usb" /\ Usb!UsbNext
           /\ UNCHANGED <<part, jitVars, loginVars, packageVars, terminalVars, consoleVars, kInput, btVars>>
BtStep == part = "bt" /\ Bt!BtNext
          /\ UNCHANGED <<part, jitVars, loginVars, packageVars, terminalVars, consoleVars, kInput, usbVars>>

JitStep == JitNext /\ UNCHANGED <<loginVars, packageVars, terminalVars, consoleVars, kInput, deviceVars>>

Next == JitStep \/ LoginStep \/ PackageStep \/ TerminalStep \/ ConsoleStep \/ PacketStep \/ UsbStep \/ BtStep

Spec == Init /\ [][Next]_vars

\* JitAlu, JitFloat, JitMem: the instructions emitted for an integer, a float
\* or a memory operation give what the interpreter gives.
EmittersAgree ==
    CASE part = "alu" -> Alu!AluAgrees
      [] part = "float" -> Fpu!FloatAgrees
      [] part = "mem" -> Mem!MemAgrees
      [] OTHER -> TRUE
\* JitFunc: a compiled body behaves as the interpreter says.
EnginesAgree == part = "func" => Func!EnginesAgree
\* WasmDecode: an encoded module is decoded exactly, a cut one refused.
DecodeExact == part = "decode" => Decode!DecodeExact

\* Packages: what a manager installs was signed by a key it trusts.
AcceptedIsSigned == part = "package" => Packages!AcceptedIsSigned

\* Terminal: the cursor and the screens stay within their bounds.
ScreenHolds == part = "terminal" => Terminal!ScreenHolds
\* Terminal: no change of the grid is left undrawn.
NothingUnseen == part = "terminal" => Terminal!NothingUnseen

\* Packets: what is built parses to what it was built from, and damaged or
\* truncated messages are refused.
PacketsSurvive == part = "packet" => Packets!BuiltIsParsed /\ Packets!DamageIsRejected

\* UsbRing: completions are the accepted transfers, whole and in order.
TransfersAreWhole == part = "usb" => Usb!TransfersAreWhole

\* Bluetooth: a cycle that ends well has read the first reported peer.
GattReadIsRight == part = "bt" => Bt!GattReadIsRight
=============================================================================
