----------------------------- MODULE MCStorage ------------------------------
(***************************************************************************)
(* The two file systems of the fs server, KFS and FAT16, and the kernel's  *)
(* tables, heap and log, each at its own bounds: a behaviour belongs to    *)
(* one of them.                                                            *)
(***************************************************************************)
EXTENDS Kernel, KLog, Heap

VARIABLES
    part,
    kSuper, kLog, kWOff, kMounted, kMem, kRecs, kOp, kTree, kLost, kPast, kFaults,
    fFs, fTree, fResult, fDone

CONSTANTS Parts, LogEnd, Ops

coreVars == <<kernelVars, logVars, heapVars>>
kfsVars == <<kSuper, kLog, kWOff, kMounted, kMem, kRecs, kOp, kTree, kLost, kPast, kFaults>>
fatVars == <<fFs, fTree, fResult, fDone>>
vars == <<part, coreVars, kfsVars, fatVars>>

-----------------------------------------------------------------------------
Kfs == INSTANCE Kfs WITH
    Paths <- {<<"f">>, <<"d">>, <<"d", "f">>},
    Writes <- {[off |-> 1, bytes |-> <<1>>], [off |-> 0, bytes |-> <<2>>]},
    MaxIno <- 3, MaxFaults <- 2, CPEvery <- 3,
    super <- kSuper, log <- kLog, wOff <- kWOff, mounted <- kMounted, mem <- kMem, recs <- kRecs, op <- kOp,
    tree <- kTree, lost <- kLost, past <- kPast, faults <- kFaults

\* Names that are 8.3 names, one that is after folding, and two long ones that
\* have the same short form.
Name(id, fold, stem, fits, upper, valid, slots) ==
    [id |-> id, fold |-> fold, stem |-> stem, fits |-> fits, upper |-> upper, valid |-> valid, slots |-> slots]
A == Name("A", "a", "A", TRUE, TRUE, TRUE, 1)
B == Name("b", "b", "B", TRUE, FALSE, TRUE, 1)
D == Name("D", "d", "D", TRUE, TRUE, TRUE, 1)
E == Name("E", "e", "E", TRUE, TRUE, TRUE, 1)
M1 == Name("module1.wasm", "m1", "MODULE.WAS", FALSE, FALSE, FALSE, 1)
M2 == Name("module2-long.wasm", "m2", "MODULE.WAS", FALSE, FALSE, FALSE, 2)

File(p, b) == [path |-> p, kind |-> "file", bytes |-> b]
MCSources == {<<>>, <<File(<<A>>, <<1, 2, 1>>), File(<<D, M1>>, <<2>>), File(<<D, M2>>, <<1, 1>>), File(<<D, B>>, <<>>)>>}

Op(k, p) == [kind |-> k, path |-> p, off |-> 0, bytes |-> <<>>]
Wr(p, o, b) == [kind |-> "write", path |-> p, off |-> o, bytes |-> b]
\* Operations on the names as they are stored; no directory is deleted.
MCOps == {Op("create", <<A>>), Op("create", <<D, A>>), Op("mkdir", <<D>>), Op("mkdir", <<D, E>>),
          Op("delete", <<A>>), Op("delete", <<D, A>>),
          Wr(<<A>>, 0, <<1>>), Wr(<<A>>, 4, <<2>>), Wr(<<D, A>>, 0, <<2, 1>>), Wr(<<D, A>>, 4, <<1>>),
          Wr(<<D>>, 0, <<1>>), Wr(<<D, M1>>, 1, <<1, 2>>)}
\* A directory's cluster becomes a file's.
MCDirOps == {Op("mkdir", <<A>>), Op("delete", <<A>>), Op("create", <<A>>), Wr(<<A>>, 0, <<1>>)}

\* Nine clusters of two bytes or four directory slots.
Fat == INSTANCE FatStore WITH
    Clusters <- 9, CB <- 2, SC <- 4, RootSlots <- 5, MaxOps <- 4, Sources <- MCSources,
    fs <- fFs, tree <- fTree, result <- fResult, done <- fDone

-----------------------------------------------------------------------------
TablesStep == part = "tables" /\ KernelNext /\ UNCHANGED <<logVars, heapVars>>
LogStep == part = "log" /\ LogNext /\ UNCHANGED <<kernelVars, heapVars>>
HeapStep == part = "heap" /\ HeapNext /\ UNCHANGED <<kernelVars, logVars>>
CoreStep == (TablesStep \/ LogStep \/ HeapStep) /\ UNCHANGED <<part, kfsVars, fatVars>>

Init ==
    /\ part \in Parts
    /\ KernelInit /\ LogInit /\ HeapInit /\ Kfs!Init /\ Fat!Init
    /\ part # "fat" => fTree = [p \in {} |-> <<>>]

KfsStep == part = "kfs" /\ Kfs!Next /\ UNCHANGED <<part, coreVars, fatVars>>
FatStep == part = "fat" /\ Fat!Next /\ UNCHANGED <<part, coreVars, kfsVars>>
Next == CoreStep \/ KfsStep \/ FatStep

Spec == Init /\ [][Next]_vars

\* Kfs: reads return what was written.
ReadsSeeWrites == part = "kfs" => Kfs!ReadsSeeWrites
\* Kfs: a mount restores the promised tree, until something was deleted.
RestoredUntilDelete == Kfs!RestoredUntilDelete
\* Kfs: the same without the exception.
RestoredExactly == Kfs!RestoredExactly

\* FatStore: lookups, lists and reads give the tree the operations built.
StoreIsTree == part = "fat" => Fat!StoreIsTree
\* FatStore: so does the device alone.
DeviceIsTree == part = "fat" => Fat!DeviceIsTree
=============================================================================
