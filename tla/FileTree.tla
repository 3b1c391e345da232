----------------------------- MODULE FileTree ------------------------------
(***************************************************************************)
(* What a file store promises (the store interface of                      *)
(* services/fs/server.go): a tree of directories and files, changed by     *)
(* operations that take effect at once or not at all.  A tree is a         *)
(* function from the paths that exist to nodes; a path is a sequence of    *)
(* names and the root, the empty path, is implicit.                        *)
(***************************************************************************)
EXTENDS Naturals, Sequences

\* The directory a path is in, and whether q is p or below it.
Parent(p) == SubSeq(p, 1, Len(p) - 1)
IsUnder(q, p) == Len(p) <= Len(q) /\ SubSeq(q, 1, Len(p)) = p

Dir == [kind |-> "dir", bytes |-> <<>>]
File(bytes) == [kind |-> "file", bytes |-> bytes]

Has(t, p) == p \in DOMAIN t
IsDir(t, p) == p = <<>> \/ (Has(t, p) /\ t[p].kind = "dir")
IsFile(t, p) == Has(t, p) /\ t[p].kind = "file"
ParentOk(t, p) == IsDir(t, Parent(p))
IsEmptyDir(t, p) == \A q \in DOMAIN t : q = p \/ ~IsUnder(q, p)

With(t, p, node) == [q \in DOMAIN t \cup {p} |-> IF q = p THEN node ELSE t[q]]
Without(t, p) == [q \in DOMAIN t \ {p} |-> t[q]]

Zeros(n) == [i \in 1 .. n |-> 0]
AtLeast(bytes, n) == IF Len(bytes) >= n THEN bytes
                                        ELSE bytes \o Zeros(n - Len(bytes))

\* POSIX growth: writing past the end leaves zeros in the gap.
Overwrite(bytes, off, new) ==
    LET wide == AtLeast(bytes, off + Len(new))
    IN  [i \in DOMAIN wide |-> IF i \in off + 1 .. off + Len(new)
                               THEN new[i - off] ELSE wide[i]]

\* May the operation o be carried out on tree t?
Allowed(t, o) ==
    /\ ParentOk(t, o.path)
    /\ CASE o.kind = "create" -> ~IsDir(t, o.path)
         [] o.kind = "mkdir"  -> ~Has(t, o.path)
         [] o.kind = "delete" -> IsFile(t, o.path) \/
                                 (Has(t, o.path) /\ IsEmptyDir(t, o.path))
         [] o.kind = "write"  -> IsFile(t, o.path)

\* The tree after o.
Done(t, o) ==
    CASE o.kind = "create" -> With(t, o.path, File(<<>>))
      [] o.kind = "mkdir"  -> With(t, o.path, Dir)
      [] o.kind = "delete" -> Without(t, o.path)
      [] o.kind = "write"  ->
            With(t, o.path, File(Overwrite(t[o.path].bytes, o.off, o.bytes)))

\* The new contents of a file without its new length.
HalfDone(t, o) ==
    LET old == t[o.path].bytes
        new == Done(t, o)[o.path].bytes
    IN  With(t, o.path, File(SubSeq(AtLeast(new, Len(old)), 1, Len(old))))

\* What a crash during o may leave: nothing of it, all of it, or, of a write
\* or a truncation, the contents without the length.
Survives(t, o) ==
    {t, Done(t, o)} \cup
    IF o.kind \in {"create", "write"} /\ IsFile(t, o.path) THEN {HalfDone(t, o)}
                                                          ELSE {}
=============================================================================
