---------------------------- MODULE Packages ----------------------------
(***************************************************************************)
(* How a module reaches /boot/modules.  On the host, modulesign stamps an  *)
(* abi_ver section and module-sign signs, tampers with and mis-stamps a    *)
(* file; in the guest, the package managers of two shells (services/pkg)   *)
(* verify what they are given and write it out, several WriteFile calls    *)
(* long, each of which can fail.                                           *)
(*                                                                         *)
(* A module is the sequence of its sections after the wasm header; a       *)
(* section is a record of its name and payload, and LEB sizes are not      *)
(* kept.  A signature is the tuple of the key, the message it signs (the   *)
(* version byte, then the sections) and whether its first byte is flipped; *)
(* keys sign perfectly.  A hole left by a write past the end reads as      *)
(* empty sections, which is what zero bytes decode to.                     *)
(***************************************************************************)
EXTENDS Naturals, Sequences, FiniteSets, SequencesExt

CONSTANTS Keys,       \* the key pairs genkey made
          Trusted,    \* the initial lines of /etc/trusted
          Versions,   \* versions a module is stamped with or signed for
          Builds,     \* the modules the linker produces: sequences of sections
          Managers,   \* one per shell
          Chunk,      \* the sections one WriteFile accepts
          MaxCmds     \* bound: commands run on the host

VARIABLES bench,      \* the host's file
          cmds,       \* host commands run so far
          signedBy,   \* ghost: <<key, module>> for every output of sign
          disk,       \* /boot/modules: name -> sections, of the modules present
          keyfile,    \* the keys in /etc/trusted
          mgr         \* manager -> [trusted, wasm, written, todo]

vars == <<bench, cmds, signedBy, disk, keyfile, mgr>>

Absent == <<>>
Idle == "idle"
Hole == [n |-> "", v |-> <<>>]

-----------------------------------------------------------------------------
(* The custom sections of a module.                                        *)

customSection(name, payload) == [n |-> name, v |-> payload]

Named(m, name) == {i \in DOMAIN m : m[i].n = name}

Has(m, name) == Named(m, name) # {}

FirstOf(m, name) == CHOOSE i \in Named(m, name) : \A j \in Named(m, name) : i <= j

extractCustomSection(m, name) ==
  IF Has(m, name) THEN m[FirstOf(m, name)].v ELSE Absent

\* Fault: what follows the signature is dropped with it.
stripSigSectionOn(m) ==
  IF Has(m, "sig") THEN SubSeq(m, 1, FirstOf(m, "sig") - 1) ELSE m

stripSigSection(m) ==
  IF Has(m, "sig") THEN RemoveAt(m, FirstOf(m, "sig")) ELSE m

verifyMessage(abi, m) == <<abi, stripSigSection(m)>>

Sig(key, message) == <<key, message, "intact">>

ModuleName(m) ==
  LET own == extractCustomSection(m, "module_name")
  IN IF own # Absent THEN own ELSE extractCustomSection(m, "name")

-----------------------------------------------------------------------------
(* The host tools.                                                         *)

findAbiVer(m) == SelectSeq(m, LAMBDA s : s.n # "abi_ver")

Stamped(m, ver) == Append(findAbiVer(m), customSection("abi_ver", <<ver>>))

\* module-sign keeps a module without a stamp as it is; -mismatch then stops.
replaceABIVer(m, ver) == IF Has(m, "abi_ver") THEN Stamped(m, ver) ELSE m

sign(m, key, ver, name) ==
  LET named == IF name # Absent /\ ~Has(m, "module_name")
               THEN Append(m, customSection("module_name", name)) ELSE m
  IN Append(named, customSection("sig", Sig(key, <<ver, named>>)))

Flipped(sig) ==
  [sig EXCEPT ![3] = IF @ = "intact" THEN "flipped" ELSE "intact"]

tamperSig(m) ==
  Append(stripSigSection(m),
         customSection("sig", Flipped(extractCustomSection(m, "sig"))))

verify(m, key) ==
  /\ extractCustomSection(m, "abi_ver") # Absent
  /\ extractCustomSection(m, "sig")
       = Sig(key, <<extractCustomSection(m, "abi_ver")[1], stripSigSection(m)>>)

HostCommand(out) ==
  /\ cmds < MaxCmds
  /\ cmds' = cmds + 1
  /\ bench' = out
  /\ UNCHANGED <<disk, keyfile, mgr>>

Stamp(ver) == HostCommand(Stamped(bench, ver)) /\ UNCHANGED signedBy

Sign(key, ver, name) ==
  /\ HostCommand(sign(bench, key, ver, name))
  /\ signedBy' = signedBy \cup {<<key, bench'>>}

Mismatch ==
  /\ Has(bench, "abi_ver")
  /\ LET modified == replaceABIVer(stripSigSection(bench), "1")
     IN HostCommand(sign(modified, "fresh", "1",
                         extractCustomSection(modified, "module_name")))
  /\ UNCHANGED signedBy

Tamper ==
  /\ Has(bench, "sig")
  /\ HostCommand(tamperSig(bench))
  /\ UNCHANGED signedBy

Rebuild(m) == HostCommand(m) /\ UNCHANGED signedBy

-----------------------------------------------------------------------------
(* The package manager.                                                    *)

ensureKeys(g) == IF mgr[g].trusted # {} THEN mgr[g].trusted ELSE keyfile

Verifies(m, keys) ==
  /\ extractCustomSection(m, "abi_ver") # Absent
  /\ \E key \in keys :
       extractCustomSection(m, "sig")
         = Sig(key, verifyMessage(extractCustomSection(m, "abi_ver")[1], m))

Put(name, m) ==
  [x \in DOMAIN disk \cup {name} |-> IF x = name THEN m ELSE disk[x]]

\* What the file holds after a write at off: POSIX growth, a gap reads zero.
WriteFile(m, off, data) ==
  LET kept == IF Len(m) < off THEN m \o [i \in 1..(off - Len(m)) |-> Hole] ELSE m
  IN SubSeq(kept, 1, off) \o data \o SubSeq(kept, off + Len(data) + 1, Len(kept))

\* Verify reads the keys first, so they stay loaded even when it refuses.
Refuse(g) ==
  /\ mgr[g].todo = Idle
  /\ ~Verifies(bench, ensureKeys(g)) \/ ModuleName(bench) = Absent
  /\ mgr' = [mgr EXCEPT ![g].trusted = ensureKeys(g)]
  /\ UNCHANGED <<bench, cmds, signedBy, disk, keyfile>>

\* Verify, name, and the Create that truncates; Update also wants the file.
Begin(g, update) ==
  /\ mgr[g].todo = Idle
  /\ Verifies(bench, ensureKeys(g))
  /\ ModuleName(bench) # Absent
  /\ update => ModuleName(bench) \in DOMAIN disk
  /\ disk' = Put(ModuleName(bench), <<>>)
  /\ mgr' = [mgr EXCEPT ![g] = [trusted |-> ensureKeys(g), wasm |-> bench,
                                written |-> 0, todo |-> "write"]]
  /\ UNCHANGED <<bench, cmds, signedBy, keyfile>>

Install(g) == Begin(g, FALSE)

Update(g) == Begin(g, TRUE)

\* One WriteFile of the loop; the file may be gone, and then it fails.
WriteNext(g) ==
  LET it == mgr[g]
      name == ModuleName(it.wasm)
      upTo == IF it.written + Chunk < Len(it.wasm) THEN it.written + Chunk ELSE Len(it.wasm)
  IN /\ it.todo = "write"
     /\ name \in DOMAIN disk
     /\ disk' = Put(name, WriteFile(disk[name], it.written,
                                    SubSeq(it.wasm, it.written + 1, upTo)))
     /\ mgr' = [mgr EXCEPT ![g].written = upTo,
                           ![g].todo = IF upTo = Len(it.wasm) THEN Idle ELSE @]
     /\ UNCHANGED <<bench, cmds, signedBy, keyfile>>

WriteFails(g) ==
  /\ mgr[g].todo = "write"
  /\ mgr' = [mgr EXCEPT ![g].todo = Idle]
  /\ UNCHANGED <<bench, cmds, signedBy, disk, keyfile>>

RemoveModule(name) ==
  /\ disk' = [x \in DOMAIN disk \ {name} |-> disk[x]]
  /\ UNCHANGED <<bench, cmds, signedBy, keyfile, mgr>>

\* An administrator rewrites /etc/trusted; what a manager loaded, it keeps.
EditKeys(keys) ==
  /\ keyfile' = keys
  /\ UNCHANGED <<bench, cmds, signedBy, disk, mgr>>

\* The shell died: its manager, with the keys it had loaded, starts over.
Restart(g) ==
  /\ mgr' = [mgr EXCEPT ![g] = [trusted |-> {}, wasm |-> <<>>, written |-> 0, todo |-> Idle]]
  /\ UNCHANGED <<bench, cmds, signedBy, disk, keyfile>>

-----------------------------------------------------------------------------
Init ==
  /\ bench \in Builds
  /\ cmds = 0
  /\ signedBy = {}
  /\ disk = <<>>
  /\ keyfile = Trusted
  /\ mgr = [g \in Managers |-> [trusted |-> {}, wasm |-> <<>>, written |-> 0, todo |-> Idle]]

Next ==
  \/ \E ver \in Versions : Stamp(ver)
  \/ \E key \in Keys, ver \in Versions : Sign(key, ver, <<"m">>)
  \/ Mismatch
  \/ Tamper
  \/ \E m \in Builds : Rebuild(m)
  \/ \E g \in Managers :
       Refuse(g) \/ Install(g) \/ Update(g) \/ WriteNext(g) \/ WriteFails(g) \/ Restart(g)
  \/ \E keys \in SUBSET Trusted : EditKeys(keys)
  \/ \E name \in DOMAIN disk : RemoveModule(name)

Spec == Init /\ [][Next]_vars

-----------------------------------------------------------------------------
\* A file under /boot/modules that verifies is, section for section, what a
\* trusted key signed with the version it carries: no crash or failed write
\* in the middle of an install, and no two managers writing one name at once,
\* leaves a mixture that passes (pkg.go verifyMessage, Install, Update).
AcceptedIsSigned ==
  \A name \in DOMAIN disk :
    Verifies(disk[name], Trusted) =>
      \E key \in Trusted : <<key, disk[name]>> \in signedBy

\* The managers and module-sign agree on every file they may be shown, and
\* after a stamp the one version a reader finds is the version stamped, even
\* when the file came with several (modulesign findAbiVer; pkg.go Verify).
ReadersAgree ==
  /\ \A m \in {bench} \cup {disk[name] : name \in DOMAIN disk}, key \in Keys :
       verify(m, key) <=> Verifies(m, {key})
  /\ \A ver \in Versions :
       extractCustomSection(Stamped(bench, ver), "abi_ver") = <<ver>>
=============================================================================
