-------------------------------- MODULE KLog --------------------------------
(***************************************************************************)
(* The kernel log (core/log.cc), the LOGDUMP operation of the registry     *)
(* (core/kernsvc.cc) and the guest's loop over it (guests/lib/registry.go, *)
(* LogAll), which the dmesg and audit commands of the shell print.         *)
(*                                                                         *)
(* The ring is written by every core and read one chunk per request, so    *)
(* it may lap a reader between two requests.  A byte stands for its offset *)
(* in the stream.  Both accesses hold log_lk (module TicketLock).          *)
(***************************************************************************)
EXTENDS Integers, Sequences

CONSTANTS
    LogSize,    \* LOG_SIZE (16384 in the code)
    Chunk,      \* bytes of the log in a reply (4000 in the code)
    MaxPush,    \* bound: bytes of one log_push
    MaxTotal    \* bound: bytes ever logged

ASSUME LogSizeAssumption == LogSize \in Nat \ {0}
ASSUME ChunkAssumption == Chunk \in Nat

VARIABLES
    log_ring,
    log_total,
    reader      \* LogAll: out, off, and whether it waits, succeeded or failed

logVars == <<log_ring, log_total, reader>>

\* What a reply holds where nobody wrote: bytes of an earlier reply.
Stale == -1

\* Where LOGDUMP puts the bytes of the log in its reply, and where LogDump
\* takes them from.
BytesPut == 24 + 4 + 20
BytesTaken == 24 + 4 + 16

Idle == [pc |-> "idle", out |-> << >>, off |-> 0, upto |-> 0]

LogInit ==
    /\ log_ring = [i \in 0 .. LogSize - 1 |-> Stale]
    /\ log_total = 0
    /\ reader = Idle

\* log_push of n bytes.
log_push(n) ==
    /\ log_total + n <= MaxTotal
    /\ log_total' = log_total + n
    /\ log_ring' =
          [i \in DOMAIN log_ring |->
              LET new == {k \in log_total .. log_total + n - 1 : k % LogSize = i}
              IN  IF new = {} THEN log_ring[i]
                              ELSE CHOOSE k \in new : \A j \in new : j <= k]
    /\ UNCHANGED reader

Least(m, n) == IF m < n THEN m ELSE n

Bytes(off, n) == [i \in 1 .. n |-> log_ring[(off + i - 1) % LogSize]]

\* The bytes log_read copies out, from the offset it reports as begin.
Copied(off) ==
    Bytes(off, Least(IF off < log_total THEN log_total - off ELSE 0, Chunk))

\* Fault: an offset that was overwritten is read all the same.
log_readAsAsked(off) == [begin |-> off, bytes |-> Copied(off)]

Retained == IF log_total > LogSize THEN log_total - LogSize ELSE 0

log_read(off) ==
    LET begin == IF off < Retained THEN Retained ELSE off
    IN  [begin |-> begin, bytes |-> Copied(begin)]

\* The Data of a LogDump: the reply from BytesTaken on.
Data(r) == [i \in 1 .. BytesPut - BytesTaken |-> Stale] \o r.bytes

\* LogAll; upto is a ghost, the length of the log at the call.
Start ==
    /\ reader.pc # "wait"
    /\ reader' = [Idle EXCEPT !.pc = "wait", !.upto = log_total]
    /\ UNCHANGED <<log_ring, log_total>>

LogDump ==
    /\ reader.pc = "wait"
    /\ LET r == log_read(reader.off)
           off == r.begin + Len(Data(r))
           last == Data(r) = << >> \/ off >= log_total
       IN  reader' = [reader EXCEPT !.out = @ \o Data(r),
                                    !.off = off,
                                    !.pc = IF last THEN "done" ELSE "wait"]
    /\ UNCHANGED <<log_ring, log_total>>

\* The reply is lost or refused: LogAll returns what it has and an error.
LogDumpFails ==
    /\ reader.pc = "wait"
    /\ reader' = [reader EXCEPT !.pc = "failed"]
    /\ UNCHANGED <<log_ring, log_total>>

LogNext ==
    \/ \E n \in 1 .. MaxPush : log_push(n)
    \/ Start
    \/ LogDump
    \/ LogDumpFails

LogSpec == LogInit /\ [][LogNext]_logVars

-----------------------------------------------------------------------------
(* Properties *)

Logged == {i \in 1 .. Len(reader.out) : reader.out[i] # Stale}

\* Whatever the ring overwrote between two requests, what LogAll collects of
\* the log is in the order it was logged and holds no byte twice.
DumpInOrder ==
    /\ \A i, j \in Logged : i < j => reader.out[i] < reader.out[j]
    /\ \A i \in Logged : reader.out[i] < log_total

\* registry.go, "LogAll fetches the full retained log from off to Total": a
\* dump that succeeded holds every byte that was logged before it began and is
\* still retained, and nothing but bytes of the log.
DumpIsLog ==
    reader.pc = "done" =>
        /\ \A b \in Retained .. reader.upto - 1 :
              \E i \in 1 .. Len(reader.out) : reader.out[i] = b
        /\ \A i \in 1 .. Len(reader.out) : reader.out[i] # Stale
=============================================================================
