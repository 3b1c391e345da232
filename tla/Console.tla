----------------------------- MODULE Console -----------------------------
(***************************************************************************)
(* The relay of services/console/console.go: datagrams from the "console"  *)
(* port to the serial line.  A datagram is a shell redraw (it starts with  *)
(* '\r' and may end with '\n'), a log line with or without a tag, or one   *)
(* that is only line ends.  The serial line is the text of its last row    *)
(* and the rows above it.                                                  *)
(***************************************************************************)
EXTENDS Naturals, Sequences

CONSTANTS Datagrams,  \* records [kind, text, nl]
          MaxRows     \* bound: rows written

VARIABLES row,        \* what stands on the cursor's row
          rows,       \* the rows above it
          prevEcho,   \* the last thing written is an unfinished redraw
          lastEcho    \* the last redraw

consoleVars == <<row, rows, prevEcho, lastEcho>>

None == [kind |-> "none", text |-> "", nl |-> FALSE]

\* Text on the serial line: a redraw starts at column 0 and covers the row.
Line(text) == [row |-> "", above |-> <<text>>]
Redraw(d) == IF d.nl THEN Line(d.text) ELSE [row |-> d.text, above |-> <<>>]

\* What render gives for a log line: itself when tagged, else with the
\* console's tag, nothing when only line ends are left of it.
Rendered(d) == CASE d.kind = "tagged" -> <<d.text>>
                 [] d.kind = "plain" -> <<"[console] " \o d.text>>
                 [] d.kind = "blank" -> <<>>

\* Fault: the prompt is not drawn again after a log line.
AfterLineBare(d) == [row |-> "", echo |-> FALSE]

\* After a log line over an unfinished redraw the redraw is repeated.
AfterLine(d) ==
  IF prevEcho /\ lastEcho # None
  THEN [row |-> Redraw(lastEcho).row, echo |-> ~lastEcho.nl]
  ELSE [row |-> "", echo |-> FALSE]

Relay(d) ==
  /\ Len(rows) < MaxRows
  /\ IF d.kind = "echo"
     THEN /\ row' = Redraw(d).row
          /\ rows' = rows \o Redraw(d).above
          /\ prevEcho' = ~d.nl
          /\ lastEcho' = d
     ELSE /\ rows' = rows \o (IF prevEcho THEN <<row>> ELSE <<>>)
                          \o Rendered(d)
          /\ row' = AfterLine(d).row
          /\ prevEcho' = AfterLine(d).echo
          /\ UNCHANGED lastEcho

ConsoleInit ==
  /\ row = ""
  /\ rows = <<>>
  /\ prevEcho = FALSE
  /\ lastEcho = None

ConsoleNext == \E d \in Datagrams : Relay(d)

ConsoleSpec == ConsoleInit /\ [][ConsoleNext]_consoleVars

-----------------------------------------------------------------------------
\* Whatever log lines arrive while the user is typing, the row the cursor is
\* on is the shell's last redraw: "the cursor is never left without a "> "
\* leader" (console.go Serve).
PromptStays ==
  lastEcho # None /\ ~lastEcho.nl => row = lastEcho.text
=============================================================================
