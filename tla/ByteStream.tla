----------------------------- MODULE ByteStream -----------------------------
(***************************************************************************)
(* What one direction of a stream promises its applications: the reader    *)
(* gets the units 1, 2, 3 ... that the writer wrote, each once and in      *)
(* order, and a graceful close completes only after all that was written   *)
(* before it was asked for.                                                *)
(***************************************************************************)
EXTENDS Naturals, Sequences

VARIABLES
  written,      \* number of units the writer passed to Send
  delivered,    \* the units handed to the reader, in order
  owed,         \* units written before the writer asked for a close
  closed        \* that close has completed

vars == <<written, delivered, owed, closed>>

Init == written = 0 /\ delivered = <<>> /\ owed = 0 /\ closed = FALSE

Write ==
  /\ written' > written
  /\ UNCHANGED <<delivered, owed, closed>>

Deliver ==
  /\ UNCHANGED <<written, owed, closed>>
  /\ Len(delivered') \in Len(delivered) + 1 .. written
  /\ delivered' = delivered \o [i \in 1 .. Len(delivered') - Len(delivered) |->
                                  Len(delivered) + i]

\* A close with nothing left to deliver completes at once.
AskToClose ==
  /\ owed' = written
  /\ owed' # owed \/ closed' # closed
  /\ closed' \in (IF Len(delivered) = written THEN BOOLEAN ELSE {FALSE})
  /\ UNCHANGED <<written, delivered>>

Close ==
  /\ ~closed /\ closed'
  /\ Len(delivered) >= owed
  /\ UNCHANGED <<written, delivered, owed>>

\* What is written after a close may fail and abort the stream.
Abort ==
  /\ closed /\ ~closed'
  /\ UNCHANGED <<written, delivered, owed>>

Next == Write \/ Deliver \/ AskToClose \/ Close \/ Abort

Spec == Init /\ [][Next]_vars
=============================================================================
