------------------------- MODULE DocumentLifecycle -------------------------
(***************************************************************************)
(* What an uploaded document's status promises whoever polls it: it is     *)
(* queued, processed and ends completed, failed or cancelled; only a       *)
(* retry, never of a completed one, starts it over; its entry is linked    *)
(* once, as it completes.                                                  *)
(***************************************************************************)
CONSTANTS Entry, NoEntry

VARIABLES state, linked

life == <<state, linked>>

Init == state = "absent" /\ linked = NoEntry

Move(from, to) == state \in from /\ state' = to

Queue   == Move({"absent", "pending", "failed", "cancelled"}, "pending") /\ UNCHANGED linked
Process == Move({"pending"}, "processing") /\ UNCHANGED linked
Stop    == Move({"processing"}, "failed") /\ UNCHANGED linked
Cancel  == Move({"pending", "processing"}, "cancelled") /\ UNCHANGED linked

Complete ==
  /\ Move({"processing"}, "completed")
  /\ linked = NoEntry
  /\ linked' \in Entry

Delete ==
  /\ Move({"pending", "processing", "completed", "failed", "cancelled"}, "gone")
  /\ linked' = NoEntry

Next == Queue \/ Process \/ Stop \/ Cancel \/ Complete \/ Delete

Spec == Init /\ [][Next]_life
=============================================================================
