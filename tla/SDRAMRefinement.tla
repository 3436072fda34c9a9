--------------------------- MODULE SDRAMRefinement ---------------------------
(***************************************************************************)
(* The controller, driven with single accesses, implements SDRAMServer.    *)
(***************************************************************************)
EXTENDS SDRAMController

\* A transaction is queued from its acceptance until its command is put on
\* the pins; read_1 and write_1 are the edges that put it there.
Queued == got_transaction \/ state \in {"read_1", "write_1"}

\* The word that belongs to the 1 at a position of data_ready_delay.
Slot(i) == IF i \notin data_ready_delay THEN <<>>
           ELSE IF i = 3 THEN <<ChipOut>> ELSE <<dq[3 - i]>>

Server == INSTANCE SDRAMServer WITH
  FirstContents <- InitMem,
  Nothing  <- NoData,
  contents <- MemNow,
  queue    <- IF Queued THEN <<save>> ELSE <<>>,
  owed     <- Slot(0) \o Slot(1) \o Slot(2) \o Slot(3),
  handed   <- IF data_out_ready THEN data_out ELSE NoData

(* Every transaction the controller accepts is performed on the chip once, *)
(* in the order of acceptance and on the cell it named, although WRITE and *)
(* READ stay on the pins for three and four cycles, rows are opened and    *)
(* closed in between and the next transaction is accepted meanwhile; every *)
(* read is answered once, in order, with the word the cell held.           *)
ServesInOrder == Server!ServerSpec

(* A transaction that was accepted does not wait for ever.                 *)
ReadyAgain == []<>ready_for_new
=============================================================================
