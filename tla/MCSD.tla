-------------------------------- MODULE MCSD --------------------------------
(***************************************************************************)
(* Instances of SDDevice for TLC: a memory card of two blocks among the    *)
(* addresses a host can name, blocks of two bytes, callers who write two   *)
(* contents over the same blocks and read them back.  A transfer of two    *)
(* blocks crosses from one addr_hi to the next.                            *)
(***************************************************************************)
EXTENDS SDDevice, FiniteSets

CONSTANTS A, B, Old

MCAddresses == 0..5
MCBlocks == {3, 4}
Content(tag, n) == [k \in 1..DataBytes |-> <<tag, n, k>>]
MCTagBlock(tag, n) == Content(tag, n)
MCOldCells == [b \in MCBlocks |-> Content(Old, b)]

Rw(command, block, length, tag) ==
  [command |-> command, offset |-> block * DataBytes, length |-> length, tag |-> tag]
Scsi(scsi, cmdlen, block, blocks, length, tag) ==
  [command |-> "HD_SCSICMD", scsi |-> scsi, cmdlen |-> cmdlen, block |-> block, blocks |-> blocks,
   length |-> length, tag |-> tag, page |-> 0]
Sense(page, length) == [Scsi("MODE_SENSE", 6, 0, 0, length, A) EXCEPT !.page = page]
Plain(command, length) == [command |-> command, length |-> length]

Transfers ==
  {Rw("CMD_WRITE", 3, 2 * DataBytes, A), Scsi("WRITE6", 6, 4, 1, DataBytes, B),
   Rw("CMD_READ", 3, 2 * DataBytes, B)}
Refused ==
  {Rw("CMD_READ", 0, 1, A), Rw("CMD_WRITE", 0, DataBytes, "null"), Scsi("READ6", 5, 0, 1, 8, A),
   Scsi("WRITE6", 6, 30, 1, 8, A), Scsi("READ6", 6, 0, 2, DataBytes, A)}
Informing ==
  {Scsi("INQUIRY", 6, 0, 0, 44, A), Scsi("READ_CAPACITY", 10, 0, 0, 8, A), Sense(3, 36), Sense(4, 36)}
Plains == {Plain("TD_MOTOR", 1), Plain("TD_CHANGENUM", 0), Plain("CMD_UPDATE", 0)}

(* Callers who make two of the transfers again and again, and callers who   *)
(* ask, abort and are refused.                                              *)
MCCallers ==
  {[requests |-> p, abort |-> FALSE] : p \in {q \in SUBSET Transfers : Cardinality(q) = 2}}
  \cup {[requests |-> Refused \cup Informing \cup Plains, abort |-> TRUE]}
=============================================================================
