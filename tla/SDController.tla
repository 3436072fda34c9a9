---------------------------- MODULE SDController ----------------------------
(***************************************************************************)
(* The SD card controller of the card (SDCard.vhd), the registers through  *)
(* which the Amiga drives it (va2000.v, 'h60 to 'h70) and the memory card  *)
(* behind it.  The states of the controller's machine that move single     *)
(* bits are one phase here; the phases are told apart by what the host can *)
(* see, busy and the handshake.                                            *)
(*                                                                         *)
(*   start   START_INIT and REPORT_ERROR     init   DESELECT, 160 clocks   *)
(*   cmd0    SEND_CMD0 and its response      acmd   CMD8, CMD55, ACMD41    *)
(*   wait    WAIT_FOR_HOST_RW                cmd    a command, its R1      *)
(*   token   RD_BLK before the start token   rd, wr a block, byte by byte  *)
(*   prog    the data response and WR_WAIT                                 *)
(***************************************************************************)
EXTENDS Naturals, Sequences

CONSTANTS
  Addresses,  \* block numbers a host may ask for
  Blocks,     \* block numbers the memory card has
  LoSize,     \* number of values of the addr_lo register (2^16)
  DataBytes,  \* bytes of a block without its CRC (512)
  OldCells,   \* what the memory card holds at first
  Noise       \* what an empty socket sends

ASSUME SDAssumption ==
  /\ Addresses \subseteq Nat /\ Blocks \subseteq Addresses
  /\ LoSize \in Nat \ {0} /\ DataBytes \in Nat \ {0}

VARIABLES
  reg,      \* the registers the host writes
  phase,    \* where the controller's machine is
  hs,       \* hndShk_r, the controller's half of the handshake
  op,       \* the command the controller performs
  addr,     \* the block it performs it on
  cnt,      \* bytes of the block moved so far
  buf,      \* the bytes the host has handed over for a write
  dataOut,  \* data_o, the last byte received
  card,     \* "out" of the socket, "idle", or "ready" after ACMD41
  cells,    \* the contents of the memory card
  lost      \* the blocks the memory card was handed and did not store

controllerVars == <<phase, hs, op, addr, cnt, buf, dataOut>>
cardVars == <<card, cells, lost>>
sdVars == <<reg, controllerVars, cardVars>>

CrcBytes == 2
TotalBytes == DataBytes + CrcBytes
(* A CRC is taken to tell any two contents apart; its two bytes travel one *)
(* after the other.                                                        *)
CrcByte(data, half) == <<data, half>>
(* Byte k of a block as the card sends it and the host hands it over. *)
ByteOf(data, k) == IF k <= DataBytes THEN data[k] ELSE CrcByte(data, k - DataBytes)

Phases == {"start", "init", "cmd0", "acmd", "wait", "cmd", "token", "rd", "wr", "prog"}
Busy == phase \in {"start", "cmd0", "token", "rd", "wr", "prog"}

(* The address registers joined: {sd_addr_in}. *)
AddrIn == reg.addr_hi * LoSize + reg.addr_lo

(* The controller proceeds only while both halves of the handshake are low. *)
HandsDown == ~hs /\ ~reg.handshake

(* The controller's next step needs nothing but its own clock or an answer *)
(* a memory card gives within a few bytes.                                 *)
Prompt ==
  \/ phase \in {"start", "init"}
  \/ phase = "cmd0" /\ card # "out"
  \/ hs /\ reg.handshake
  \/ /\ HandsDown
     /\ \/ phase = "wait" /\ (reg.read \/ reg.write)
        \/ phase = "cmd" /\ card = "ready"
        \/ phase \in {"rd", "wr"}
        \/ phase = "prog" /\ card # "ready"

(* What becomes of the block in buf once it has been sent: stored, or      *)
(* rejected or missed.  The controller never looks at the card's verdict.  *)
Settle ==
  \/ /\ card = "ready" /\ addr \in Blocks
     /\ cells' = [cells EXCEPT ![addr] = SubSeq(buf, 1, DataBytes)]
     /\ lost' = lost \ {addr}
  \/ lost' = lost \cup ({addr} \cap Blocks) /\ UNCHANGED cells

(* The host holds reset: the machine restarts and forgets its block; a     *)
(* block being programmed meets one of its ends.  START_INIT lowers the    *)
(* handshake before the host can read it again.                            *)
ResetController_KeepsBytes ==
  /\ phase' = "start" /\ hs' = FALSE /\ dataOut' = Noise
  /\ IF phase = "prog" THEN Settle ELSE UNCHANGED <<cells, lost>>
  /\ cnt' = 0 /\ UNCHANGED <<buf, op, addr, card>>
ResetController ==
  /\ phase' = "start" /\ hs' = FALSE /\ dataOut' = Noise
  /\ IF phase = "prog" THEN Settle ELSE UNCHANGED <<cells, lost>>
  /\ cnt' = 0 /\ buf' = <<>> /\ UNCHANGED <<op, addr, card>>
-----------------------------------------------------------------------------
GoTo(p) == phase' = p /\ UNCHANGED <<hs, op, addr, cnt, buf, dataOut>>

StartInit == phase = "start" /\ GoTo("init") /\ UNCHANGED cardVars
SendCmd0 == phase = "init" /\ GoTo("cmd0") /\ UNCHANGED cardVars
Cmd0Answered ==
  /\ phase = "cmd0" /\ card # "out" /\ GoTo("acmd")
  /\ card' = "idle" /\ UNCHANGED <<cells, lost>>
(* ACMD41 is repeated until the card is ready; any error starts over. *)
Initialised ==
  /\ phase = "acmd" /\ card = "idle" /\ GoTo("wait")
  /\ card' = "ready" /\ UNCHANGED <<cells, lost>>
InitError == phase = "acmd" /\ card = "idle" /\ GoTo("start") /\ UNCHANGED cardVars

(* A read has priority over a write; the address is taken with the command. *)
TakeCommand ==
  /\ phase = "wait" /\ HandsDown /\ (reg.read \/ reg.write)
  /\ phase' = "cmd" /\ addr' = AddrIn
  /\ op' = IF reg.read THEN "read" ELSE "write"
  /\ UNCHANGED <<hs, cnt, buf, dataOut>> /\ UNCHANGED cardVars

(* R1 only has to arrive, its bits are not looked at. *)
Response ==
  /\ phase = "cmd" /\ HandsDown /\ card = "ready"
  /\ GoTo(IF op = "read" THEN "token" ELSE "wr") /\ UNCHANGED cardVars

StartToken ==
  /\ phase = "token" /\ HandsDown /\ card = "ready" /\ addr \in Blocks
  /\ GoTo("rd") /\ UNCHANGED cardVars
ErrorToken ==
  /\ phase = "token" /\ HandsDown /\ card = "ready"
  /\ GoTo("start") /\ UNCHANGED cardVars

(* A byte has come from the card: show it and raise the handshake. *)
OfferByte ==
  /\ phase = "rd" /\ HandsDown /\ cnt < TotalBytes
  /\ dataOut' = IF card = "ready" THEN ByteOf(cells[addr], cnt + 1) ELSE Noise
  /\ cnt' = cnt + 1 /\ hs' = TRUE
  /\ UNCHANGED <<phase, op, addr, buf>> /\ UNCHANGED cardVars
ReadDone ==
  /\ phase = "rd" /\ HandsDown /\ cnt = TotalBytes
  /\ phase' = "wait" /\ cnt' = 0 /\ UNCHANGED <<hs, op, addr, buf, dataOut>> /\ UNCHANGED cardVars

(* A byte is wanted from the host: raise the handshake. *)
AskByte ==
  /\ phase = "wr" /\ HandsDown /\ cnt < TotalBytes /\ hs' = TRUE
  /\ UNCHANGED <<phase, op, addr, cnt, buf, dataOut>> /\ UNCHANGED cardVars
(* The host has raised its half: take data_i, lower ours.  A byte the host *)
(* reads without an offer is an old one and counts as Noise.               *)
Acknowledged ==
  /\ hs /\ reg.handshake /\ hs' = FALSE /\ dataOut' = Noise
  /\ IF phase = "wr" THEN cnt' = cnt + 1 /\ buf' = Append(buf, reg.data_in)
     ELSE UNCHANGED <<cnt, buf>>
  /\ UNCHANGED <<phase, op, addr>> /\ UNCHANGED cardVars
WriteDone ==
  /\ phase = "wr" /\ HandsDown /\ cnt = TotalBytes
  /\ GoTo("prog") /\ UNCHANGED cardVars
Programmed ==
  /\ phase = "prog" /\ HandsDown /\ Settle
  /\ phase' = "wait" /\ cnt' = 0 /\ buf' = <<>> /\ UNCHANGED <<hs, op, addr, dataOut, card>>

ControllerStep ==
  /\ \/ StartInit \/ SendCmd0 \/ Cmd0Answered \/ Initialised \/ InitError
     \/ TakeCommand \/ Response \/ StartToken \/ ErrorToken
     \/ OfferByte \/ ReadDone \/ AskByte \/ Acknowledged \/ WriteDone \/ Programmed
  /\ UNCHANGED reg

(* The card is pulled out, a card is put in.  It has to be initialised     *)
(* again before it answers a command other than CMD0.                      *)
Remove == card # "out" /\ card' = "out" /\ UNCHANGED <<cells, lost, reg, controllerVars>>
Insert == card = "out" /\ card' = "idle" /\ UNCHANGED <<cells, lost, reg, controllerVars>>

SDInit ==
  /\ reg = [read |-> FALSE, write |-> FALSE, handshake |-> FALSE,
            addr_hi |-> 0, addr_lo |-> 0, data_in |-> Noise]
  /\ phase = "start" /\ hs = FALSE /\ op = "read" /\ addr = 0 /\ cnt = 0
  /\ buf = <<>> /\ dataOut = Noise
  /\ card \in {"out", "idle"} /\ lost = {}
  /\ cells = OldCells
=============================================================================
