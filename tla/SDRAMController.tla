--------------------------- MODULE SDRAMController ---------------------------
(***************************************************************************)
(* The SDRAM controller of the card (SDRAM_Controller_v.v) together with   *)
(* the part of the external SDRAM chip that decides whether its commands   *)
(* are legal and what they do.  One step of the module is one rising edge  *)
(* of clk: every register of the controller is assigned from the values    *)
(* before the edge, and the chip has obeyed the command that was on its    *)
(* pins (iob_command) since the previous edge.                             *)
(*                                                                         *)
(* The client's outputs are the argument `in' of the step: a record        *)
(*   [reset, enable, wr, bank, row, col, lanes, data, next, burst]         *)
(* of the wires reset, cmd_enable, cmd_wr, the three fields of             *)
(* cmd_address, cmd_byte_enable, cmd_data_in, cmd_data_in_next and         *)
(* burst_size.  Spec drives them with any member of the constant Inputs at *)
(* every edge; RamArbiter drives them from the arbiter's registers.        *)
(***************************************************************************)
EXTENDS Integers, Sequences

CONSTANTS
  NBanks, NRows,  \* banks of the chip and rows of a bank (4 and 8192)
  LastCol,        \* last column of a row ('h1ff)
  Lanes,          \* byte lanes of a word
  Byte,           \* what a lane of a word can hold
  InitMem,        \* contents of the chip before the first command
  PowerUpMode,    \* burst length in the chip's mode register at power-up
  Inputs          \* the client outputs Spec lets the controller see

Banks == 0 .. NBanks - 1
Rows  == 0 .. NRows - 1
Cols  == 0 .. LastCol
Words == [Lanes -> Byte]
Cells == Banks \X Rows \X Cols
Modes == {0, 1, 7}      \* burst lengths the client selects: 1, 2, full page

CONSTANTS
  Unset,    \* not a burst length: a mode register that was never loaded
  Closed,   \* not a row: the bank has no open row
  NoData    \* not a word: the chip does not drive the data bus

ClientInputs ==
  [reset : BOOLEAN, enable : BOOLEAN, wr : BOOLEAN,
   bank : Banks, row : Rows, col : Cols,
   lanes : SUBSET Lanes, data : Words, next : Words, burst : Modes]

ASSUME GeometryAssumption ==
  /\ NBanks \in Nat \ {0}
  /\ NRows \in Nat \ {0}
  /\ LastCol \in Nat
  /\ LastCol % 2 = 1
ASSUME ContentsAssumption ==
  /\ InitMem \in [Cells -> Words]
  /\ PowerUpMode \in Modes \cup {Unset}
ASSUME SentinelAssumption ==
  Unset \notin Modes /\ Closed \notin Rows /\ NoData \notin Words
ASSUME InputsAssumption == Inputs \subseteq ClientInputs

VARIABLES
  state, ready_for_new, got_transaction, save, can_back_to_back, burst_old,
  data_ready_delay,        \* the positions of the shift register that hold a 1
  data_out_ready, data_out, queue_empty,
  iob,                     \* command, bank, address, data, mask on the pins
  iob_data_next,
  dq_hiz,                  \* TRUE: the controller does not drive the data bus
  open_row, chip_mode, chip_stream, mem, dq    \* the chip

ctrlVars == <<state, ready_for_new, got_transaction, save, can_back_to_back,
              burst_old, data_ready_delay, data_out_ready, data_out,
              queue_empty, iob, iob_data_next, dq_hiz>>
chipVars == <<open_row, chip_mode, chip_stream, mem, dq>>
sdramVars == <<ctrlVars, chipVars>>

Transactions == [wr : BOOLEAN, bank : Banks, row : Rows, col : Cols,
                 lanes : SUBSET Lanes, data : Words, next : Words]

AnyWord == CHOOSE w \in Words : TRUE

States == {"startup", "idle_in_4", "idle_in_3", "idle_in_2", "idle_in_1",
           "idle", "open_in_2", "open_in_1", "write_1", "write_2", "write_3",
           "read_1", "read_2", "read_3", "read_4", "burst_read", "precharge"}
Commands == {"NOP", "ACTIVE", "READ", "WRITE", "TERMINATE", "PRECHARGE",
             "LOAD_MODE"}
Pins == [cmd : Commands, bank : Banks, addr : Rows \cup Cols \cup Modes,
         data : Words, lanes : SUBSET Lanes]
Idle == [kind |-> "none", bank |-> 0, col |-> 0, left |-> FALSE]
Streams == [kind : {"none", "read", "write"}, bank : Banks, col : Cols,
            left : BOOLEAN]

ControllerTypeOK ==
  /\ state \in States
  /\ ready_for_new \in BOOLEAN
  /\ got_transaction \in BOOLEAN
  /\ save \in Transactions
  /\ can_back_to_back \in BOOLEAN
  /\ burst_old \in Modes
  /\ data_ready_delay \in SUBSET (0 .. 3)
  /\ data_out_ready \in BOOLEAN
  /\ data_out \in Words \cup {NoData}
  /\ queue_empty \in BOOLEAN
  /\ iob \in Pins
  /\ iob_data_next \in Words
  /\ dq_hiz \in BOOLEAN

ChipTypeOK ==
  /\ open_row \in [Banks -> Rows \cup {Closed}]
  /\ chip_mode \in Modes \cup {Unset}
  /\ chip_stream \in Streams
  /\ mem \in [Cells -> Words]
  /\ dq \in [1 .. 3 -> Words \cup {NoData}]

(* Every register and every chip variable stays in its range.              *)
TypeOK == ControllerTypeOK /\ ChipTypeOK

-----------------------------------------------------------------------------
(* The chip: what it does with the command on the pins.  A burst of mode 1 *)
(* covers the aligned pair of columns, mode 7 the whole row, both wrapping.*)

NextCol(col, mode) == IF mode = 1
                      THEN IF col % 2 = 0 THEN col + 1 ELSE col - 1
                      ELSE IF col = LastCol THEN 0 ELSE col + 1

\* `left' says that words of the burst remain after the one at `col'.
StartStream(kind) ==
  IF chip_mode \in {1, 7}
  THEN [kind |-> kind, bank |-> iob.bank,
        col |-> NextCol(iob.addr, chip_mode), left |-> (chip_mode = 7)]
  ELSE Idle

StreamNext ==
  IF chip_stream.left
  THEN [chip_stream EXCEPT !.col = NextCol(@, chip_mode)]
  ELSE Idle

ChipStream ==
  CASE iob.cmd = "READ"  -> StartStream("read")
    [] iob.cmd = "WRITE" -> StartStream("write")
    [] iob.cmd \in {"TERMINATE", "PRECHARGE"} -> Idle
    [] OTHER -> StreamNext

\* The column a data transfer of this cycle touches, if there is one.
ReadsNow == \/ iob.cmd = "READ"
            \/ iob.cmd \in {"NOP", "ACTIVE", "LOAD_MODE"} /\ chip_stream.kind = "read"
WritesNow == \/ iob.cmd = "WRITE"
             \/ iob.cmd \in {"NOP", "ACTIVE", "LOAD_MODE"} /\ chip_stream.kind = "write"
BankNow == IF iob.cmd \in {"READ", "WRITE"} THEN iob.bank ELSE chip_stream.bank
ColNow == IF iob.cmd \in {"READ", "WRITE"} THEN iob.addr ELSE chip_stream.col
CellNow == <<BankNow, open_row[BankNow], ColNow>>

Merge(old, new, lanes) == [l \in Lanes |-> IF l \in lanes THEN new[l] ELSE old[l]]

\* The memory once the write on the pins, if any, has been obeyed.
MemNow ==
  IF WritesNow /\ open_row[BankNow] # Closed
  THEN [mem EXCEPT ![CellNow] = Merge(@, iob.data, iob.lanes)]
  ELSE mem

ChipOut == IF ReadsNow /\ open_row[BankNow] # Closed THEN mem[CellNow] ELSE NoData

Chip ==
  /\ open_row' = CASE iob.cmd = "ACTIVE"    -> [open_row EXCEPT ![iob.bank] = iob.addr]
                   [] iob.cmd = "PRECHARGE" -> [open_row EXCEPT ![iob.bank] = Closed]
                   [] OTHER -> open_row
  /\ chip_mode' = IF iob.cmd = "LOAD_MODE" THEN iob.addr ELSE chip_mode
  /\ chip_stream' = ChipStream
  /\ mem' = MemNow
  /\ dq' = [i \in 1 .. 3 |-> IF i = 1 THEN ChipOut ELSE dq[i - 1]]

-----------------------------------------------------------------------------
(* What the controller does at every edge, before the case on its state.   *)

Accepts(in) == ready_for_new /\ in.enable

Latch(in) ==
  IF Accepts(in)
  THEN /\ save' = [wr |-> in.wr, bank |-> in.bank, row |-> in.row, col |-> in.col,
                   lanes |-> in.lanes, data |-> in.data, next |-> in.next]
       /\ can_back_to_back' = (save.bank = in.bank /\ save.row = in.row)
  ELSE UNCHANGED <<save, can_back_to_back>>

\* Mutant: the shift register shifts the wrong way.
DelayLine_ShiftsUp(issue) ==
  /\ data_ready_delay' = {i + 1 : i \in data_ready_delay \ {0}}
                           \cup (IF issue THEN {3} ELSE {})
  /\ data_out_ready' = (0 \in data_ready_delay)
  /\ data_out' = IF 0 \in data_ready_delay THEN dq[3] ELSE data_out
  /\ queue_empty' = (data_ready_delay = {})

\* Mutant: the answer is taken an edge before the chip gives it.
DelayLine_Early(issue) ==
  /\ data_ready_delay' = {i - 1 : i \in data_ready_delay \ {0}}
                           \cup (IF issue THEN {2} ELSE {})
  /\ data_out_ready' = (0 \in data_ready_delay)
  /\ data_out' = IF 0 \in data_ready_delay THEN dq[3] ELSE data_out
  /\ queue_empty' = (data_ready_delay = {})

\* Read data leaves the delay line; `issue' shifts a new read in.
DelayLine(issue) ==
  /\ data_ready_delay' = {i - 1 : i \in data_ready_delay \ {0}}
                           \cup (IF issue THEN {3} ELSE {})
  /\ data_out_ready' = (0 \in data_ready_delay)
  /\ data_out' = IF 0 \in data_ready_delay THEN dq[3] ELSE data_out
  /\ queue_empty' = (data_ready_delay = {})

\* The synchronous reset, last in the block, overrides state and ready.
Goto(in, s, ready) ==
  /\ state' = IF in.reset THEN "startup" ELSE s
  /\ ready_for_new' = (ready /\ ~in.reset)

\* Mutant: accepting does not withdraw cmd_ready.
Keep_StaysReady(in, s) ==
  /\ Goto(in, s, ready_for_new)
  /\ got_transaction' = (got_transaction \/ Accepts(in))

\* The state leaves the handshake to the accepting code above.
Keep(in, s) ==
  /\ Goto(in, s, ready_for_new /\ ~Accepts(in))
  /\ got_transaction' = (got_transaction \/ Accepts(in))

\* The state ends a transaction: ready <= 1, got <= 0, whatever was accepted.
Reopen(in, s) == Goto(in, s, TRUE) /\ got_transaction' = FALSE

\* Mutant: back to back whatever the row.
Follows_AnyRow(wr) == got_transaction /\ save.wr = wr

\* The accepted transaction can follow in the open row.
Follows(wr) == got_transaction /\ can_back_to_back /\ save.wr = wr

-----------------------------------------------------------------------------
(* The states.                                                             *)

Startup(in) ==
  /\ state = "startup"
  /\ Reopen(in, "idle")
  /\ DelayLine(FALSE)
  /\ UNCHANGED <<burst_old, iob, iob_data_next, dq_hiz>>

AfterWait == [idle_in_4 |-> "idle_in_3", idle_in_3 |-> "idle_in_2",
              idle_in_2 |-> "idle_in_1", idle_in_1 |-> "idle"]

IdleWait(in) ==
  /\ state \in DOMAIN AfterWait
  /\ Keep(in, AfterWait[state])
  /\ iob' = IF state \in {"idle_in_4", "idle_in_2"} THEN [iob EXCEPT !.cmd = "NOP"] ELSE iob
  /\ DelayLine(FALSE)
  /\ UNCHANGED <<burst_old, iob_data_next, dq_hiz>>

\* Mutant: the mode is remembered, the command is not issued.
LoadMode_NotSent(in) ==
  /\ state = "idle"
  /\ in.burst # burst_old
  /\ Keep(in, "idle_in_2")
  /\ burst_old' = in.burst
  /\ DelayLine(FALSE)
  /\ UNCHANGED <<iob, iob_data_next, dq_hiz>>

LoadMode(in) ==
  /\ state = "idle"
  /\ in.burst # burst_old
  /\ Keep(in, "idle_in_2")
  /\ iob' = [iob EXCEPT !.cmd = "LOAD_MODE", !.addr = in.burst]
  /\ burst_old' = in.burst
  /\ DelayLine(FALSE)
  /\ UNCHANGED <<iob_data_next, dq_hiz>>

Activate(in) ==
  /\ state = "idle"
  /\ in.burst = burst_old
  /\ got_transaction
  /\ Goto(in, "open_in_2", FALSE)
  /\ got_transaction' = (got_transaction \/ Accepts(in))
  /\ iob' = [iob EXCEPT !.cmd = "ACTIVE", !.addr = save.row, !.bank = save.bank]
  /\ DelayLine(FALSE)
  /\ UNCHANGED <<burst_old, iob_data_next, dq_hiz>>

IdleNop(in) ==
  /\ state = "idle"
  /\ in.burst = burst_old
  /\ ~got_transaction
  /\ Keep(in, "idle")
  /\ iob' = [iob EXCEPT !.cmd = "NOP", !.addr = 0, !.bank = 0]
  /\ DelayLine(FALSE)
  /\ UNCHANGED <<burst_old, iob_data_next, dq_hiz>>

\* Mutants: the data bus is always released, or always driven, while a row opens.
OpenIn2_Released(in) ==
  /\ state = "open_in_2"
  /\ Keep(in, "open_in_1")
  /\ iob' = [iob EXCEPT !.cmd = "NOP"]
  /\ dq_hiz' = TRUE
  /\ DelayLine(FALSE)
  /\ UNCHANGED <<burst_old, iob_data_next>>

OpenIn2_Driven(in) ==
  /\ state = "open_in_2"
  /\ Keep(in, "open_in_1")
  /\ iob' = [iob EXCEPT !.cmd = "NOP"]
  /\ dq_hiz' = FALSE
  /\ DelayLine(FALSE)
  /\ UNCHANGED <<burst_old, iob_data_next>>

OpenIn2(in) ==
  /\ state = "open_in_2"
  /\ Keep(in, "open_in_1")
  /\ iob' = [iob EXCEPT !.cmd = "NOP"]
  /\ dq_hiz' = ~save.wr
  /\ DelayLine(FALSE)
  /\ UNCHANGED <<burst_old, iob_data_next>>

\* Mutant: cmd_ready is not given back.
OpenIn1_NotReady(in) ==
  /\ state = "open_in_1"
  /\ Goto(in, IF save.wr THEN "write_1" ELSE "read_1", FALSE)
  /\ got_transaction' = FALSE
  /\ iob' = IF save.wr THEN [iob EXCEPT !.data = save.data] ELSE iob
  /\ DelayLine(FALSE)
  /\ UNCHANGED <<burst_old, iob_data_next, dq_hiz>>

OpenIn1(in) ==
  /\ state = "open_in_1"
  /\ Reopen(in, IF save.wr THEN "write_1" ELSE "read_1")
  /\ iob' = IF save.wr THEN [iob EXCEPT !.data = save.data] ELSE iob
  /\ DelayLine(FALSE)
  /\ UNCHANGED <<burst_old, iob_data_next, dq_hiz>>

Read1(in) ==
  /\ state = "read_1"
  /\ IF burst_old > 1
     THEN /\ Goto(in, "burst_read", TRUE)
          /\ got_transaction' = (got_transaction \/ Accepts(in))
     ELSE Keep(in, "read_2")
  /\ iob' = [iob EXCEPT !.cmd = "READ", !.addr = save.col, !.bank = save.bank,
                        !.lanes = Lanes]
  /\ DelayLine(TRUE)
  /\ UNCHANGED <<burst_old, iob_data_next, dq_hiz>>

\* Full-page burst: a word per edge until the client withdraws cmd_enable,
\* selects single accesses or has reached the last column of the row.
BurstEnds(in) == in.burst = 0 \/ save.col = LastCol \/ ~in.enable

BurstRead(in) ==
  /\ state = "burst_read"
  /\ ~BurstEnds(in)
  /\ Goto(in, "burst_read", TRUE)
  /\ got_transaction' = (got_transaction \/ Accepts(in))
  /\ iob' = [iob EXCEPT !.cmd = "NOP"]
  /\ DelayLine(TRUE)
  /\ UNCHANGED <<burst_old, iob_data_next, dq_hiz>>

BurstTerminate(in) ==
  /\ state = "burst_read"
  /\ BurstEnds(in)
  /\ Reopen(in, "precharge")
  /\ iob' = [iob EXCEPT !.cmd = "TERMINATE"]
  /\ DelayLine(FALSE)
  /\ UNCHANGED <<burst_old, iob_data_next, dq_hiz>>

AfterRead == [read_2 |-> "read_3", read_3 |-> "read_4", read_4 |-> "precharge"]

\* The three cycles after a single READ: its command stays on the pins.
ReadTail(in) ==
  /\ state \in DOMAIN AfterRead
  /\ IF Follows(FALSE) THEN Reopen(in, "read_1")
     ELSE IF state = "read_4" /\ Follows(TRUE) THEN Keep(in, "open_in_2")
     ELSE Keep(in, AfterRead[state])
  /\ DelayLine(FALSE)
  /\ UNCHANGED <<burst_old, iob, iob_data_next, dq_hiz>>

\* Mutant: the byte enables are ignored.
Write1_AllBytes(in) ==
  /\ state = "write_1"
  /\ Keep(in, "write_2")
  /\ iob' = [cmd |-> "WRITE", addr |-> save.col, bank |-> save.bank,
             lanes |-> Lanes, data |-> save.data]
  /\ iob_data_next' = save.next
  /\ DelayLine(FALSE)
  /\ UNCHANGED <<burst_old, dq_hiz>>

Write1(in) ==
  /\ state = "write_1"
  /\ Keep(in, "write_2")
  /\ iob' = [cmd |-> "WRITE", addr |-> save.col, bank |-> save.bank,
             lanes |-> save.lanes, data |-> save.data]
  /\ iob_data_next' = save.next
  /\ DelayLine(FALSE)
  /\ UNCHANGED <<burst_old, dq_hiz>>

\* Only a two-word burst takes WRITE off the pins here.
Write2(in) ==
  /\ state = "write_2"
  /\ IF Follows(TRUE) THEN Reopen(in, "write_1") ELSE Keep(in, "write_3")
  /\ iob' = IF burst_old = 1 THEN [iob EXCEPT !.cmd = "NOP", !.data = iob_data_next] ELSE iob
  /\ DelayLine(FALSE)
  /\ UNCHANGED <<burst_old, iob_data_next, dq_hiz>>

Write3(in) ==
  /\ state = "write_3"
  /\ IF Follows(TRUE) THEN Reopen(in, "write_1") ELSE Keep(in, "precharge")
  /\ iob' = IF burst_old = 1 THEN [iob EXCEPT !.cmd = "TERMINATE"] ELSE iob
  /\ DelayLine(FALSE)
  /\ UNCHANGED <<burst_old, iob_data_next, dq_hiz>>

\* Mutant: the row is left open.
Precharge_NotSent(in) ==
  /\ state = "precharge"
  /\ Keep(in, "idle_in_4")
  /\ iob' = [iob EXCEPT !.cmd = "NOP"]
  /\ dq_hiz' = TRUE
  /\ DelayLine(FALSE)
  /\ UNCHANGED <<burst_old, iob_data_next>>

\* A10 is 0: only the bank on iob_bank is closed.
Precharge(in) ==
  /\ state = "precharge"
  /\ Keep(in, "idle_in_4")
  /\ iob' = [iob EXCEPT !.cmd = "PRECHARGE"]
  /\ dq_hiz' = TRUE
  /\ DelayLine(FALSE)
  /\ UNCHANGED <<burst_old, iob_data_next>>

-----------------------------------------------------------------------------
ControllerInit ==
  /\ state = "startup"
  /\ ready_for_new = FALSE
  /\ got_transaction = FALSE
  /\ save = [wr |-> FALSE, bank |-> 0, row |-> 0, col |-> 0,
             lanes |-> {}, data |-> AnyWord, next |-> AnyWord]
  /\ can_back_to_back = FALSE
  /\ burst_old = 0
  /\ data_ready_delay = {}
  /\ data_out_ready = FALSE
  /\ data_out = NoData
  /\ queue_empty = TRUE
  /\ iob = [cmd |-> "NOP", bank |-> 0, addr |-> 0, data |-> AnyWord, lanes |-> Lanes]
  /\ iob_data_next = AnyWord
  /\ dq_hiz = FALSE

ChipInit ==
  /\ open_row = [b \in Banks |-> Closed]
  /\ chip_mode = PowerUpMode
  /\ chip_stream = Idle
  /\ mem = InitMem
  /\ dq = [i \in 1 .. 3 |-> NoData]

SDRAMInit == ControllerInit /\ ChipInit

ControllerState(in) ==
  \/ Startup(in)
  \/ IdleWait(in)
  \/ LoadMode(in)
  \/ Activate(in)
  \/ IdleNop(in)
  \/ OpenIn2(in)
  \/ OpenIn1(in)
  \/ Read1(in)
  \/ BurstRead(in)
  \/ BurstTerminate(in)
  \/ ReadTail(in)
  \/ Write1(in)
  \/ Write2(in)
  \/ Write3(in)
  \/ Precharge(in)

\* One rising edge of clk.
SDRAMClock(in) == Latch(in) /\ ControllerState(in) /\ Chip

SDRAMNext == \E in \in Inputs : SDRAMClock(in)

SDRAMSpec == SDRAMInit /\ [][SDRAMNext]_sdramVars /\ WF_sdramVars(SDRAMNext)

-----------------------------------------------------------------------------
(* Safety.                                                                 *)

AllClosed == \A b \in Banks : open_row[b] = Closed

(* PRECHARGE closes one bank only (A10 = 0), yet no command ever finds a   *)
(* row in the wrong condition: ACTIVE and LOAD_MODE reach a chip with all  *)
(* banks closed, READ, WRITE and PRECHARGE one with a row open in their    *)
(* bank.                                                                   *)
CommandsLegal ==
  /\ iob.cmd \in {"ACTIVE", "LOAD_MODE"} => AllClosed
  /\ iob.cmd \in {"READ", "WRITE", "PRECHARGE"} => open_row[iob.bank] # Closed

(* Back-to-back accesses skip ACTIVE: when a transaction is about to be    *)
(* put on the pins, the row open in its bank is the row it was accepted    *)
(* for, although can_back_to_back only compared it with the transaction    *)
(* accepted before it.                                                     *)
RightRowOpen ==
  state \in {"read_1", "write_1"} => open_row[save.bank] = save.row

(* A WRITE never finds the data bus released.                              *)
WriteDrivesBus == WritesNow => ~dq_hiz

(* A chip that never saw LOAD_MODE is not asked for data.                  *)
ModeLoadedBeforeUse == iob.cmd \in {"READ", "WRITE"} => chip_mode # Unset

(* data_out_ready is raised only for a word the chip has put on the bus:    *)
(* the delay line counts the edges from a READ to its answer, and in a      *)
(* burst from a command that is long gone, over opened and closed rows and  *)
(* changes of the burst length.                                             *)
AnswersAreWords == data_out_ready => data_out # NoData

(* An accepted transaction waits in save until it is put on the pins: the  *)
(* controller never accepts another on top of it.                          *)
NoOverwrite == got_transaction => ~ready_for_new
=============================================================================
