-------------------------- MODULE SDRAMSafetyProofs --------------------------
(***************************************************************************)
(* What is proved of the SDRAM controller, for every geometry of the chip, *)
(* every set of client outputs and every contents of the memory: that its  *)
(* registers and the chip stay in their ranges; that it never breaks the   *)
(* rules of the chip, and back-to-back accesses find their row, as long as *)
(* it is not reset while it works; that every write finds the bus driven   *)
(* and every answer is a word.                                             *)
(***************************************************************************)
EXTENDS SDRAMController, TLAPS

(* The address pins carry what the command on the pins takes there.        *)
PinsMeaningful ==
  /\ iob.cmd = "ACTIVE" => iob.addr \in Rows
  /\ iob.cmd \in {"READ", "WRITE"} => iob.addr \in Cols
  /\ iob.cmd = "LOAD_MODE" => iob.addr \in Modes

TypeInv == TypeOK /\ PinsMeaningful

-----------------------------------------------------------------------------
(* A burst stays in its row: the column after a column is a column.        *)
LEMMA NextColInRow ==
  ASSUME NEW col \in Cols, NEW mode
  PROVE  NextCol(col, mode) \in Cols
<1>1. LastCol \in Nat /\ LastCol % 2 = 1  BY GeometryAssumption
<1>2. CASE mode = 1 /\ col % 2 = 0
  <2>1. col # LastCol  BY <1>1, <1>2
  <2> QED  BY <1>1, <1>2, <2>1 DEF NextCol, Cols
<1>3. CASE mode = 1 /\ col % 2 # 0
  <2>1. col # 0  BY <1>3
  <2> QED  BY <1>1, <1>3, <2>1 DEF NextCol, Cols
<1>4. CASE mode # 1
  BY <1>1, <1>4 DEF NextCol, Cols
<1> QED  BY <1>2, <1>3, <1>4

(* What the accepting code latches is a transaction.                       *)
LEMMA LatchType ==
  ASSUME TypeInv, NEW in \in ClientInputs, Latch(in)
  PROVE  save' \in Transactions /\ can_back_to_back' \in BOOLEAN
<1>1. CASE Accepts(in)
  <2>1. can_back_to_back' \in BOOLEAN  BY <1>1 DEF Latch
  <2>2. save' \in Transactions  BY <1>1 DEF Latch, Transactions, ClientInputs
  <2> QED  BY <2>1, <2>2
<1>2. CASE ~Accepts(in)
  BY <1>2 DEF TypeInv, TypeOK, ControllerTypeOK, Latch
<1> QED  BY <1>1, <1>2

(* The delay line of the read data keeps its width.                        *)
LEMMA DelayLineType ==
  ASSUME TypeInv, NEW issue \in BOOLEAN, DelayLine(issue)
  PROVE  /\ data_ready_delay' \in SUBSET (0 .. 3)
         /\ data_out_ready' \in BOOLEAN
         /\ data_out' \in Words \cup {NoData}
         /\ queue_empty' \in BOOLEAN
<1> USE DEF TypeInv, TypeOK, ControllerTypeOK, ChipTypeOK, DelayLine
<1>1. data_ready_delay' \in SUBSET (0 .. 3)
  <2>1. \A i \in data_ready_delay \ {0} : i - 1 \in 0 .. 3  OBVIOUS
  <2> QED  BY <2>1
<1>2. data_out' \in Words \cup {NoData}  OBVIOUS
<1> QED  BY <1>1, <1>2

(* Reset or not, the successor of a state is a state.                      *)
LEMMA GotoType ==
  ASSUME NEW in \in ClientInputs, NEW s \in States, NEW ready \in BOOLEAN,
         Goto(in, s, ready)
  PROVE  state' \in States /\ ready_for_new' \in BOOLEAN
BY DEF Goto, States, ClientInputs

(* Whether a transaction is accepted is a Boolean.                         *)
LEMMA AcceptsType ==
  ASSUME TypeInv, NEW in \in ClientInputs
  PROVE  Accepts(in) \in BOOLEAN
BY DEF TypeInv, TypeOK, ControllerTypeOK, Accepts, ClientInputs

(* The handshake of a state that leaves it to the accepting code stays in  *)
(* its range.                                                              *)
LEMMA KeepType ==
  ASSUME TypeInv, NEW in \in ClientInputs, NEW s \in States, Keep(in, s)
  PROVE  /\ state' \in States /\ ready_for_new' \in BOOLEAN
         /\ got_transaction' \in BOOLEAN
<1>1. (ready_for_new /\ ~Accepts(in)) \in BOOLEAN  OBVIOUS
<1> QED  BY <1>1, GotoType, AcceptsType DEF Keep, TypeInv, TypeOK, ControllerTypeOK

(* So does the handshake of a state that ends a transaction.               *)
LEMMA ReopenType ==
  ASSUME NEW in \in ClientInputs, NEW s \in States, Reopen(in, s)
  PROVE  /\ state' \in States /\ ready_for_new' \in BOOLEAN
         /\ got_transaction' \in BOOLEAN
BY GotoType DEF Reopen

(* The rest of a step's obligations: pins, mode and bus control.           *)
PinsTyped ==
  /\ burst_old \in Modes /\ iob \in Pins /\ PinsMeaningful
  /\ iob_data_next \in Words /\ dq_hiz \in BOOLEAN

HandshakeTyped ==
  state \in States /\ ready_for_new \in BOOLEAN /\ got_transaction \in BOOLEAN

(* Every edge keeps the registers of the controller in their ranges and    *)
(* an address of the right kind on the pins.                               *)
LEMMA ControllerStepType ==
  ASSUME TypeInv, NEW in \in ClientInputs, Latch(in), ControllerState(in)
  PROVE  ControllerTypeOK' /\ PinsMeaningful'
<1> USE DEF TypeInv, TypeOK
<1>1. save' \in Transactions /\ can_back_to_back' \in BOOLEAN  BY LatchType
<1>2. \E issue \in BOOLEAN : DelayLine(issue)
  BY DEF ControllerState, Startup, IdleWait, LoadMode, Activate, IdleNop, OpenIn2, OpenIn1,
         Read1, BurstRead, BurstTerminate, ReadTail, Write1, Write2, Write3, Precharge
<1>3. /\ data_ready_delay' \in SUBSET (0 .. 3) /\ data_out_ready' \in BOOLEAN
      /\ data_out' \in Words \cup {NoData} /\ queue_empty' \in BOOLEAN
  BY <1>2, DelayLineType
<1>4. HandshakeTyped' /\ PinsTyped'
  <2>0. /\ state \in States /\ burst_old \in Modes /\ save \in Transactions
        /\ iob \in Pins /\ iob_data_next \in Words /\ dq_hiz \in BOOLEAN
        /\ ready_for_new \in BOOLEAN /\ got_transaction \in BOOLEAN
    BY DEF ControllerTypeOK
  <2>a. /\ in.burst \in Modes /\ save.row \in Rows /\ save.bank \in Banks
        /\ save.col \in Cols /\ save.wr \in BOOLEAN /\ save.data \in Words
        /\ save.next \in Words /\ save.lanes \in SUBSET Lanes
    BY <2>0 DEF ClientInputs, Transactions
  <2>b. 0 \in Banks /\ 0 \in Rows  BY GeometryAssumption DEF Banks, Rows
  <2>c. (got_transaction \/ Accepts(in)) \in BOOLEAN  OBVIOUS
  <2>1. CASE Startup(in)
    <3>1. HandshakeTyped'  BY <2>1, ReopenType DEF Startup, HandshakeTyped, States
    <3>2. PinsTyped'  BY <2>0, <2>1 DEF Startup, PinsTyped, PinsMeaningful
    <3> QED  BY <3>1, <3>2
  <2>2. CASE IdleWait(in)
    <3>0. AfterWait[state] \in States  BY <2>2 DEF IdleWait, AfterWait, States
    <3>1. HandshakeTyped'  BY <2>2, <3>0, KeepType DEF IdleWait, HandshakeTyped
    <3>2. PinsTyped'  BY <2>0, <2>2 DEF IdleWait, PinsTyped, PinsMeaningful, Pins, Commands
    <3> QED  BY <3>1, <3>2
  <2>3. CASE LoadMode(in)
    <3>1. HandshakeTyped'  BY <2>3, KeepType DEF LoadMode, HandshakeTyped, States
    <3>2. PinsTyped'
      BY <2>0, <2>a, <2>3 DEF LoadMode, PinsTyped, PinsMeaningful, Pins, Commands
    <3> QED  BY <3>1, <3>2
  <2>4. CASE Activate(in)
    <3>1. HandshakeTyped'
      BY <2>4, <2>c, GotoType DEF Activate, HandshakeTyped, States
    <3>2. PinsTyped'
      BY <2>0, <2>a, <2>4 DEF Activate, PinsTyped, PinsMeaningful, Pins, Commands
    <3> QED  BY <3>1, <3>2
  <2>5. CASE IdleNop(in)
    <3>1. HandshakeTyped'  BY <2>5, KeepType DEF IdleNop, HandshakeTyped, States
    <3>2. PinsTyped'
      BY <2>0, <2>b, <2>5 DEF IdleNop, PinsTyped, PinsMeaningful, Pins, Commands
    <3> QED  BY <3>1, <3>2
  <2>6. CASE OpenIn2(in)
    <3>1. HandshakeTyped'  BY <2>6, KeepType DEF OpenIn2, HandshakeTyped, States
    <3>2. PinsTyped'
      BY <2>0, <2>a, <2>6 DEF OpenIn2, PinsTyped, PinsMeaningful, Pins, Commands
    <3> QED  BY <3>1, <3>2
  <2>7. CASE OpenIn1(in)
    <3>0. (IF save.wr THEN "write_1" ELSE "read_1") \in States  BY DEF States
    <3>1. HandshakeTyped'  BY <2>7, <3>0, ReopenType DEF OpenIn1, HandshakeTyped
    <3>2. PinsTyped'
      BY <2>0, <2>a, <2>7 DEF OpenIn1, PinsTyped, PinsMeaningful, Pins, Commands
    <3> QED  BY <3>1, <3>2
  <2>8. CASE Read1(in)
    <3>1. HandshakeTyped'
      BY <2>8, <2>c, GotoType, KeepType DEF Read1, HandshakeTyped, States
    <3>2. PinsTyped'
      BY <2>0, <2>a, <2>8 DEF Read1, PinsTyped, PinsMeaningful, Pins, Commands
    <3> QED  BY <3>1, <3>2
  <2>9. CASE BurstRead(in)
    <3>1. HandshakeTyped'
      BY <2>9, <2>c, GotoType DEF BurstRead, HandshakeTyped, States
    <3>2. PinsTyped'
      BY <2>0, <2>9 DEF BurstRead, PinsTyped, PinsMeaningful, Pins, Commands
    <3> QED  BY <3>1, <3>2
  <2>10. CASE BurstTerminate(in)
    <3>1. HandshakeTyped'  BY <2>10, ReopenType DEF BurstTerminate, HandshakeTyped, States
    <3>2. PinsTyped'
      BY <2>0, <2>10 DEF BurstTerminate, PinsTyped, PinsMeaningful, Pins, Commands
    <3> QED  BY <3>1, <3>2
  <2>11. CASE ReadTail(in)
    <3>0. AfterRead[state] \in States  BY <2>11 DEF ReadTail, AfterRead, States
    <3>1. HandshakeTyped'
      BY <2>11, <3>0, KeepType, ReopenType DEF ReadTail, HandshakeTyped, States
    <3>2. PinsTyped'  BY <2>0, <2>11 DEF ReadTail, PinsTyped, PinsMeaningful
    <3> QED  BY <3>1, <3>2
  <2>12. CASE Write1(in)
    <3>1. HandshakeTyped'  BY <2>12, KeepType DEF Write1, HandshakeTyped, States
    <3>2. PinsTyped'
      BY <2>0, <2>a, <2>12 DEF Write1, PinsTyped, PinsMeaningful, Pins, Commands
    <3> QED  BY <3>1, <3>2
  <2>13. CASE Write2(in)
    <3>1. HandshakeTyped'
      BY <2>13, KeepType, ReopenType DEF Write2, HandshakeTyped, States
    <3>2. PinsTyped'
      BY <2>0, <2>13 DEF Write2, PinsTyped, PinsMeaningful, Pins, Commands
    <3> QED  BY <3>1, <3>2
  <2>14. CASE Write3(in)
    <3>1. HandshakeTyped'
      BY <2>14, KeepType, ReopenType DEF Write3, HandshakeTyped, States
    <3>2. PinsTyped'
      BY <2>0, <2>14 DEF Write3, PinsTyped, PinsMeaningful, Pins, Commands
    <3> QED  BY <3>1, <3>2
  <2>15. CASE Precharge(in)
    <3>1. HandshakeTyped'  BY <2>15, KeepType DEF Precharge, HandshakeTyped, States
    <3>2. PinsTyped'
      BY <2>0, <2>15 DEF Precharge, PinsTyped, PinsMeaningful, Pins, Commands
    <3> QED  BY <3>1, <3>2
  <2> QED
    BY <2>1, <2>2, <2>3, <2>4, <2>5, <2>6, <2>7, <2>8, <2>9, <2>10, <2>11, <2>12, <2>13,
       <2>14, <2>15 DEF ControllerState
<1> QED
  BY <1>1, <1>3, <1>4 DEF ControllerTypeOK, HandshakeTyped, PinsTyped

-----------------------------------------------------------------------------
(* The chip.                                                               *)

(* A word merged under a mask is a word.                                   *)
LEMMA MergeType ==
  ASSUME NEW old \in Words, NEW new \in Words, NEW lanes \in SUBSET Lanes
  PROVE  Merge(old, new, lanes) \in Words
BY DEF Merge, Words

(* A data transfer that meets an open row touches a cell.                  *)
LEMMA CellNowType ==
  ASSUME TypeInv, ReadsNow \/ WritesNow
  PROVE  /\ BankNow \in Banks /\ ColNow \in Cols
         /\ open_row[BankNow] # Closed => CellNow \in Cells
<1> USE DEF TypeInv, TypeOK, ControllerTypeOK, ChipTypeOK
<1>1. iob.bank \in Banks  BY DEF Pins
<1>2. chip_stream.bank \in Banks /\ chip_stream.col \in Cols  BY DEF Streams
<1>3. BankNow \in Banks  BY <1>1, <1>2 DEF BankNow
<1>4. ColNow \in Cols  BY <1>2 DEF ColNow, PinsMeaningful
<1>5. open_row[BankNow] # Closed => open_row[BankNow] \in Rows  BY <1>3
<1> QED  BY <1>3, <1>4, <1>5 DEF CellNow, Cells

(* The memory keeps words in its cells when the write on the pins, if any, *)
(* is obeyed.                                                              *)
LEMMA MemNowType ==
  ASSUME TypeInv
  PROVE  MemNow \in [Cells -> Words]
<1> USE DEF TypeInv, TypeOK, ControllerTypeOK, ChipTypeOK
<1>1. iob.data \in Words /\ iob.lanes \in SUBSET Lanes  BY DEF Pins
<1>2. CASE WritesNow /\ open_row[BankNow] # Closed
  <2>1. CellNow \in Cells  BY <1>2, CellNowType
  <2>2. Merge(mem[CellNow], iob.data, iob.lanes) \in Words  BY <1>1, <2>1, MergeType
  <2> QED  BY <1>2, <2>1, <2>2 DEF MemNow
<1>3. CASE ~(WritesNow /\ open_row[BankNow] # Closed)
  BY <1>3 DEF MemNow
<1> QED  BY <1>2, <1>3

(* The chip puts a word on the bus or nothing.                             *)
LEMMA ChipOutType ==
  ASSUME TypeInv
  PROVE  ChipOut \in Words \cup {NoData}
<1>1. CASE ReadsNow /\ open_row[BankNow] # Closed
  <2>1. CellNow \in Cells  BY <1>1, CellNowType
  <2> QED  BY <1>1, <2>1 DEF ChipOut, TypeInv, TypeOK, ChipTypeOK
<1> QED  BY <1>1 DEF ChipOut

(* A burst, begun, continued or ended, stays a burst of the chip.          *)
LEMMA ChipStreamType ==
  ASSUME TypeInv
  PROVE  ChipStream \in Streams
<1> USE DEF TypeInv, TypeOK, ControllerTypeOK, ChipTypeOK
<1>1. Idle \in Streams
  BY GeometryAssumption DEF Idle, Streams, Banks, Cols
<1>2. ASSUME NEW kind \in {"read", "write"}, iob.cmd \in {"READ", "WRITE"}
      PROVE  StartStream(kind) \in Streams
  <2>1. iob.addr \in Cols /\ iob.bank \in Banks  BY <1>2 DEF PinsMeaningful, Pins
  <2>2. NextCol(iob.addr, chip_mode) \in Cols  BY <2>1, NextColInRow
  <2> QED  BY <1>1, <2>1, <2>2 DEF StartStream, Streams
<1>3. StreamNext \in Streams
  <2>1. NextCol(chip_stream.col, chip_mode) \in Cols  BY NextColInRow DEF Streams
  <2> QED  BY <1>1, <2>1 DEF StreamNext, Streams
<1> QED  BY <1>1, <1>2, <1>3 DEF ChipStream

(* Every edge keeps the chip's variables in their ranges.                  *)
LEMMA ChipStepType ==
  ASSUME TypeInv, Chip
  PROVE  ChipTypeOK'
<1> USE DEF TypeInv, TypeOK, ControllerTypeOK, ChipTypeOK
<1>1. open_row' \in [Banks -> Rows \cup {Closed}]
  BY DEF Chip, PinsMeaningful, Pins
<1>2. chip_mode' \in Modes \cup {Unset}  BY DEF Chip, PinsMeaningful
<1>3. chip_stream' \in Streams  BY ChipStreamType DEF Chip
<1>4. mem' \in [Cells -> Words]  BY MemNowType DEF Chip
<1>5. dq' \in [1 .. 3 -> Words \cup {NoData}]
  <2>1. \A i \in 1 .. 3 : i # 1 => dq[i - 1] \in Words \cup {NoData}  OBVIOUS
  <2> QED  BY <2>1, ChipOutType DEF Chip
<1> QED  BY <1>1, <1>2, <1>3, <1>4, <1>5

-----------------------------------------------------------------------------
(* Every register of the controller and every variable of the chip stays   *)
(* in its range, for every chip geometry and whatever the client does.     *)
THEOREM InitTyped == SDRAMInit => TypeInv
<1> SUFFICES ASSUME SDRAMInit PROVE TypeInv  OBVIOUS
<1>0. 0 \in Banks /\ 0 \in Rows /\ 0 \in Cols
  BY GeometryAssumption DEF Banks, Rows, Cols
<1>1. AnyWord \in Words
  <2>1. <<0, 0, 0>> \in Cells  BY <1>0 DEF Cells
  <2>2. InitMem[<<0, 0, 0>>] \in Words  BY <2>1, ContentsAssumption
  <2>3. \E w \in Words : TRUE  BY <2>2
  <2> QED  BY <2>3 DEF AnyWord
<1>2. ControllerTypeOK
  BY <1>0, <1>1 DEF SDRAMInit, ControllerInit, ControllerTypeOK, States, Transactions, Modes,
     Pins, Commands
<1>3. ChipTypeOK
  BY <1>0, ContentsAssumption DEF SDRAMInit, ChipInit, ChipTypeOK, Streams, Idle
<1>4. PinsMeaningful
  BY DEF SDRAMInit, ControllerInit, PinsMeaningful
<1> QED  BY <1>2, <1>3, <1>4 DEF TypeInv, TypeOK

(* An edge of the clock, with any outputs of the client, keeps the types.  *)
THEOREM StepTyped == TypeInv /\ [SDRAMNext]_sdramVars => TypeInv'
<1> SUFFICES ASSUME TypeInv, [SDRAMNext]_sdramVars PROVE TypeInv'  OBVIOUS
<1>1. CASE SDRAMNext
  <2>1. PICK in \in Inputs : SDRAMClock(in)  BY <1>1 DEF SDRAMNext
  <2>2. in \in ClientInputs  BY InputsAssumption
  <2>3. ControllerTypeOK' /\ PinsMeaningful'
    BY <2>1, <2>2, ControllerStepType DEF SDRAMClock
  <2>4. ChipTypeOK'  BY <2>1, ChipStepType DEF SDRAMClock
  <2> QED  BY <2>3, <2>4 DEF TypeInv, TypeOK
<1>2. CASE UNCHANGED sdramVars
  BY <1>2 DEF sdramVars, ctrlVars, chipVars, TypeInv, TypeOK, ControllerTypeOK, ChipTypeOK,
     PinsMeaningful
<1> QED  BY <1>1, <1>2

(* Hence every reachable state is typed: the width of no register and the  *)
(* size of no queue of the controller is ever exceeded.                    *)
THEOREM TypeCorrect == SDRAMSpec => []TypeOK
<1>1. TypeInv => TypeOK  BY DEF TypeInv
<1> QED  BY <1>1, InitTyped, StepTyped, PTL DEF SDRAMSpec

NoReset == \A in \in Inputs : ~in.reset

-----------------------------------------------------------------------------
(* The inductive invariant.  RowsAfter are the open rows once the command  *)
(* on the pins has been obeyed: the controller's state speaks of them, one *)
(* edge ahead of the chip.                                                 *)

RowsAfter ==
  CASE iob.cmd = "ACTIVE"    -> [open_row EXCEPT ![iob.bank] = iob.addr]
    [] iob.cmd = "PRECHARGE" -> [open_row EXCEPT ![iob.bank] = Closed]
    [] OTHER -> open_row

ClosedStates == {"startup", "idle_in_4", "idle_in_3", "idle_in_2", "idle_in_1", "idle"}

\* A reset that meets the controller with every row closed and nothing to do,
\* as the card's own reset at power-up does.
QuietReset(in) == in.reset => state \in ClosedStates /\ ~got_transaction

\* One row is open, in the bank on the pins, or none.
OneRow ==
  /\ state \in ClosedStates => \A b \in Banks : RowsAfter[b] = Closed
  /\ state \notin ClosedStates =>
       RowsAfter[iob.bank] \in Rows /\ \A b \in Banks \ {iob.bank} : RowsAfter[b] = Closed

\* The commands a state may find on the pins.
PinsFit ==
  /\ state \in {"idle_in_1", "idle_in_3", "open_in_1"} => iob.cmd = "NOP"
  /\ state \in {"startup", "idle", "idle_in_2"} => iob.cmd \in {"NOP", "LOAD_MODE"}
  /\ state \in {"read_1", "read_2", "read_3", "read_4", "burst_read", "write_1", "write_2",
                "write_3", "precharge"} => iob.cmd \in {"READ", "WRITE", "NOP", "TERMINATE"}

\* Outside a burst a transaction is accepted only when none is held.
Handshake ==
  /\ state # "burst_read" => (got_transaction => ~ready_for_new)
  /\ state \in {"open_in_2", "open_in_1"} => got_transaction

\* The transaction the state works on, or the one it may append, has its row open.
RowFits ==
  /\ state \in {"open_in_2", "open_in_1", "read_1", "write_1"} =>
       RowsAfter[save.bank] = save.row
  /\ state \in {"read_2", "read_3", "read_4", "write_2", "write_3"} =>
       ((got_transaction => can_back_to_back) => RowsAfter[save.bank] = save.row)

SafeInv == TypeInv /\ OneRow /\ PinsFit /\ Handshake /\ RowFits /\ CommandsLegal

-----------------------------------------------------------------------------
(* Whether something is accepted or not, the row the controller keeps open *)
(* fits the transaction in save if the flag for back to back says so.      *)
LEMMA LatchFits ==
  ASSUME TypeInv, NEW in \in ClientInputs, Latch(in),
         got_transaction => ~ready_for_new,
         (got_transaction => can_back_to_back) => RowsAfter[save.bank] = save.row,
         got_transaction' => got_transaction \/ Accepts(in),
         Accepts(in) => got_transaction',
         got_transaction => got_transaction'
  PROVE  (got_transaction' => can_back_to_back') => RowsAfter[save'.bank] = save'.row
<1> USE DEF TypeInv, TypeOK, ControllerTypeOK
<1>1. CASE Accepts(in)
  <2>1. ~got_transaction  BY <1>1 DEF Accepts
  <2>2. /\ save'.bank = in.bank /\ save'.row = in.row
        /\ can_back_to_back' = (save.bank = in.bank /\ save.row = in.row)
    BY <1>1 DEF Latch
  <2> QED  BY <1>1, <2>1, <2>2
<1>2. CASE ~Accepts(in)
  BY <1>2 DEF Latch
<1> QED  BY <1>1, <1>2

(* The chip's rows after an edge are those the pins had announced; what    *)
(* the new pins announce is then a matter of their command alone.          *)
LEMMA RowsAfterStep ==
  ASSUME TypeInv, Chip
  PROVE  /\ open_row' = RowsAfter
         /\ RowsAfter \in [Banks -> Rows \cup {Closed}]
         /\ iob'.cmd = "ACTIVE" => RowsAfter' = [RowsAfter EXCEPT ![iob'.bank] = iob'.addr]
         /\ iob'.cmd = "PRECHARGE" => RowsAfter' = [RowsAfter EXCEPT ![iob'.bank] = Closed]
         /\ iob'.cmd \notin {"ACTIVE", "PRECHARGE"} => RowsAfter' = RowsAfter
<1>1. open_row' = RowsAfter  BY DEF Chip, RowsAfter
<1>2. RowsAfter \in [Banks -> Rows \cup {Closed}]
  BY DEF RowsAfter, TypeInv, PinsMeaningful, TypeOK, ChipTypeOK, ControllerTypeOK, Pins
<1>3. /\ iob'.cmd = "ACTIVE" => RowsAfter' = [open_row' EXCEPT ![iob'.bank] = iob'.addr]
      /\ iob'.cmd = "PRECHARGE" => RowsAfter' = [open_row' EXCEPT ![iob'.bank] = Closed]
      /\ iob'.cmd \notin {"ACTIVE", "PRECHARGE"} => RowsAfter' = open_row'
  BY DEF RowsAfter
<1> QED  BY <1>1, <1>2, <1>3

(* An action that leaves one row open, in the bank that is on the pins,    *)
(* and its command there, keeps the rows right.                            *)
LEMMA RowsStayOpen ==
  ASSUME TypeInv, Chip, OneRow, state \notin ClosedStates, state' \notin ClosedStates,
         iob'.bank = iob.bank, iob'.cmd \in {"NOP", "READ", "WRITE", "TERMINATE"}
  PROVE  OneRow' /\ CommandsLegal' /\ RowsAfter' = RowsAfter
<1>1. RowsAfter' = RowsAfter /\ open_row' = RowsAfter  BY RowsAfterStep
<1>2. iob.bank \in Banks  BY DEF TypeInv, TypeOK, ControllerTypeOK, Pins
<1>3. OneRow'  BY <1>1 DEF OneRow
<1>4. CommandsLegal'
  BY <1>1, <1>2, SentinelAssumption DEF OneRow, CommandsLegal
<1> QED  BY <1>1, <1>3, <1>4

(* An action between two states with every row closed that issues nothing  *)
(* that needs a row keeps the rows right.                                  *)
LEMMA RowsStayClosed ==
  ASSUME TypeInv, Chip, OneRow, state \in ClosedStates, state' \in ClosedStates,
         iob'.cmd \in {"NOP", "LOAD_MODE"}
  PROVE  OneRow' /\ CommandsLegal'
<1>1. RowsAfter' = RowsAfter /\ open_row' = RowsAfter  BY RowsAfterStep
<1>2. OneRow'  BY <1>1 DEF OneRow
<1>3. CommandsLegal'  BY <1>1 DEF OneRow, CommandsLegal, AllClosed
<1> QED  BY <1>2, <1>3

(* With one row open, the bank whose row is a transaction's row is the     *)
(* bank on the pins.                                                       *)
LEMMA BankOnPins ==
  ASSUME TypeInv, OneRow, state \notin ClosedStates, RowsAfter[save.bank] = save.row
  PROVE  save.bank = iob.bank
BY SentinelAssumption DEF OneRow, TypeInv, TypeOK, ControllerTypeOK, Transactions

(* The handshake of an action that leaves it to the accepting code, and    *)
(* that of one that ends a transaction.                                    *)
LEMMA KeepFacts ==
  ASSUME NEW in, NEW s, Keep(in, s), got_transaction => ~ready_for_new
  PROVE  /\ state' = IF in.reset THEN "startup" ELSE s
         /\ got_transaction' => ~ready_for_new'
         /\ Accepts(in) => got_transaction'
         /\ got_transaction => got_transaction'
         /\ got_transaction' => got_transaction \/ Accepts(in)
BY DEF Keep, Goto, Accepts

(* Ending a transaction frees the queue and raises cmd_ready.              *)
LEMMA ReopenFacts ==
  ASSUME NEW in, ~in.reset, NEW s, Reopen(in, s)
  PROVE  state' = s /\ ready_for_new' /\ ~got_transaction'
BY DEF Reopen, Goto

(* While a transaction is held outside a burst, nothing replaces it.       *)
LEMMA Held ==
  ASSUME NEW in, Latch(in), got_transaction, got_transaction => ~ready_for_new
  PROVE  save' = save
BY DEF Latch, Accepts

SafeStep == OneRow /\ PinsFit /\ Handshake /\ RowFits /\ CommandsLegal

-----------------------------------------------------------------------------
(* The actions, in groups that share an argument.                          *)

(* With every row closed: waiting, loading the mode register, idling.      *)
LEMMA ClosedActionsSafe ==
  ASSUME SafeInv, NEW in \in ClientInputs, Latch(in), Chip,
         Startup(in) \/ IdleWait(in) \/ LoadMode(in) \/ IdleNop(in)
  PROVE  SafeStep'
<1> USE DEF SafeInv
<1>1. CASE Startup(in)
  <2>1. /\ state = "startup" /\ state' \in {"startup", "idle"}
        /\ iob' = iob /\ iob.cmd \in {"NOP", "LOAD_MODE"} /\ ~got_transaction'
    BY <1>1 DEF Startup, PinsFit, Reopen, Goto
  <2>2. OneRow' /\ CommandsLegal'  BY <2>1, RowsStayClosed DEF ClosedStates
  <2> QED  BY <2>1, <2>2 DEF SafeStep, PinsFit, Handshake, RowFits
<1>2. CASE IdleWait(in)
  <2>1. state \in {"idle_in_4", "idle_in_3", "idle_in_2", "idle_in_1"}
        /\ AfterWait[state] \in {"idle_in_3", "idle_in_2", "idle_in_1", "idle"}
    BY <1>2 DEF IdleWait, AfterWait
  <2>2. iob'.cmd = "NOP"
    BY <1>2, <2>1 DEF IdleWait, PinsFit, TypeInv, TypeOK, ControllerTypeOK, Pins
  <2>3. state' \in {"startup", AfterWait[state]} /\ (got_transaction' => ~ready_for_new')
    BY <1>2, <2>1, KeepFacts DEF IdleWait, Handshake
  <2>4. OneRow' /\ CommandsLegal'
    BY <2>1, <2>2, <2>3, RowsStayClosed DEF ClosedStates
  <2> QED  BY <2>1, <2>2, <2>3, <2>4 DEF SafeStep, PinsFit, Handshake, RowFits
<1>3. CASE LoadMode(in)
  <2>1. /\ state = "idle" /\ state' \in {"startup", "idle_in_2"}
        /\ (got_transaction' => ~ready_for_new')
    BY <1>3, KeepFacts DEF LoadMode, Handshake
  <2>2. iob'.cmd = "LOAD_MODE"
    BY <1>3 DEF LoadMode, TypeInv, TypeOK, ControllerTypeOK, Pins
  <2>3. OneRow' /\ CommandsLegal'
    BY <2>1, <2>2, RowsStayClosed DEF ClosedStates
  <2> QED  BY <2>1, <2>2, <2>3 DEF SafeStep, PinsFit, Handshake, RowFits
<1>4. CASE IdleNop(in)
  <2>1. /\ state = "idle" /\ state' \in {"startup", "idle"}
        /\ (got_transaction' => ~ready_for_new')
    BY <1>4, KeepFacts DEF IdleNop, Handshake
  <2>2. iob'.cmd = "NOP"
    BY <1>4 DEF IdleNop, TypeInv, TypeOK, ControllerTypeOK, Pins
  <2>3. OneRow' /\ CommandsLegal'
    BY <2>1, <2>2, RowsStayClosed DEF ClosedStates
  <2> QED  BY <2>1, <2>2, <2>3 DEF SafeStep, PinsFit, Handshake, RowFits
<1> QED  BY <1>1, <1>2, <1>3, <1>4

(* Opening a row for the transaction in save.                              *)
LEMMA OpeningSafe ==
  ASSUME SafeInv, NEW in \in ClientInputs, ~in.reset, Latch(in), Chip,
         Activate(in) \/ OpenIn2(in) \/ OpenIn1(in)
  PROVE  SafeStep'
<1> USE DEF SafeInv
<1>0. save.bank \in Banks /\ save.row \in Rows
  BY DEF TypeInv, TypeOK, ControllerTypeOK, Transactions
<1>a. /\ got_transaction /\ ~ready_for_new
      /\ state \in {"idle", "open_in_2", "open_in_1"}
  BY DEF Activate, OpenIn2, OpenIn1, Handshake
<1>b. save' = save  BY <1>a, Held
<1>1. CASE Activate(in)
  <2>1. state = "idle" /\ state' = "open_in_2" /\ got_transaction' /\ ~ready_for_new'
    BY <1>1, <1>a DEF Activate, Goto
  <2>2. iob'.cmd = "ACTIVE" /\ iob'.addr = save.row /\ iob'.bank = save.bank
    BY <1>1 DEF Activate, TypeInv, TypeOK, ControllerTypeOK, Pins
  <2>3. /\ open_row' = RowsAfter /\ RowsAfter \in [Banks -> Rows \cup {Closed}]
        /\ RowsAfter' = [RowsAfter EXCEPT ![save.bank] = save.row]
    BY <2>2, RowsAfterStep
  <2>4. \A b \in Banks : RowsAfter[b] = Closed
    BY <2>1 DEF OneRow, ClosedStates
  <2>5. OneRow'
    BY <1>0, <2>1, <2>2, <2>3, <2>4 DEF OneRow, ClosedStates
  <2>6. CommandsLegal'  BY <2>2, <2>3, <2>4 DEF CommandsLegal, AllClosed
  <2>7. RowFits'  BY <1>0, <1>b, <2>1, <2>3 DEF RowFits
  <2> QED  BY <2>1, <2>5, <2>6, <2>7 DEF SafeStep, PinsFit, Handshake
<1>2. CASE OpenIn2(in)
  <2>1. /\ state = "open_in_2" /\ state' = "open_in_1"
        /\ got_transaction' /\ ~ready_for_new'
    BY <1>2, <1>a, KeepFacts DEF OpenIn2
  <2>2. iob'.cmd = "NOP" /\ iob'.bank = iob.bank
    BY <1>2 DEF OpenIn2, TypeInv, TypeOK, ControllerTypeOK, Pins
  <2>3. OneRow' /\ CommandsLegal' /\ RowsAfter' = RowsAfter
    BY <2>1, <2>2, RowsStayOpen DEF ClosedStates
  <2>4. RowFits'  BY <1>b, <2>1, <2>3 DEF RowFits
  <2> QED  BY <2>1, <2>2, <2>3, <2>4 DEF SafeStep, PinsFit, Handshake
<1>3. CASE OpenIn1(in)
  <2>1. /\ state = "open_in_1" /\ state' \in {"write_1", "read_1"} /\ ~got_transaction'
    BY <1>3, ReopenFacts DEF OpenIn1
  <2>2. iob'.cmd = "NOP" /\ iob'.bank = iob.bank
    BY <1>3 DEF OpenIn1, PinsFit, TypeInv, TypeOK, ControllerTypeOK, Pins
  <2>3. OneRow' /\ CommandsLegal' /\ RowsAfter' = RowsAfter
    BY <2>1, <2>2, RowsStayOpen DEF ClosedStates
  <2>4. RowFits'  BY <1>b, <2>1, <2>3 DEF RowFits
  <2> QED  BY <2>1, <2>2, <2>3, <2>4 DEF SafeStep, PinsFit, Handshake
<1> QED  BY <1>1, <1>2, <1>3

(* Reading: single, in a burst, and the cycles after a single READ.        *)
LEMMA ReadingSafe ==
  ASSUME SafeInv, NEW in \in ClientInputs, ~in.reset, Latch(in), Chip,
         Read1(in) \/ BurstRead(in) \/ BurstTerminate(in) \/ ReadTail(in)
  PROVE  SafeStep'
<1> USE DEF SafeInv
<1>1. CASE Read1(in)
  <2>1. state = "read_1" /\ (got_transaction => ~ready_for_new)
        /\ RowsAfter[save.bank] = save.row
    BY <1>1 DEF Read1, Handshake, RowFits
  <2>2. save.bank = iob.bank  BY <2>1, BankOnPins DEF ClosedStates
  <2>3. iob'.cmd = "READ" /\ iob'.bank = iob.bank
    BY <1>1, <2>2 DEF Read1, TypeInv, TypeOK, ControllerTypeOK, Pins
  <2>4. CASE burst_old > 1
    <3>1. state' = "burst_read"  BY <1>1, <2>4 DEF Read1, Goto
    <3>2. OneRow' /\ CommandsLegal'
      BY <2>1, <2>3, <3>1, RowsStayOpen DEF ClosedStates
    <3> QED  BY <2>3, <3>1, <3>2 DEF SafeStep, PinsFit, Handshake, RowFits
  <2>5. CASE ~(burst_old > 1)
    <3>1. Keep(in, "read_2")  BY <1>1, <2>5 DEF Read1
    <3>2. state' = "read_2" /\ (got_transaction' => ~ready_for_new')
      BY <2>1, <3>1, KeepFacts
    <3>3. OneRow' /\ CommandsLegal' /\ RowsAfter' = RowsAfter
      BY <2>1, <2>3, <3>2, RowsStayOpen DEF ClosedStates
    <3>4. (got_transaction' => can_back_to_back') => RowsAfter[save'.bank] = save'.row
      BY <2>1, <3>1, KeepFacts, LatchFits
    <3> QED  BY <2>3, <3>2, <3>3, <3>4 DEF SafeStep, PinsFit, Handshake, RowFits
  <2> QED  BY <2>4, <2>5
<1>2. CASE BurstRead(in)
  <2>1. state = "burst_read" /\ state' = "burst_read"  BY <1>2 DEF BurstRead, Goto
  <2>2. iob'.cmd = "NOP" /\ iob'.bank = iob.bank
    BY <1>2 DEF BurstRead, TypeInv, TypeOK, ControllerTypeOK, Pins
  <2>3. OneRow' /\ CommandsLegal'  BY <2>1, <2>2, RowsStayOpen DEF ClosedStates
  <2> QED  BY <2>1, <2>2, <2>3 DEF SafeStep, PinsFit, Handshake, RowFits
<1>3. CASE BurstTerminate(in)
  <2>1. state = "burst_read" /\ state' = "precharge" /\ ~got_transaction'
    BY <1>3, ReopenFacts DEF BurstTerminate
  <2>2. iob'.cmd = "TERMINATE" /\ iob'.bank = iob.bank
    BY <1>3 DEF BurstTerminate, TypeInv, TypeOK, ControllerTypeOK, Pins
  <2>3. OneRow' /\ CommandsLegal'  BY <2>1, <2>2, RowsStayOpen DEF ClosedStates
  <2> QED  BY <2>1, <2>2, <2>3 DEF SafeStep, PinsFit, Handshake, RowFits
<1>4. CASE ReadTail(in)
  <2>1. state \in {"read_2", "read_3", "read_4"} /\ (got_transaction => ~ready_for_new)
        /\ ((got_transaction => can_back_to_back) => RowsAfter[save.bank] = save.row)
    BY <1>4 DEF ReadTail, AfterRead, Handshake, RowFits
  <2>2. iob' = iob /\ iob.cmd \in {"READ", "WRITE", "NOP", "TERMINATE"}
    BY <1>4, <2>1 DEF ReadTail, PinsFit
  <2>3. CASE Follows(FALSE)
    <3>1. state' = "read_1" /\ ~got_transaction'
      BY <1>4, <2>3, ReopenFacts DEF ReadTail
    <3>2. save' = save /\ RowsAfter[save.bank] = save.row
      BY <2>1, <2>3, Held DEF Follows
    <3>3. OneRow' /\ CommandsLegal' /\ RowsAfter' = RowsAfter
      BY <2>1, <2>2, <3>1, RowsStayOpen DEF ClosedStates
    <3> QED  BY <2>2, <3>1, <3>2, <3>3 DEF SafeStep, PinsFit, Handshake, RowFits
  <2>4. CASE ~Follows(FALSE) /\ state = "read_4" /\ Follows(TRUE)
    <3>1. Keep(in, "open_in_2")  BY <1>4, <2>4 DEF ReadTail
    <3>2. state' = "open_in_2" /\ got_transaction' /\ ~ready_for_new'
      BY <2>1, <2>4, <3>1, KeepFacts DEF Follows
    <3>3. save' = save /\ RowsAfter[save.bank] = save.row
      BY <2>1, <2>4, Held DEF Follows
    <3>4. OneRow' /\ CommandsLegal' /\ RowsAfter' = RowsAfter
      BY <2>1, <2>2, <3>2, RowsStayOpen DEF ClosedStates
    <3> QED  BY <3>2, <3>3, <3>4 DEF SafeStep, PinsFit, Handshake, RowFits
  <2>5. CASE ~Follows(FALSE) /\ ~(state = "read_4" /\ Follows(TRUE))
    <3>1. Keep(in, AfterRead[state])  BY <1>4, <2>5 DEF ReadTail
    <3>2. AfterRead[state] \in {"read_3", "read_4", "precharge"}  BY <2>1 DEF AfterRead
    <3>3. state' = AfterRead[state] /\ (got_transaction' => ~ready_for_new')
      BY <2>1, <3>1, KeepFacts
    <3>4. OneRow' /\ CommandsLegal' /\ RowsAfter' = RowsAfter
      BY <2>1, <2>2, <3>2, <3>3, RowsStayOpen DEF ClosedStates
    <3>5. (got_transaction' => can_back_to_back') => RowsAfter[save'.bank] = save'.row
      BY <2>1, <3>1, KeepFacts, LatchFits
    <3> QED
      BY <2>2, <3>2, <3>3, <3>4, <3>5 DEF SafeStep, PinsFit, Handshake, RowFits
  <2> QED  BY <2>3, <2>4, <2>5
<1> QED  BY <1>1, <1>2, <1>3, <1>4

(* Writing, and closing the row at the end of either.                      *)
LEMMA WritingSafe ==
  ASSUME SafeInv, NEW in \in ClientInputs, ~in.reset, Latch(in), Chip,
         Write1(in) \/ Write2(in) \/ Write3(in) \/ Precharge(in)
  PROVE  SafeStep'
<1> USE DEF SafeInv
<1>1. CASE Write1(in)
  <2>1. state = "write_1" /\ (got_transaction => ~ready_for_new)
        /\ RowsAfter[save.bank] = save.row
    BY <1>1 DEF Write1, Handshake, RowFits
  <2>2. save.bank = iob.bank  BY <2>1, BankOnPins DEF ClosedStates
  <2>3. iob'.cmd = "WRITE" /\ iob'.bank = iob.bank  BY <1>1, <2>2 DEF Write1
  <2>4. Keep(in, "write_2")  BY <1>1 DEF Write1
  <2>5. state' = "write_2" /\ (got_transaction' => ~ready_for_new')
    BY <2>1, <2>4, KeepFacts
  <2>6. OneRow' /\ CommandsLegal' /\ RowsAfter' = RowsAfter
    BY <2>1, <2>3, <2>5, RowsStayOpen DEF ClosedStates
  <2>7. (got_transaction' => can_back_to_back') => RowsAfter[save'.bank] = save'.row
    BY <2>1, <2>4, KeepFacts, LatchFits
  <2> QED  BY <2>3, <2>5, <2>6, <2>7 DEF SafeStep, PinsFit, Handshake, RowFits
<1>2. ASSUME Write2(in) \/ Write3(in)
      PROVE  SafeStep'
  <2>1. state \in {"write_2", "write_3"} /\ (got_transaction => ~ready_for_new)
        /\ ((got_transaction => can_back_to_back) => RowsAfter[save.bank] = save.row)
    BY <1>2 DEF Write2, Write3, Handshake, RowFits
  <2>2. iob'.bank = iob.bank /\ iob'.cmd \in {"READ", "WRITE", "NOP", "TERMINATE"}
    BY <1>2, <2>1 DEF Write2, Write3, PinsFit, TypeInv, TypeOK, ControllerTypeOK, Pins
  <2>3. CASE Follows(TRUE)
    <3>1. state' = "write_1" /\ ~got_transaction'
      BY <1>2, <2>3, ReopenFacts DEF Write2, Write3
    <3>2. save' = save /\ RowsAfter[save.bank] = save.row
      BY <2>1, <2>3, Held DEF Follows
    <3>3. OneRow' /\ CommandsLegal' /\ RowsAfter' = RowsAfter
      BY <2>1, <2>2, <3>1, RowsStayOpen DEF ClosedStates
    <3> QED  BY <2>2, <3>1, <3>2, <3>3 DEF SafeStep, PinsFit, Handshake, RowFits
  <2>4. CASE ~Follows(TRUE)
    <3>1. PICK s \in {"write_3", "precharge"} : Keep(in, s)
      BY <1>2, <2>4 DEF Write2, Write3
    <3>2. state' = s /\ (got_transaction' => ~ready_for_new')
      BY <2>1, <3>1, KeepFacts
    <3>3. OneRow' /\ CommandsLegal' /\ RowsAfter' = RowsAfter
      BY <2>1, <2>2, <3>2, RowsStayOpen DEF ClosedStates
    <3>4. (got_transaction' => can_back_to_back') => RowsAfter[save'.bank] = save'.row
      BY <2>1, <3>1, KeepFacts, LatchFits
    <3> QED  BY <2>2, <3>2, <3>3, <3>4 DEF SafeStep, PinsFit, Handshake, RowFits
  <2> QED  BY <2>3, <2>4
<1>3. CASE Precharge(in)
  <2>1. state = "precharge" /\ state' = "idle_in_4" /\ (got_transaction' => ~ready_for_new')
    BY <1>3, KeepFacts DEF Precharge, Handshake
  <2>2. iob'.cmd = "PRECHARGE" /\ iob'.bank = iob.bank /\ iob.bank \in Banks
    BY <1>3 DEF Precharge, TypeInv, TypeOK, ControllerTypeOK, Pins
  <2>3. /\ open_row' = RowsAfter /\ RowsAfter \in [Banks -> Rows \cup {Closed}]
        /\ RowsAfter' = [RowsAfter EXCEPT ![iob.bank] = Closed]
    BY <2>2, RowsAfterStep
  <2>4. /\ RowsAfter[iob.bank] \in Rows
        /\ \A b \in Banks \ {iob.bank} : RowsAfter[b] = Closed
    BY <2>1 DEF OneRow, ClosedStates
  <2>5. OneRow'  BY <2>1, <2>2, <2>3, <2>4 DEF OneRow, ClosedStates
  <2>6. CommandsLegal'
    BY <2>2, <2>3, <2>4, SentinelAssumption DEF CommandsLegal
  <2> QED  BY <2>1, <2>5, <2>6 DEF SafeStep, PinsFit, Handshake, RowFits
<1> QED  BY <1>1, <1>2, <1>3

-----------------------------------------------------------------------------
(* The invariant holds initially, and a step without a reset keeps it.     *)
THEOREM InitSafe == SDRAMInit => SafeInv
<1> SUFFICES ASSUME SDRAMInit PROVE SafeInv  OBVIOUS
<1>1. iob.cmd = "NOP" /\ state = "startup" /\ open_row = [b \in Banks |-> Closed]
  BY DEF SDRAMInit, ControllerInit, ChipInit
<1>2. RowsAfter = open_row  BY <1>1 DEF RowsAfter
<1>3. OneRow  BY <1>1, <1>2 DEF OneRow, ClosedStates
<1>4. PinsFit /\ RowFits /\ CommandsLegal  BY <1>1 DEF PinsFit, RowFits, CommandsLegal
<1>5. Handshake  BY DEF SDRAMInit, ControllerInit, Handshake
<1> QED  BY <1>3, <1>4, <1>5, InitTyped DEF SafeInv

(* An edge keeps the invariant, whatever its action, if it is no reset or a *)
(* quiet one.                                                               *)
LEMMA ClockSafe ==
  ASSUME SafeInv, NEW in \in ClientInputs, QuietReset(in), SDRAMClock(in)
  PROVE  SafeInv'
<1>1. Latch(in) /\ Chip /\ ControllerState(in)  BY DEF SDRAMClock
<1>2. TypeInv'
  <2>1. TypeInv  BY DEF SafeInv
  <2>2. ControllerTypeOK' /\ PinsMeaningful'  BY <1>1, <2>1, ControllerStepType
  <2>3. ChipTypeOK'  BY <1>1, <2>1, ChipStepType
  <2> QED  BY <2>2, <2>3 DEF TypeInv, TypeOK
<1>3. CASE Startup(in) \/ IdleWait(in) \/ LoadMode(in) \/ IdleNop(in)
  BY <1>1, <1>2, <1>3, ClosedActionsSafe DEF SafeInv, SafeStep
<1>4. CASE ~(Startup(in) \/ IdleWait(in) \/ LoadMode(in) \/ IdleNop(in))
  <2>1. ~in.reset
    BY <1>1, <1>4 DEF QuietReset, ControllerState, ClosedStates, Activate, OpenIn2, OpenIn1, Read1,
       BurstRead, BurstTerminate, ReadTail, AfterRead, Write1, Write2, Write3, Precharge
  <2> QED
    BY <1>1, <1>2, <1>4, <2>1, OpeningSafe, ReadingSafe, WritingSafe
       DEF ControllerState, SafeInv, SafeStep
<1> QED  BY <1>3, <1>4

(* Without resets every edge keeps the invariant.                          *)
THEOREM StepSafe == NoReset /\ SafeInv /\ [SDRAMNext]_sdramVars => SafeInv'
<1> SUFFICES ASSUME NoReset, SafeInv, [SDRAMNext]_sdramVars PROVE SafeInv'  OBVIOUS
<1>1. CASE SDRAMNext
  <2>1. PICK in \in Inputs : SDRAMClock(in)  BY <1>1 DEF SDRAMNext
  <2>2. in \in ClientInputs /\ QuietReset(in)  BY InputsAssumption DEF NoReset, QuietReset
  <2> QED  BY <2>1, <2>2, ClockSafe
<1>2. CASE UNCHANGED sdramVars
  <2>1. TypeInv'  BY <1>2, StepTyped DEF SafeInv
  <2> QED
    BY <1>2, <2>1 DEF sdramVars, ctrlVars, chipVars, SafeInv, OneRow, RowsAfter, PinsFit,
       Handshake, RowFits, CommandsLegal, AllClosed
<1> QED  BY <1>1, <1>2

(* Without a reset in mid-flight no command of the controller finds a row  *)
(* of the chip in the wrong condition, for every geometry of the chip and  *)
(* whatever the client asks, bursts and changes of their length included.  *)
THEOREM CommandsAlwaysLegal ==
  ASSUME NoReset
  PROVE  SDRAMSpec => []CommandsLegal
<1>1. SafeInv /\ [SDRAMNext]_sdramVars => SafeInv'  BY StepSafe
<1>2. SafeInv => CommandsLegal  BY DEF SafeInv
<1> QED  BY <1>1, <1>2, InitSafe, PTL DEF SDRAMSpec

(* The pins of a state about to issue a transaction neither open nor close *)
(* a row, so that the row RowFits announces is already open in the chip.   *)
LEMMA RowAnnouncedIsOpen == SafeInv => RightRowOpen
<1> SUFFICES ASSUME SafeInv, state \in {"read_1", "write_1"}
             PROVE  open_row[save.bank] = save.row
  BY DEF RightRowOpen
<1>1. RowsAfter = open_row  BY DEF SafeInv, PinsFit, RowsAfter
<1> QED  BY <1>1 DEF SafeInv, RowFits

(* Without a reset in mid-flight a transaction that skips ACTIVE finds the *)
(* row it was accepted for open in its bank.                               *)
THEOREM RowAlwaysRight ==
  ASSUME NoReset
  PROVE  SDRAMSpec => []RightRowOpen
<1>1. SafeInv /\ [SDRAMNext]_sdramVars => SafeInv'  BY StepSafe
<1> QED  BY <1>1, InitSafe, RowAnnouncedIsOpen, PTL DEF SDRAMSpec

(* A client that never selects full-page bursts.                           *)
NoFullPage == \A in \in Inputs : in.burst # 7

NoBurst == burst_old # 7 /\ state # "burst_read"

(* Only a full-page burst leaves cmd_ready up while a transaction is held: *)
(* a client that uses none never has an accepted transaction replaced.     *)
THEOREM NeverOverwritten ==
  ASSUME NoReset, NoFullPage
  PROVE  SDRAMSpec => []NoOverwrite
<1>1. SafeInv /\ [SDRAMNext]_sdramVars => SafeInv'  BY StepSafe
<1>2. SDRAMInit => NoBurst  BY DEF SDRAMInit, ControllerInit, NoBurst
<1>3. SafeInv /\ NoBurst /\ [SDRAMNext]_sdramVars => NoBurst'
  <2> SUFFICES ASSUME SafeInv, NoBurst, [SDRAMNext]_sdramVars PROVE NoBurst'  OBVIOUS
  <2>1. CASE SDRAMNext
    <3>1. PICK in \in Inputs : SDRAMClock(in)  BY <2>1 DEF SDRAMNext
    <3>2. in.burst # 7 /\ ~in.reset  BY DEF NoFullPage, NoReset
    <3>3. burst_old' # 7
      BY <3>1, <3>2 DEF SDRAMClock, ControllerState, NoBurst, Startup, IdleWait, LoadMode,
         Activate, IdleNop, OpenIn2, OpenIn1, Read1, BurstRead, BurstTerminate, ReadTail,
         Write1, Write2, Write3, Precharge
    <3>4. ~(burst_old > 1)
      BY DEF NoBurst, SafeInv, TypeInv, TypeOK, ControllerTypeOK, Modes
    <3>5. state' # "burst_read"
      <4>1. CASE Read1(in)  BY <3>4, <4>1 DEF Read1, Keep, Goto
      <4>2. CASE IdleWait(in)
        <5>1. state' = AfterWait[state] /\ state \in DOMAIN AfterWait
          BY <3>2, <4>2 DEF IdleWait, Keep, Goto
        <5> QED  BY <5>1 DEF AfterWait
      <4>3. CASE ReadTail(in)
        <5>1. state' \in {AfterRead[state], "read_1", "open_in_2"} /\ state \in DOMAIN AfterRead
          BY <3>2, <4>3 DEF ReadTail, Keep, Reopen, Goto
        <5> QED  BY <5>1 DEF AfterRead
      <4>4. CASE ~Read1(in) /\ ~IdleWait(in) /\ ~ReadTail(in)
        BY <3>1, <3>2, <4>4 DEF SDRAMClock, ControllerState, NoBurst, Startup, LoadMode,
           Activate, IdleNop, OpenIn2, OpenIn1, BurstRead, BurstTerminate, Write1, Write2,
           Write3, Precharge, Keep, Reopen, Goto
      <4> QED  BY <4>1, <4>2, <4>3, <4>4
    <3> QED  BY <3>3, <3>5 DEF NoBurst
  <2>2. CASE UNCHANGED sdramVars  BY <2>2 DEF sdramVars, ctrlVars, NoBurst
  <2> QED  BY <2>1, <2>2
<1>4. SafeInv /\ NoBurst => NoOverwrite
  BY DEF SafeInv, Handshake, NoBurst, NoOverwrite
<1> QED  BY <1>1, <1>2, <1>3, <1>4, InitSafe, PTL DEF SDRAMSpec

-----------------------------------------------------------------------------
(* A write is on the pins, or words of one are still to come.              *)
WriteRuns == iob.cmd = "WRITE" \/ chip_stream.kind = "write"

WriteStates == {"write_1", "write_2", "write_3"}

\* The bus is turned before a write starts, and a write is over when it is
\* turned back: the command that ends it is on the pins at that edge.
BusTurned ==
  /\ state = "open_in_1" => dq_hiz = ~save.wr
  /\ state \in WriteStates => ~dq_hiz
  /\ WriteRuns => \/ state \in WriteStates \cup {"precharge"} /\ ~dq_hiz
                  \/ state = "idle_in_4" /\ iob.cmd = "PRECHARGE"

(* The chip goes on with a write only if one was on the pins or running,   *)
(* and PRECHARGE ends it.                                                  *)
LEMMA ChipStartsNoWrite ==
  ASSUME TypeInv, Chip, ~WriteRuns \/ iob.cmd = "PRECHARGE", iob'.cmd # "WRITE"
  PROVE  ~WriteRuns'
<1>1. chip_stream' = ChipStream  BY DEF Chip
<1>2. chip_stream \in Streams /\ iob.cmd \in Commands
  BY DEF TypeInv, TypeOK, ChipTypeOK, ControllerTypeOK, Pins
<1>3. CASE iob.cmd = "PRECHARGE"
  BY <1>1, <1>3 DEF ChipStream, Idle, WriteRuns
<1>4. CASE iob.cmd # "PRECHARGE"
  <2>1. iob.cmd # "WRITE" /\ chip_stream.kind # "write"  BY <1>4 DEF WriteRuns
  <2>2. StartStream("read").kind # "write"  BY DEF StartStream, Idle
  <2>3. StreamNext.kind # "write"  BY <1>2, <2>1 DEF StreamNext, Idle, Streams
  <2>4. ChipStream.kind # "write"
    BY <1>4, <2>1, <2>2, <2>3 DEF ChipStream, Idle
  <2> QED  BY <1>1, <2>4 DEF WriteRuns
<1> QED  BY <1>3, <1>4

(* Actions outside the write states start no write, whatever they do with  *)
(* the bus.                                                                *)
LEMMA OthersWriteNothing ==
  ASSUME SafeInv, BusTurned, NEW in \in ClientInputs, Chip,
         \/ Startup(in) \/ IdleWait(in) \/ LoadMode(in) \/ Activate(in) \/ IdleNop(in)
         \/ OpenIn2(in) \/ OpenIn1(in) \/ Read1(in) \/ BurstRead(in) \/ BurstTerminate(in)
         \/ ReadTail(in)
  PROVE  ~WriteRuns'
<1> USE DEF SafeInv, TypeInv, TypeOK, ControllerTypeOK, Pins
<1>1. state \notin WriteStates \cup {"precharge"}
  BY DEF Startup, IdleWait, LoadMode, Activate, IdleNop, OpenIn2, OpenIn1, Read1, BurstRead,
     BurstTerminate, ReadTail, AfterWait, AfterRead, WriteStates
<1>2. ~WriteRuns \/ iob.cmd = "PRECHARGE"  BY <1>1 DEF BusTurned
<1>3. iob.cmd # "WRITE"  BY <1>2 DEF WriteRuns
<1>4. iob'.cmd # "WRITE"
  BY <1>3 DEF Startup, IdleWait, LoadMode, Activate, IdleNop, OpenIn2, OpenIn1, Read1,
     BurstRead, BurstTerminate, ReadTail
<1> QED  BY <1>2, <1>4, ChipStartsNoWrite

(* An edge keeps the bus turned, quiet resets included.                    *)
LEMMA ClockTurned ==
  ASSUME SafeInv, BusTurned, NEW in \in ClientInputs, QuietReset(in), SDRAMClock(in)
  PROVE  BusTurned'
<1> USE DEF SafeInv
<1>0. Latch(in) /\ ControllerState(in) /\ Chip  BY DEF SDRAMClock
<1>a. in.reset => state \in ClosedStates  BY DEF QuietReset
<1>1. CASE OpenIn2(in)
  <2>1. state' = "open_in_1"  BY <1>1, <1>a, KeepFacts DEF OpenIn2, Handshake, ClosedStates
  <2>2. save' = save  BY <1>0, <1>1, Held DEF OpenIn2, Handshake
  <2>3. dq_hiz' = ~save.wr  BY <1>1 DEF OpenIn2
  <2>4. ~WriteRuns'  BY <1>0, <1>1, OthersWriteNothing
  <2> QED  BY <2>1, <2>2, <2>3, <2>4 DEF BusTurned, WriteStates
<1>2. CASE OpenIn1(in)
  <2>1. state = "open_in_1" /\ dq_hiz' = dq_hiz  BY <1>2 DEF OpenIn1
  <2>2. save.wr \in BOOLEAN
    BY DEF TypeInv, TypeOK, ControllerTypeOK, Transactions
  <2>3. state' = IF save.wr THEN "write_1" ELSE "read_1"  BY <1>2, <1>a, ReopenFacts DEF OpenIn1, ClosedStates
  <2>4. ~WriteRuns'  BY <1>0, <1>2, OthersWriteNothing
  <2> QED  BY <2>1, <2>2, <2>3, <2>4 DEF BusTurned, WriteStates
<1>3. CASE Write1(in) \/ Write2(in) \/ Write3(in)
  <2>1. state \in WriteStates /\ dq_hiz' = dq_hiz
    BY <1>3 DEF Write1, Write2, Write3, WriteStates
  <2>2. PICK s \in WriteStates \cup {"precharge"} : Keep(in, s) \/ Reopen(in, s)
    BY <1>3 DEF Write1, Write2, Write3, WriteStates
  <2>3. state' = s  BY <1>a, <2>1, <2>2 DEF Keep, Reopen, Goto, WriteStates, ClosedStates
  <2> QED  BY <2>1, <2>3 DEF BusTurned, WriteStates
<1>4. CASE Precharge(in)
  <2>1. state' = "idle_in_4"
    BY <1>4, <1>a, KeepFacts DEF Precharge, Handshake, ClosedStates
  <2>2. iob'.cmd = "PRECHARGE"
    BY <1>4 DEF Precharge, TypeInv, TypeOK, ControllerTypeOK, Pins
  <2> QED  BY <2>1, <2>2 DEF BusTurned, WriteStates
<1>5. ASSUME \/ Startup(in) \/ IdleWait(in) \/ LoadMode(in) \/ Activate(in) \/ IdleNop(in)
             \/ Read1(in) \/ BurstRead(in) \/ BurstTerminate(in) \/ ReadTail(in)
      PROVE  BusTurned'
  <2>1. ~WriteRuns'  BY <1>0, <1>5, OthersWriteNothing
  <2>2. state' \notin WriteStates \cup {"open_in_1"}
    <3>1. CASE IdleWait(in)
      <4>1. state' \in {AfterWait[state], "startup"} /\ state \in DOMAIN AfterWait
        BY <3>1 DEF IdleWait, Keep, Goto
      <4> QED  BY <4>1 DEF AfterWait, WriteStates
    <3>2. CASE ReadTail(in)
      <4>1. /\ state' \in {AfterRead[state], "read_1", "open_in_2", "startup"}
            /\ state \in DOMAIN AfterRead
        BY <3>2 DEF ReadTail, Keep, Reopen, Goto
      <4> QED  BY <4>1 DEF AfterRead, WriteStates
    <3>3. CASE ~IdleWait(in) /\ ~ReadTail(in)
      BY <1>5, <3>3 DEF Startup, LoadMode, Activate, IdleNop, Read1, BurstRead, BurstTerminate,
         Keep, Reopen, Goto, WriteStates
    <3> QED  BY <3>1, <3>2, <3>3
  <2> QED  BY <2>1, <2>2 DEF BusTurned
<1> QED  BY <1>0, <1>1, <1>2, <1>3, <1>4, <1>5 DEF ControllerState

(* Without a reset in mid-flight every word of a write finds the data bus  *)
(* driven, the second word of a pair and those of a full-page burst        *)
(* included, however reads and writes follow one another.                  *)
THEOREM WritesAlwaysDriven ==
  ASSUME NoReset
  PROVE  SDRAMSpec => []WriteDrivesBus
<1>1. SafeInv /\ [SDRAMNext]_sdramVars => SafeInv'  BY StepSafe
<1>2. SDRAMInit => BusTurned
  BY DEF SDRAMInit, ControllerInit, ChipInit, Idle, BusTurned, WriteRuns, WriteStates
<1>3. SafeInv /\ BusTurned /\ [SDRAMNext]_sdramVars => BusTurned'
  <2> SUFFICES ASSUME SafeInv, BusTurned, [SDRAMNext]_sdramVars PROVE BusTurned'  OBVIOUS
  <2>1. CASE SDRAMNext
    <3>1. PICK in \in Inputs : SDRAMClock(in)  BY <2>1 DEF SDRAMNext
    <3>2. in \in ClientInputs /\ QuietReset(in)  BY InputsAssumption DEF NoReset, QuietReset
    <3> QED  BY <3>1, <3>2, ClockTurned
  <2>2. CASE UNCHANGED sdramVars
    BY <2>2 DEF sdramVars, ctrlVars, chipVars, BusTurned, WriteRuns
  <2> QED  BY <2>1, <2>2
<1>4. BusTurned => WriteDrivesBus
  BY DEF BusTurned, WriteRuns, WriteDrivesBus, WritesNow
<1> QED  BY <1>1, <1>2, <1>3, <1>4, InitSafe, PTL DEF SDRAMSpec

-----------------------------------------------------------------------------
(* Every answer of the controller is a word of the chip, single reads,     *)
(* pairs and full-page bursts alike.                                       *)

(* The chip answers the command on the pins, or goes on with a burst.      *)
ChipAnswers == ReadsNow /\ open_row[BankNow] # Closed

\* Each place of the delay line has its word in the chip's pipeline.
DelayFits ==
  /\ 3 \in data_ready_delay => ChipAnswers
  /\ 2 \in data_ready_delay => dq[1] # NoData
  /\ 1 \in data_ready_delay => dq[2] # NoData
  /\ 0 \in data_ready_delay => dq[3] # NoData

\* The burst length of the chip once the command on the pins has been obeyed.
ModeAfter == IF iob.cmd = "LOAD_MODE" THEN iob.addr ELSE chip_mode

\* A full-page burst has the chip's full page behind it.
BurstRuns ==
  /\ burst_old = 7 => ModeAfter = 7
  /\ state = "burst_read" =>
       /\ burst_old = 7
       /\ \/ iob.cmd = "READ"
          \/ /\ iob.cmd = "NOP" /\ chip_stream.kind = "read"
             /\ chip_stream.left /\ chip_stream.bank = iob.bank

AnswerInv == DelayFits /\ BurstRuns /\ AnswersAreWords

-----------------------------------------------------------------------------
(* A word moves through the chip's pipeline in step with its place in the  *)
(* delay line; what is left to show is that a new place has its read.      *)
LEMMA DelayLineFits ==
  ASSUME TypeInv, DelayFits, Chip, NEW issue \in BOOLEAN, DelayLine(issue),
         issue => ChipAnswers'
  PROVE  DelayFits' /\ AnswersAreWords'
<1> USE DEF TypeInv, TypeOK, ControllerTypeOK, ChipTypeOK
<1>1. data_ready_delay \in SUBSET (0 .. 3)  OBVIOUS
<1>2. data_ready_delay' = {i - 1 : i \in data_ready_delay \ {0}} \cup (IF issue THEN {3} ELSE {})
  BY DEF DelayLine
<1>3. /\ 3 \in data_ready_delay' => issue
      /\ 2 \in data_ready_delay' => 3 \in data_ready_delay
      /\ 1 \in data_ready_delay' => 2 \in data_ready_delay
      /\ 0 \in data_ready_delay' => 1 \in data_ready_delay
  BY <1>1, <1>2
<1>4. dq' = [i \in 1 .. 3 |-> IF i = 1 THEN ChipOut ELSE dq[i - 1]]  BY DEF Chip
<1>5. dq'[1] = ChipOut /\ dq'[2] = dq[1] /\ dq'[3] = dq[2]  BY <1>4
<1>6. ChipAnswers => ChipOut # NoData
  <2>1. ChipAnswers => CellNow \in Cells  BY CellNowType DEF ChipAnswers
  <2>2. ChipAnswers => ChipOut \in Words  BY <2>1 DEF ChipAnswers, ChipOut
  <2> QED  BY <2>2, SentinelAssumption
<1>7. DelayFits'  BY <1>3, <1>5, <1>6 DEF DelayFits
<1>8. AnswersAreWords'  BY DEF DelayLine, DelayFits, AnswersAreWords
<1> QED  BY <1>7, <1>8

(* The chip keeps the mode that was announced to it.                       *)
LEMMA ModeStep ==
  ASSUME Chip, iob'.cmd = "LOAD_MODE" => iob.cmd = "LOAD_MODE" /\ iob'.addr = iob.addr
  PROVE  ModeAfter' = ModeAfter
BY DEF Chip, ModeAfter

(* Actions that put no new read into the delay line.                       *)
LEMMA QuietActionsAnswer ==
  ASSUME SafeInv, AnswerInv, NEW in \in ClientInputs, QuietReset(in), SDRAMClock(in),
         ~Read1(in), ~BurstRead(in)
  PROVE  AnswerInv'
<1> USE DEF SafeInv
<1>1. ControllerState(in) /\ Chip  BY DEF SDRAMClock
<1>2. DelayLine(FALSE)
  BY <1>1 DEF ControllerState, Startup, IdleWait, LoadMode, Activate, IdleNop, OpenIn2, OpenIn1,
     BurstTerminate, ReadTail, Write1, Write2, Write3, Precharge
<1>3. DelayFits' /\ AnswersAreWords'  BY <1>1, <1>2, DelayLineFits DEF AnswerInv
<1>4. state' # "burst_read"
  <2>1. CASE IdleWait(in)
    <3>1. state' \in {AfterWait[state], "startup"} /\ state \in DOMAIN AfterWait
      BY <2>1 DEF IdleWait, Keep, Goto
    <3> QED  BY <3>1 DEF AfterWait
  <2>2. CASE ReadTail(in)
    <3>1. /\ state' \in {AfterRead[state], "read_1", "open_in_2", "startup"}
          /\ state \in DOMAIN AfterRead
      BY <2>2 DEF ReadTail, Keep, Reopen, Goto
    <3> QED  BY <3>1 DEF AfterRead
  <2>3. CASE ~IdleWait(in) /\ ~ReadTail(in)
    BY <1>1, <2>3 DEF ControllerState, Startup, LoadMode, Activate, IdleNop, OpenIn2, OpenIn1,
       BurstTerminate, Write1, Write2, Write3, Precharge, Keep, Reopen, Goto
  <2> QED  BY <2>1, <2>2, <2>3
<1>5. burst_old' = 7 => ModeAfter' = 7
  <2>1. CASE LoadMode(in)
    BY <2>1 DEF LoadMode, ModeAfter, TypeInv, TypeOK, ControllerTypeOK, Pins
  <2>2. CASE ~LoadMode(in)
    <3>1. burst_old' = burst_old
      BY <1>1, <2>2 DEF ControllerState, Startup, IdleWait, Activate, IdleNop, OpenIn2, OpenIn1,
         BurstTerminate, ReadTail, Write1, Write2, Write3, Precharge
    <3>2. iob'.cmd = "LOAD_MODE" => iob.cmd = "LOAD_MODE" /\ iob'.addr = iob.addr
      <4>0. iob \in Pins  BY DEF TypeInv, TypeOK, ControllerTypeOK
      <4>1. CASE Startup(in) \/ ReadTail(in)
        BY <4>1 DEF Startup, ReadTail
      <4>2. CASE IdleWait(in)
        <5>1. iob' = iob \/ iob' = [iob EXCEPT !.cmd = "NOP"]  BY <4>2 DEF IdleWait
        <5> QED  BY <4>0, <5>1 DEF Pins
      <4>3. CASE Activate(in) \/ IdleNop(in)
        BY <4>0, <4>3 DEF Activate, IdleNop, Pins
      <4>6. CASE OpenIn2(in)
        BY <4>0, <4>6 DEF OpenIn2, Pins
      <4>7. CASE OpenIn1(in)
        <5>1. iob' = iob \/ iob' = [iob EXCEPT !.data = save.data]  BY <4>7 DEF OpenIn1
        <5> QED  BY <4>0, <5>1 DEF Pins
      <4>4. CASE BurstTerminate(in)
        BY <4>0, <4>4 DEF BurstTerminate, Pins
      <4>8. CASE Precharge(in)
        BY <4>0, <4>8 DEF Precharge, Pins
      <4>9. CASE Write1(in)
        BY <4>0, <4>9 DEF Write1, Pins
      <4>5. CASE Write2(in) \/ Write3(in)
        BY <4>0, <4>5 DEF Write2, Write3, Pins
      <4> QED  BY <1>1, <2>2, <4>1, <4>2, <4>3, <4>4, <4>5, <4>6, <4>7, <4>8, <4>9
          DEF ControllerState
    <3> QED  BY <1>1, <3>1, <3>2, ModeStep DEF AnswerInv, BurstRuns
  <2> QED  BY <2>1, <2>2
<1> QED  BY <1>3, <1>4, <1>5 DEF AnswerInv, BurstRuns

(* A read that is put on the pins, single or as the start of a burst, finds*)
(* its row open.                                                           *)
LEMMA Read1Answers ==
  ASSUME SafeInv, AnswerInv, NEW in \in ClientInputs, QuietReset(in), SDRAMClock(in), Read1(in)
  PROVE  AnswerInv'
<1> USE DEF SafeInv
<1>1. Chip /\ state = "read_1" /\ DelayLine(TRUE) /\ burst_old' = burst_old
  BY DEF SDRAMClock, Read1
<1>2. save.bank = iob.bank  BY <1>1, BankOnPins DEF ClosedStates, RowFits
<1>3. iob'.cmd = "READ" /\ iob'.bank = iob.bank
  BY <1>2 DEF Read1, TypeInv, TypeOK, ControllerTypeOK, Pins
<1>4. open_row' = RowsAfter /\ RowsAfter[iob.bank] \in Rows
  BY <1>1, RowsAfterStep DEF OneRow, ClosedStates
<1>5. ChipAnswers'  BY <1>3, <1>4, SentinelAssumption DEF ChipAnswers, ReadsNow, BankNow
<1>6. DelayFits' /\ AnswersAreWords'  BY <1>1, <1>5, DelayLineFits DEF AnswerInv
<1>7. ModeAfter' = ModeAfter  BY <1>1, <1>3, ModeStep
<1>8. state' = "burst_read" => burst_old = 7
  <2>1. burst_old > 1 => burst_old = 7  BY DEF TypeInv, TypeOK, ControllerTypeOK, Modes
  <2> QED  BY <2>1 DEF Read1, Keep, Goto
<1> QED  BY <1>1, <1>3, <1>6, <1>7, <1>8 DEF AnswerInv, BurstRuns

(* Every further word of a full-page burst comes from the row it started in. *)
LEMMA BurstReadAnswers ==
  ASSUME SafeInv, AnswerInv, NEW in \in ClientInputs, QuietReset(in), SDRAMClock(in), BurstRead(in)
  PROVE  AnswerInv'
<1> USE DEF SafeInv
<1>1. /\ Chip /\ state = "burst_read" /\ DelayLine(TRUE) /\ burst_old' = burst_old
      /\ burst_old = 7
  BY DEF SDRAMClock, BurstRead, AnswerInv, BurstRuns
<1>2. iob'.cmd = "NOP" /\ iob'.bank = iob.bank
  BY DEF BurstRead, TypeInv, TypeOK, ControllerTypeOK, Pins
<1>3. open_row' = RowsAfter /\ RowsAfter[iob.bank] \in Rows
  BY <1>1, RowsAfterStep DEF OneRow, ClosedStates
<1>4. chip_stream'.kind = "read" /\ chip_stream'.left /\ chip_stream'.bank = iob.bank
  <2>1. chip_stream' = ChipStream /\ chip_stream \in Streams
    BY <1>1 DEF Chip, TypeInv, TypeOK, ChipTypeOK
  <2>2. CASE iob.cmd = "READ"
    <3>1. chip_mode = 7  BY <1>1, <2>2 DEF AnswerInv, BurstRuns, ModeAfter
    <3>2. chip_stream' = [kind |-> "read", bank |-> iob.bank,
                          col |-> NextCol(iob.addr, chip_mode), left |-> TRUE]
      BY <2>1, <2>2, <3>1 DEF ChipStream, StartStream
    <3> QED  BY <3>2
  <2>3. CASE iob.cmd # "READ"
    <3>1. /\ iob.cmd = "NOP" /\ chip_stream.kind = "read"
          /\ chip_stream.left /\ chip_stream.bank = iob.bank
      BY <1>1, <2>3 DEF AnswerInv, BurstRuns
    <3>2. chip_stream' = [chip_stream EXCEPT !.col = NextCol(chip_stream.col, chip_mode)]
      BY <2>1, <3>1 DEF ChipStream, StreamNext
    <3> QED  BY <2>1, <3>1, <3>2 DEF Streams
  <2> QED  BY <2>2, <2>3
<1>5. ChipAnswers'  BY <1>2, <1>3, <1>4, SentinelAssumption DEF ChipAnswers, ReadsNow, BankNow
<1>6. DelayFits' /\ AnswersAreWords'  BY <1>1, <1>5, DelayLineFits DEF AnswerInv
<1>7. ModeAfter' = ModeAfter  BY <1>1, <1>2, ModeStep
<1> QED  BY <1>1, <1>2, <1>4, <1>6, <1>7 DEF AnswerInv, BurstRuns

(* Together: an edge keeps the invariant, quiet resets included.           *)
LEMMA ClockAnswers ==
  ASSUME SafeInv, AnswerInv, NEW in \in ClientInputs, QuietReset(in), SDRAMClock(in)
  PROVE  AnswerInv'
BY QuietActionsAnswer, Read1Answers, BurstReadAnswers

LEMMA InitAnswers == SDRAMInit => AnswerInv
BY DEF SDRAMInit, ControllerInit, AnswerInv, DelayFits, BurstRuns, AnswersAreWords

(* Without a reset in mid-flight data_out_ready is never raised for        *)
(* anything but a word the chip has put on the bus, for every geometry of  *)
(* the chip, every mix of single reads, pairs, full-page bursts and writes *)
(* and every moment at which the client ends a burst.                      *)
THEOREM AnswersAlwaysWords ==
  ASSUME NoReset
  PROVE  SDRAMSpec => []AnswersAreWords
<1>1. SafeInv /\ [SDRAMNext]_sdramVars => SafeInv'  BY StepSafe
<1>2. SafeInv /\ AnswerInv /\ [SDRAMNext]_sdramVars => AnswerInv'
  <2> SUFFICES ASSUME SafeInv, AnswerInv, [SDRAMNext]_sdramVars PROVE AnswerInv'  OBVIOUS
  <2>1. CASE SDRAMNext
    <3>1. PICK in \in Inputs : SDRAMClock(in)  BY <2>1 DEF SDRAMNext
    <3>2. in \in ClientInputs /\ QuietReset(in)  BY InputsAssumption DEF NoReset, QuietReset
    <3> QED  BY <3>1, <3>2, ClockAnswers
  <2>2. CASE UNCHANGED sdramVars
    BY <2>2 DEF sdramVars, ctrlVars, chipVars, AnswerInv, DelayFits, BurstRuns, AnswersAreWords,
       ChipAnswers, ReadsNow, BankNow, ModeAfter
  <2> QED  BY <2>1, <2>2
<1>3. AnswerInv => AnswersAreWords  BY DEF AnswerInv
<1> QED  BY <1>1, <1>2, <1>3, InitSafe, InitAnswers, PTL DEF SDRAMSpec
=============================================================================
