-------------------------- MODULE CardMemoryProofs --------------------------
(***************************************************************************)
(* What the card does to its memory: a write that the arbiter has put on   *)
(* the port is stored, once and where it belongs, however long the         *)
(* controller holds it and whatever is put on the port after it; and the   *)
(* memory that the host sees through its accesses is a plain one.          *)
(***************************************************************************)
EXTENDS CardPortProofs

-----------------------------------------------------------------------------
(* The controller.                                                         *)

InCell(in) == <<in.bank, in.row, in.col>>

\* The controller holds a write that is not on the pins yet.
HoldsWrite == (got_transaction \/ state = "write_1") /\ save.wr

\* The memory once the controller has stored what it holds.
CtrlMem == Store(MemNow, HoldsWrite, SavedCell, save.data, save.lanes)

\* The second word of a two-word burst is being stored.
Spills == iob.cmd = "NOP" /\ chip_stream.kind = "write"

\* The transaction in save is of the kind the state works on.
InPlace ==
  /\ state \in {"read_1", "burst_read"} => ~save.wr
  /\ state = "write_1" => save.wr /\ ~got_transaction

\* A second word goes beside the word whose column is still on the pins.
SpillPlace ==
  /\ state = "write_2" => iob.cmd = "WRITE"
  /\ Spills => /\ state \in {"write_1", "write_3"} /\ burst_old = 1
               /\ chip_mode \in {1, 7} /\ chip_stream.bank = iob.bank
               /\ chip_stream.col = NextCol(iob.addr, chip_mode)

\* No write is accepted while a full page is read.
PageHasNoWrites(in) ==
  state = "burst_read" \/ (state = "read_1" /\ burst_old > 1) => (Accepts(in) => ~in.wr)

LEMMA StoreAt ==
  ASSUME NEW m \in [Cells -> Words], NEW yes, NEW cell \in Cells, NEW word, NEW bytes, NEW c \in Cells
  PROVE  Store(m, yes, cell, word, bytes)[c]
           = IF yes /\ cell = c THEN Merge(m[c], word, bytes) ELSE m[c]
BY DEF Store

LEMMA StoreType ==
  ASSUME NEW m \in [Cells -> Words], NEW yes, NEW cell \in Cells, NEW word \in Words, NEW bytes
  PROVE  Store(m, yes, cell, word, bytes) \in [Cells -> Words]
<1>1. Merge(m[cell], word, bytes) \in Words
  <2>1. m[cell] \in Words  OBVIOUS
  <2> QED  BY <2>1 DEF Merge, Words
<1> QED  BY <1>1 DEF Store

\* A WRITE that stays on the pins stores its bytes again.
LEMMA WriteStays ==
  ASSUME SafeInv, Chip, iob' = iob, iob.cmd = "WRITE"
  PROVE  MemNow' = MemNow
<1>1. mem' = MemNow /\ open_row' = open_row  BY DEF Chip
<1>2. TypeInv  BY DEF SafeInv
<1>3. WritesNow /\ WritesNow' /\ BankNow' = BankNow /\ CellNow' = CellNow
  BY <1>1 DEF WritesNow, BankNow, ColNow, CellNow
<1>4. CASE open_row[BankNow] = Closed
  <2>1. ~(WritesNow' /\ open_row'[BankNow'] # Closed)  BY <1>1, <1>3, <1>4
  <2> QED  BY <1>1, <2>1 DEF MemNow
<1>5. CASE open_row[BankNow] # Closed
  <2>1. CellNow \in Cells /\ mem \in [Cells -> Words] /\ MemNow \in [Cells -> Words]
    BY <1>2, <1>3, <1>5, CellNowType, MemNowType DEF TypeInv, TypeOK, ChipTypeOK
  <2>2. MemNow[CellNow] = Merge(mem[CellNow], iob.data, iob.lanes)
    BY <1>3, <1>5, <2>1 DEF MemNow
  <2>3. Merge(MemNow[CellNow], iob.data, iob.lanes) = MemNow[CellNow]
    BY <2>2 DEF Merge
  <2>4. MemNow' = [MemNow EXCEPT ![CellNow] = Merge(@, iob.data, iob.lanes)]
    BY <1>1, <1>3, <1>5 DEF MemNow
  <2> QED  BY <2>1, <2>3, <2>4
<1> QED  BY <1>4, <1>5

\* A WRITE comes on the pins when the row of its cell is open.
LEMMA WriteLands ==
  ASSUME SafeInv, NEW in, ~in.reset, SDRAMClock(in), Write1(in)
  PROVE  MemNow' = [MemNow EXCEPT ![SavedCell] = Merge(@, save.data, save.lanes)]
<1>1. TypeInv /\ RowFits /\ Chip /\ state = "write_1"  BY DEF SafeInv, SDRAMClock, Write1
<1>2. /\ iob'.cmd = "WRITE" /\ iob'.addr = save.col /\ iob'.bank = save.bank
      /\ iob'.lanes = save.lanes /\ iob'.data = save.data
  BY DEF Write1
<1>3. open_row' = RowsAfter /\ mem' = MemNow  BY <1>1, RowsAfterStep DEF Chip
<1>4. RowsAfter[save.bank] = save.row  BY <1>1 DEF RowFits
<1>5. save.row # Closed
  BY <1>1, SentinelAssumption DEF TypeInv, TypeOK, ControllerTypeOK, Transactions
<1>6. BankNow' = save.bank /\ ColNow' = save.col /\ WritesNow'
  BY <1>2 DEF BankNow, ColNow, WritesNow
<1>7. CellNow' = SavedCell  BY <1>3, <1>4, <1>6 DEF CellNow, SavedCell
<1> QED  BY <1>2, <1>3, <1>4, <1>5, <1>6, <1>7 DEF MemNow

\* An edge that puts no write on the pins leaves the memory as it was, but
\* for a second word.
LEMMA MemoryKept ==
  ASSUME SafeInv, BusTurned, NEW in \in ClientInputs, QuietReset(in), SDRAMClock(in),
         SafeInv', BusTurned', ~Write1(in),
         NEW c \in Cells, ~(Spills' /\ CellNow' = c)
  PROVE  MemNow'[c] = MemNow[c]
<1>1. Chip /\ mem' = MemNow /\ ControllerState(in)  BY DEF SDRAMClock, Chip
<1>2. CASE ~WritesNow'
  BY <1>1, <1>2 DEF MemNow
<1>3. CASE Spills'
  <2>1. MemNow \in [Cells -> Words]  BY MemNowType DEF SafeInv
  <2>2. CellNow' # c  BY <1>3
  <2> QED  BY <1>1, <2>1, <2>2 DEF MemNow
<1>4. CASE WritesNow' /\ ~Spills'
  <2>1. iob'.cmd = "WRITE"
    <3>1. WriteRuns' /\ iob'.cmd # "PRECHARGE"  BY <1>4 DEF WriteRuns, WritesNow
    <3>2. state' \in WriteStates \cup {"precharge"}  BY <3>1 DEF BusTurned
    <3>3. iob'.cmd \in {"READ", "WRITE", "NOP", "TERMINATE"}
      BY <3>2 DEF SafeInv, PinsFit, WriteStates
    <3> QED  BY <1>4, <3>3 DEF Spills, WritesNow
  <2>2. WriteRuns'  BY <2>1 DEF WriteRuns
  <2>3. Write2(in) \/ Write3(in) \/ Precharge(in)
    BY <1>1, <2>2, OthersWriteNothing DEF ControllerState
  <2>4. iob \in Pins  BY DEF SafeInv, TypeInv, TypeOK, ControllerTypeOK
  <2>5. iob' = iob
    BY <2>1, <2>3, <2>4 DEF Write2, Write3, Precharge, Pins
  <2>6. MemNow' = MemNow  BY <1>1, <2>1, <2>5, WriteStays
  <2> QED  BY <2>6
<1> QED  BY <1>2, <1>3, <1>4

\* What is held stays held until its state puts it on the pins, and nothing
\* is accepted over it.
LEMMA HoldsWriteStep ==
  ASSUME SafeInv, StartupQuiet, InPlace, NEW in \in ClientInputs, QuietReset(in),
         PageHasNoWrites(in), SDRAMClock(in)
  PROVE  /\ HoldsWrite' <=> (HoldsWrite /\ state # "write_1") \/ (Accepts(in) /\ in.wr)
         /\ HoldsWrite /\ state # "write_1" => ~Accepts(in)
<1>1. ControllerState(in) /\ Latch(in)  BY DEF SDRAMClock
<1>2. /\ Accepts(in) => save'.wr = in.wr
      /\ ~Accepts(in) => save' = save
  BY <1>1 DEF Latch
<1>3. save.wr \in BOOLEAN /\ in.wr \in BOOLEAN /\ burst_old \in Modes
  BY DEF SafeInv, TypeInv, TypeOK, ControllerTypeOK, Transactions, ClientInputs
<1>4. state # "burst_read" => (got_transaction => ~Accepts(in))
  BY DEF SafeInv, Handshake, Accepts
<1>5. in.reset => state \in ClosedStates /\ ~got_transaction  BY DEF QuietReset
<1>6. CASE Startup(in)
  <2>1. ~Accepts(in) /\ ~got_transaction  BY <1>6 DEF Startup, StartupQuiet, Accepts
  <2> QED  BY <1>2, <1>6, <2>1 DEF Startup, Reopen, Goto, HoldsWrite
<1>7. CASE LoadMode(in) \/ Activate(in) \/ IdleNop(in) \/ OpenIn2(in) \/ Precharge(in)
  <2>1. /\ state' # "write_1" /\ state # "write_1" /\ state # "burst_read"
        /\ got_transaction' = (got_transaction \/ Accepts(in))
    BY <1>7 DEF LoadMode, Activate, IdleNop, OpenIn2, Precharge, Keep, Goto
  <2> QED  BY <1>2, <1>3, <1>4, <2>1 DEF HoldsWrite
<1>8. CASE IdleWait(in)
  <2>1. /\ state' # "write_1" /\ state # "write_1" /\ state # "burst_read"
        /\ got_transaction' = (got_transaction \/ Accepts(in))
    BY <1>8, StateTable DEF IdleWait, Keep, Goto
  <2> QED  BY <1>2, <1>3, <1>4, <2>1 DEF HoldsWrite
<1>9. CASE OpenIn1(in)
  <2>1. got_transaction /\ ~Accepts(in) /\ ~in.reset
    BY <1>4, <1>5, <1>9 DEF OpenIn1, SafeInv, Handshake
  <2>2. state' = (IF save.wr THEN "write_1" ELSE "read_1") /\ ~got_transaction' /\ state = "open_in_1"
    BY <1>9, <2>1 DEF OpenIn1, Reopen, Goto
  <2> QED  BY <1>2, <1>3, <2>1, <2>2 DEF HoldsWrite
<1>10. CASE Read1(in)
  <2>1. /\ ~save.wr /\ state' # "write_1" /\ state = "read_1"
        /\ got_transaction' = (got_transaction \/ Accepts(in))
    BY <1>10 DEF Read1, Keep, Goto, InPlace
  <2> QED  BY <1>2, <1>3, <2>1 DEF HoldsWrite
<1>11. CASE BurstRead(in) \/ BurstTerminate(in)
  <2>1. state = "burst_read" /\ state' # "write_1"
    BY <1>11 DEF BurstRead, BurstTerminate, Reopen, Goto
  <2>2. ~save.wr /\ ~(Accepts(in) /\ in.wr)  BY <2>1 DEF InPlace, PageHasNoWrites
  <2>3. ~save'.wr  BY <1>2, <2>2
  <2> QED  BY <2>1, <2>2, <2>3 DEF HoldsWrite
<1>12. CASE ReadTail(in)
  <2>1. state # "write_1" /\ state # "burst_read"  BY <1>12, StateTable DEF ReadTail
  <2>2. CASE Follows(FALSE)
    <3>1. got_transaction /\ ~save.wr /\ ~Accepts(in)  BY <1>3, <1>4, <2>1, <2>2 DEF Follows
    <3>2. save' = save  BY <1>2, <3>1
    <3> QED  BY <3>1, <3>2 DEF HoldsWrite
  <2>3. CASE ~Follows(FALSE)
    <3>1. state' # "write_1" /\ got_transaction' = (got_transaction \/ Accepts(in))
      BY <1>12, <2>3, StateTable DEF ReadTail, Keep, Goto
    <3> QED  BY <1>2, <1>3, <1>4, <2>1, <3>1 DEF HoldsWrite
  <2> QED  BY <2>2, <2>3
<1>13. CASE Write1(in)
  <2>1. /\ state' # "write_1" /\ state = "write_1" /\ ~got_transaction
        /\ got_transaction' = (got_transaction \/ Accepts(in))
    BY <1>13 DEF Write1, Keep, Goto, InPlace
  <2> QED  BY <1>2, <1>3, <2>1 DEF HoldsWrite
<1>14. CASE Write2(in) \/ Write3(in)
  <2>1. state \in {"write_2", "write_3"} /\ ~in.reset
    BY <1>5, <1>14 DEF Write2, Write3, ClosedStates
  <2>2. CASE Follows(TRUE)
    <3>1. got_transaction /\ save.wr /\ ~Accepts(in)  BY <1>4, <2>1, <2>2 DEF Follows
    <3>2. state' = "write_1"  BY <1>14, <2>1, <2>2 DEF Write2, Write3, Reopen, Goto
    <3> QED  BY <1>2, <2>1, <3>1, <3>2 DEF HoldsWrite
  <2>3. CASE ~Follows(TRUE)
    <3>1. state' # "write_1" /\ got_transaction' = (got_transaction \/ Accepts(in))
      BY <1>14, <2>3 DEF Write2, Write3, Keep, Goto
    <3> QED  BY <1>2, <1>3, <1>4, <2>1, <3>1 DEF HoldsWrite
  <2> QED  BY <2>2, <2>3
<1> QED
  BY <1>1, <1>6, <1>7, <1>8, <1>9, <1>10, <1>11, <1>12, <1>13, <1>14 DEF ControllerState

LEMMA InPlaceStep ==
  ASSUME SafeInv, StartupQuiet, InPlace, NEW in \in ClientInputs, QuietReset(in),
         PageHasNoWrites(in), SDRAMClock(in)
  PROVE  InPlace'
<1>1. ControllerState(in) /\ Latch(in)  BY DEF SDRAMClock
<1>2. /\ Accepts(in) => save'.wr = in.wr
      /\ ~Accepts(in) => save' = save
  BY <1>1 DEF Latch
<1>3. save.wr \in BOOLEAN /\ in.wr \in BOOLEAN /\ burst_old \in Modes
  BY DEF SafeInv, TypeInv, TypeOK, ControllerTypeOK, Transactions, ClientInputs
<1>4. state # "burst_read" => (got_transaction => ~Accepts(in))
  BY DEF SafeInv, Handshake, Accepts
<1>5. in.reset => state \in ClosedStates /\ ~got_transaction  BY DEF QuietReset
<1>6. CASE Startup(in) \/ LoadMode(in) \/ Activate(in) \/ IdleNop(in) \/ OpenIn2(in) \/ Precharge(in)
           \/ Write1(in)
  BY <1>6 DEF Startup, LoadMode, Activate, IdleNop, OpenIn2, Precharge, Write1, Keep, Reopen, Goto,
     InPlace
<1>7. CASE IdleWait(in)
  BY <1>7, StateTable DEF IdleWait, Keep, Goto, InPlace
<1>8. CASE OpenIn1(in)
  <2>1. got_transaction /\ ~Accepts(in) /\ ~in.reset
    BY <1>4, <1>5, <1>8 DEF OpenIn1, SafeInv, Handshake
  <2>2. state' = (IF save.wr THEN "write_1" ELSE "read_1") /\ ~got_transaction'
    BY <1>8, <2>1 DEF OpenIn1, Reopen, Goto
  <2> QED  BY <1>2, <1>3, <2>1, <2>2 DEF InPlace
<1>9. CASE Read1(in)
  <2>1. ~save.wr /\ state = "read_1"  BY <1>9 DEF Read1, InPlace
  <2>2. state' = "burst_read" \/ state' \in {"read_2", "startup"}  BY <1>9 DEF Read1, Keep, Goto
  <2>3. state' = "burst_read" => burst_old > 1  BY <1>9 DEF Read1, Keep, Goto
  <2> QED  BY <1>2, <2>1, <2>2, <2>3 DEF InPlace, PageHasNoWrites
<1>10. CASE BurstRead(in) \/ BurstTerminate(in)
  <2>1. state = "burst_read" /\ state' \in {"burst_read", "precharge", "startup"}
    BY <1>10 DEF BurstRead, BurstTerminate, Reopen, Goto
  <2> QED  BY <1>2, <2>1 DEF InPlace, PageHasNoWrites
<1>11. CASE ReadTail(in)
  <2>1. state # "burst_read" /\ state \in DOMAIN AfterRead  BY <1>11, StateTable DEF ReadTail
  <2>2. CASE Follows(FALSE)
    <3>1. got_transaction /\ ~save.wr /\ ~Accepts(in)  BY <1>3, <1>4, <2>1, <2>2 DEF Follows
    <3>2. state' \in {"read_1", "startup"}  BY <1>11, <2>2 DEF ReadTail, Reopen, Goto
    <3> QED  BY <1>2, <3>1, <3>2 DEF InPlace
  <2>3. CASE ~Follows(FALSE)
    BY <1>11, <2>3, StateTable DEF ReadTail, Keep, Goto, InPlace
  <2> QED  BY <2>2, <2>3
<1>12. CASE Write2(in) \/ Write3(in)
  <2>1. state \in {"write_2", "write_3"}  BY <1>12 DEF Write2, Write3
  <2>2. CASE Follows(TRUE)
    <3>1. got_transaction /\ save.wr /\ ~Accepts(in)  BY <1>4, <2>1, <2>2 DEF Follows
    <3>2. state' \in {"write_1", "startup"} /\ ~got_transaction'
      BY <1>12, <2>2 DEF Write2, Write3, Reopen, Goto
    <3> QED  BY <1>2, <3>1, <3>2 DEF InPlace
  <2>3. CASE ~Follows(TRUE)
    BY <1>12, <2>3 DEF Write2, Write3, Keep, Goto, InPlace
  <2> QED  BY <2>2, <2>3
<1> QED
  BY <1>1, <1>6, <1>7, <1>8, <1>9, <1>10, <1>11, <1>12 DEF ControllerState

LEMMA SpillPlaceStep ==
  ASSUME SafeInv, BusTurned, SpillPlace, NEW in \in ClientInputs, QuietReset(in), SDRAMClock(in)
  PROVE  SpillPlace'
<1>1. Chip /\ ControllerState(in)  BY DEF SDRAMClock
<1>2. /\ iob \in Pins /\ chip_stream \in Streams /\ chip_mode \in Modes \cup {Unset}
      /\ burst_old \in Modes
  BY DEF SafeInv, TypeInv, TypeOK, ControllerTypeOK, ChipTypeOK
<1>3. in.reset => state \in ClosedStates  BY DEF QuietReset
<1>4. CASE Write1(in)
  <2>1. state' \in {"write_2"} /\ iob'.cmd = "WRITE"
    BY <1>3, <1>4 DEF Write1, Keep, Goto, ClosedStates
  <2> QED  BY <2>1 DEF SpillPlace, Spills
<1>5. CASE Write2(in)
  <2>1. state = "write_2" /\ state' \in {"write_1", "write_3"} /\ burst_old' = burst_old
    BY <1>3, <1>5 DEF Write2, Keep, Reopen, Goto, ClosedStates
  <2>2. iob.cmd = "WRITE"  BY <2>1 DEF SpillPlace
  <2>3. CASE burst_old = 1
    <3>1. iob'.cmd = "NOP" /\ iob'.bank = iob.bank /\ iob'.addr = iob.addr
      BY <1>2, <1>5, <2>3 DEF Write2, Pins
    <3>2. chip_stream' = StartStream("write") /\ chip_mode' = chip_mode
      BY <1>1, <2>2 DEF Chip, ChipStream
    <3>3. Spills' => chip_mode \in {1, 7} /\ chip_stream'.bank = iob.bank
                     /\ chip_stream'.col = NextCol(iob.addr, chip_mode)
      BY <3>2 DEF Spills, StartStream, Idle
    <3> QED  BY <2>1, <2>3, <3>1, <3>2, <3>3 DEF SpillPlace
  <2>4. CASE burst_old # 1
    <3>1. iob' = iob  BY <1>5, <2>4 DEF Write2
    <3> QED  BY <2>1, <2>2, <3>1 DEF SpillPlace, Spills
  <2> QED  BY <2>3, <2>4
<1>6. CASE Write3(in)
  <2>1. state = "write_3" /\ state' \in {"write_1", "precharge"} /\ burst_old' = burst_old
    BY <1>3, <1>6 DEF Write3, Keep, Reopen, Goto, ClosedStates
  <2>2. CASE burst_old = 1
    <3>1. iob'.cmd = "TERMINATE"  BY <1>2, <1>6, <2>2 DEF Write3, Pins
    <3> QED  BY <2>1, <3>1 DEF SpillPlace, Spills
  <2>3. CASE burst_old # 1
    <3>1. iob' = iob /\ ~Spills  BY <1>6, <2>1, <2>3 DEF Write3, SpillPlace
    <3>2. Spills' => iob.cmd = "NOP" /\ chip_stream.kind = "write"
      <4>1. chip_stream' = ChipStream  BY <1>1 DEF Chip
      <4>2. iob.cmd = "NOP" => chip_stream' = StreamNext  BY <4>1 DEF ChipStream
      <4>3. StreamNext.kind = "write" => chip_stream.kind = "write"
        BY <1>2 DEF StreamNext, Idle, Streams
      <4> QED  BY <3>1, <4>2, <4>3 DEF Spills
    <3>3. ~Spills'  BY <3>1, <3>2 DEF Spills
    <3> QED  BY <2>1, <3>3 DEF SpillPlace
  <2> QED  BY <2>2, <2>3
<1>7. CASE Precharge(in)
  <2>1. state' \in {"idle_in_4", "startup"} /\ iob'.cmd = "PRECHARGE"
    BY <1>2, <1>7 DEF Precharge, Keep, Goto, Pins
  <2> QED  BY <2>1 DEF SpillPlace, Spills
<1>8. CASE ~(Write1(in) \/ Write2(in) \/ Write3(in) \/ Precharge(in))
  <2>1. ~WriteRuns'  BY <1>1, <1>8, OthersWriteNothing DEF ControllerState
  <2>2. state' # "write_2"
    <3>1. CASE IdleWait(in)
      BY <3>1, StateTable DEF IdleWait, Keep, Goto
    <3>2. CASE ReadTail(in)
      BY <3>2, StateTable DEF ReadTail, Keep, Reopen, Goto
    <3>3. CASE ~IdleWait(in) /\ ~ReadTail(in)
      BY <1>1, <1>8, <3>3 DEF ControllerState, Startup, LoadMode, Activate, IdleNop, OpenIn2, OpenIn1,
         Read1, BurstRead, BurstTerminate, Keep, Reopen, Goto
    <3> QED  BY <3>1, <3>2, <3>3
  <2> QED  BY <2>1, <2>2 DEF SpillPlace, Spills, WriteRuns
<1> QED  BY <1>4, <1>5, <1>6, <1>7, <1>8

\* An edge does to the memory, what is held included, what was accepted: the
\* controller adds nothing and loses nothing.
LEMMA CtrlMemStep ==
  ASSUME SafeInv, BusTurned, StartupQuiet, InPlace, NEW in \in ClientInputs, QuietReset(in),
         PageHasNoWrites(in), SDRAMClock(in), SafeInv', BusTurned',
         NEW c \in Cells, ~(Spills' /\ CellNow' = c)
  PROVE  CtrlMem'[c] = Store(CtrlMem, Accepts(in) /\ in.wr, InCell(in), in.data, in.lanes)[c]
<1>1. /\ MemNow \in [Cells -> Words] /\ MemNow' \in [Cells -> Words]
      /\ SavedCell \in Cells /\ SavedCell' \in Cells /\ InCell(in) \in Cells
      /\ save.data \in Words
  <2>1. MemNow \in [Cells -> Words]  BY MemNowType DEF SafeInv
  <2>2. MemNow' \in [Cells -> Words]
    <3>1. (TypeInv => MemNow \in [Cells -> Words])'  BY MemNowType, PTL
    <3> QED  BY <3>1 DEF SafeInv
  <2>3. save \in Transactions /\ save' \in Transactions
    BY DEF SafeInv, TypeInv, TypeOK, ControllerTypeOK
  <2> QED  BY <2>1, <2>2, <2>3 DEF Transactions, SavedCell, InCell, ClientInputs, Cells
<1>2. CtrlMem \in [Cells -> Words]  BY <1>1, StoreType DEF CtrlMem
<1>3. CtrlMem'[c] = IF HoldsWrite' /\ SavedCell' = c THEN Merge(MemNow'[c], save'.data, save'.lanes)
                    ELSE MemNow'[c]
  BY <1>1 DEF CtrlMem, Store
<1>4. CtrlMem[c] = IF HoldsWrite /\ SavedCell = c THEN Merge(MemNow[c], save.data, save.lanes)
                   ELSE MemNow[c]
  BY <1>1, StoreAt DEF CtrlMem
<1>5. /\ HoldsWrite' <=> (HoldsWrite /\ state # "write_1") \/ (Accepts(in) /\ in.wr)
      /\ HoldsWrite /\ state # "write_1" => ~Accepts(in)
  BY HoldsWriteStep
<1>6. /\ Accepts(in) => SavedCell' = InCell(in) /\ save'.data = in.data /\ save'.lanes = in.lanes
      /\ ~Accepts(in) => save' = save /\ SavedCell' = SavedCell
  BY DEF SDRAMClock, Latch, SavedCell, InCell
<1>7. Store(CtrlMem, Accepts(in) /\ in.wr, InCell(in), in.data, in.lanes)[c]
        = IF Accepts(in) /\ in.wr /\ InCell(in) = c THEN Merge(CtrlMem[c], in.data, in.lanes)
          ELSE CtrlMem[c]
  <2> DEFINE yes == Accepts(in) /\ in.wr
             cell == InCell(in)
             m == CtrlMem
  <2>1. cell \in Cells /\ m \in [Cells -> Words]  BY <1>1, <1>2
  <2> HIDE DEF yes, cell, m
  <2>2. Store(m, yes, cell, in.data, in.lanes)[c]
          = IF yes /\ cell = c THEN Merge(m[c], in.data, in.lanes) ELSE m[c]
    BY <2>1, StoreAt
  <2> QED  BY <2>2 DEF yes, cell, m
<1>8. CASE Write1(in)
  <2>1. state = "write_1" /\ ~in.reset /\ HoldsWrite
    BY <1>8 DEF Write1, QuietReset, ClosedStates, InPlace, HoldsWrite
  <2>2. MemNow' = [MemNow EXCEPT ![SavedCell] = Merge(@, save.data, save.lanes)]
    BY <1>8, <2>1, WriteLands
  <2>3. MemNow'[c] = CtrlMem[c]  BY <1>1, <1>4, <2>1, <2>2
  <2> QED  BY <1>3, <1>5, <1>6, <1>7, <2>1, <2>3
<1>9. CASE ~Write1(in)
  <2>1. MemNow'[c] = MemNow[c]  BY <1>9, MemoryKept
  <2>2. state # "write_1"
    BY <1>9 DEF SDRAMClock, ControllerState, Startup, IdleWait, LoadMode, Activate, IdleNop,
       OpenIn2, OpenIn1, Read1, BurstRead, BurstTerminate, ReadTail, Write2, Write3,
       Precharge, AfterWait, AfterRead
  <2>3. CASE HoldsWrite
    BY <1>3, <1>4, <1>5, <1>6, <1>7, <2>1, <2>2, <2>3
  <2>4. CASE ~HoldsWrite
    BY <1>3, <1>4, <1>5, <1>6, <1>7, <2>1, <2>2, <2>4
  <2> QED  BY <2>3, <2>4
<1> QED  BY <1>8, <1>9

-----------------------------------------------------------------------------
(* The pairs of the chip.                                                  *)

\* A two-word burst runs on a chip that was told so.
PairRuns == burst_old = 1 => ModeAfter = 1

LEMMA PairRunsStep ==
  ASSUME SafeInv, PairRuns, NEW in, SDRAMClock(in)
  PROVE  PairRuns'
<1>1. ControllerState(in) /\ Chip  BY DEF SDRAMClock
<1>2. iob \in Pins  BY DEF SafeInv, TypeInv, TypeOK, ControllerTypeOK
<1>3. CASE LoadMode(in)
  BY <1>2, <1>3 DEF LoadMode, PairRuns, ModeAfter, Pins
<1>4. CASE ~LoadMode(in)
  <2>1. burst_old' = burst_old
    BY <1>1, <1>4 DEF ControllerState, Startup, IdleWait, Activate, IdleNop, OpenIn2, OpenIn1,
       Read1, BurstRead, BurstTerminate, ReadTail, Write1, Write2, Write3, Precharge
  <2>2. iob'.cmd = "LOAD_MODE" => iob.cmd = "LOAD_MODE" /\ iob'.addr = iob.addr
    <3>1. CASE Startup(in) \/ ReadTail(in)
      BY <3>1 DEF Startup, ReadTail
    <3>2. CASE IdleWait(in)
      <4>1. iob' = iob \/ iob' = [iob EXCEPT !.cmd = "NOP"]  BY <3>2 DEF IdleWait
      <4> QED  BY <1>2, <4>1 DEF Pins
    <3>3. CASE Activate(in) \/ IdleNop(in) \/ Read1(in)
      BY <1>2, <3>3 DEF Activate, IdleNop, Read1, Pins
    <3>4. CASE OpenIn2(in) \/ BurstRead(in) \/ BurstTerminate(in) \/ Precharge(in)
      BY <1>2, <3>4 DEF OpenIn2, BurstRead, BurstTerminate, Precharge, Pins
    <3>5. CASE OpenIn1(in)
      <4>1. iob' = iob \/ iob' = [iob EXCEPT !.data = save.data]  BY <3>5 DEF OpenIn1
      <4> QED  BY <1>2, <4>1 DEF Pins
    <3>6. CASE Write1(in)
      BY <3>6 DEF Write1
    <3>7. CASE Write2(in) \/ Write3(in)
      BY <1>2, <3>7 DEF Write2, Write3, Pins
    <3> QED  BY <1>1, <1>4, <3>1, <3>2, <3>3, <3>4, <3>5, <3>6, <3>7 DEF ControllerState
  <2> QED  BY <1>1, <2>1, <2>2, ModeStep DEF PairRuns
<1> QED  BY <1>3, <1>4

\* The cell on the pins, and the even word of a pair.
PinCell == <<iob.bank, open_row[iob.bank], iob.addr>>
EvenOf(c) == <<c[1], c[2], c[3] - (c[3] % 2)>>

\* The second word of a burst is the other word of the pair on the pins.
LEMMA SpillInPair ==
  ASSUME SafeInv, PairRuns, SpillPlace, Spills
  PROVE  /\ CellNow[1] = PinCell[1] /\ CellNow[2] = PinCell[2] /\ EvenOf(CellNow) = EvenOf(PinCell)
         /\ PinCell[3] % 2 = 0 => CellNow[3] % 2 = 1
<1>1. /\ iob.cmd = "NOP" /\ burst_old = 1 /\ chip_stream.bank = iob.bank
      /\ chip_stream.col = NextCol(iob.addr, chip_mode)
  BY DEF SpillPlace, Spills
<1>2. chip_mode = 1  BY <1>1 DEF PairRuns, ModeAfter
<1>3. BankNow = iob.bank /\ ColNow = NextCol(iob.addr, 1)
  BY <1>1, <1>2 DEF BankNow, ColNow
<1>4. iob.addr \in Nat /\ LastCol \in Nat
  <2>1. iob.addr \in Rows \cup Cols \cup Modes
    BY DEF SafeInv, TypeInv, TypeOK, ControllerTypeOK, Pins
  <2> QED  BY <2>1, GeometryAssumption DEF Rows, Cols, Modes
<1>5. iob.addr % 2 \in {0, 1}  BY <1>4
<1>6. CellNow = <<iob.bank, open_row[iob.bank], NextCol(iob.addr, 1)>>
  BY <1>3 DEF CellNow
<1>7. /\ NextCol(iob.addr, 1) - (NextCol(iob.addr, 1) % 2) = iob.addr - (iob.addr % 2)
      /\ iob.addr % 2 = 0 => NextCol(iob.addr, 1) % 2 = 1
  <2>1. CASE iob.addr % 2 = 0
    <3>1. NextCol(iob.addr, 1) = iob.addr + 1  BY <2>1 DEF NextCol
    <3>2. (iob.addr + 1) % 2 = 1  BY <1>4, <2>1
    <3> QED  BY <1>4, <2>1, <3>1, <3>2
  <2>2. CASE iob.addr % 2 = 1
    <3>1. NextCol(iob.addr, 1) = iob.addr - 1  BY <2>2 DEF NextCol
    <3>2. (iob.addr - 1) % 2 = 0  BY <1>4, <2>2
    <3> QED  BY <1>4, <2>2, <3>1, <3>2
  <2> QED  BY <1>5, <2>1, <2>2
<1> QED  BY <1>6, <1>7 DEF PinCell, EvenOf

\* A WRITE comes on the pins where its transaction says, and the second word
\* of its burst follows it.
LEMMA PinsFrom ==
  ASSUME SafeInv, BusTurned, SpillPlace, NEW in \in ClientInputs, QuietReset(in), SDRAMClock(in),
         iob'.cmd = "WRITE" \/ Spills', SpillPlace'
  PROVE  \/ Write1(in) /\ PinCell' = SavedCell
         \/ iob.cmd = "WRITE" /\ PinCell' = PinCell
<1>1. Chip /\ ControllerState(in)  BY DEF SDRAMClock
<1>2. iob \in Pins  BY DEF SafeInv, TypeInv, TypeOK, ControllerTypeOK
<1>3. CASE Write1(in)
  <2>1. state = "write_1" /\ RowFits /\ TypeInv /\ ~in.reset
    BY <1>3 DEF Write1, SafeInv, QuietReset, ClosedStates
  <2>2. open_row' = RowsAfter  BY <1>1, <2>1, RowsAfterStep
  <2>3. RowsAfter[save.bank] = save.row  BY <2>1 DEF RowFits
  <2>4. iob'.bank = save.bank /\ iob'.addr = save.col  BY <1>3 DEF Write1
  <2> QED  BY <1>3, <2>2, <2>3, <2>4 DEF PinCell, SavedCell
<1>4. CASE ~Write1(in)
  <2>1. WriteRuns'  BY DEF WriteRuns, Spills
  <2>2. Write2(in) \/ Write3(in) \/ Precharge(in)
    BY <1>1, <1>4, <2>1, OthersWriteNothing DEF ControllerState
  <2>3. iob'.bank = iob.bank /\ iob'.addr = iob.addr
    BY <1>2, <2>2 DEF Write2, Write3, Precharge, Pins
  <2>4. iob.cmd = "WRITE"
    <3>1. CASE iob'.cmd = "WRITE"
      BY <1>2, <2>2, <3>1 DEF Write2, Write3, Precharge, Pins
    <3>2. CASE Spills'
      <4>1. state' \in {"write_1", "write_3"} /\ iob'.cmd = "NOP"  BY <3>2 DEF SpillPlace, Spills
      <4>2. ~Precharge(in)
        BY <1>2, <4>1 DEF Precharge, Pins
      <4>3. CASE Write2(in)
        <5>1. state = "write_2"  BY <4>3 DEF Write2
        <5> QED  BY <5>1 DEF SpillPlace
      <4>4. CASE Write3(in)
        <5>1. state = "write_3" /\ burst_old' = burst_old /\ burst_old' = 1
          BY <3>2, <4>4 DEF Write3, SpillPlace
        <5>2. iob'.cmd = "TERMINATE"  BY <1>2, <4>4, <5>1 DEF Write3, Pins
        <5> QED  BY <4>1, <5>2
      <4> QED  BY <2>2, <4>2, <4>3, <4>4
    <3> QED  BY <3>1, <3>2
  <2>5. open_row' = open_row  BY <1>1, <2>4 DEF Chip
  <2> QED  BY <2>3, <2>4, <2>5 DEF PinCell
<1> QED  BY <1>3, <1>4

-----------------------------------------------------------------------------
(* The captured picture.  A pair of it begins at an even column of the     *)
(* chip, and nobody but the capture writes to it.                          *)

PictureCell(y, i) == CellAt(CaptureBase + y * CapturePitch + 2 * i)
FirstCells == {PictureCell(y, i) : y \in 0 .. CaptureHeight - 1, i \in 0 .. CaptureWidth - 1}
OffPicture(c) == EvenOf(c) \notin FirstCells

\* The host writes beside the captured picture and starts no blit.
CaptureAlone ==
  \A o \in HostOps :
    /\ o.reg # "blitter_enable"
    /\ o.kind = "write" => \A h \in {0, 1} : OffPicture(CellAt(o.addr + h))

EvenPicture == CaptureBase % 2 = 0 /\ CapturePitch % 2 = 0

\* A write that does the picture no harm.
PutsRight(cell, word, bytes) ==
  OffPicture(cell) \/ (cell[3] % 2 = 0 /\ word = CaptureWords[1] /\ bytes = Lanes)

BlitStates == {"WRITE_END1", "WRITE_END", "BLIT_COPY_READ1", "BLIT_COPY_READ", "BLIT_COPY_WRITE"}
\* The host starts no blit, so none is ever under way.
NoBlitOps == \A o \in HostOps : o.reg # "blitter_enable"
NoBlits == blitter_enable = 0 /\ arb \notin BlitStates

HostWrites ==
  zorro \in {"Z3_WRITE_PRE", "Z3_WRITE_UPPER", "Z3_WRITE_LOWER", "Z3_WRITE_FINALIZE"} =>
    bus.active /\ bus.op.kind = "write"

RequestRight ==
  /\ zorro_ram_write_request => OffPicture(CellAt(zorro_ram_write.addr))
  /\ arb = "WRITING_ZORRO_PRE" => zorro_ram_write_request

PortRight ==
  ram_enable /\ ram_write =>
    /\ PutsRight(CellAt(ram_addr), ram_data_in, ram_byte_enable)
    /\ arb # "ROW_FETCHED" => OffPicture(CellAt(ram_addr))

SaveRight == HoldsWrite => PutsRight(SavedCell, save.data, save.lanes)
PinsRight == iob.cmd = "WRITE" \/ Spills => PinCell[3] % 2 = 0 \/ OffPicture(PinCell)

LEMMA AddrSum ==
  ASSUME NEW a \in Int, NEW k \in Int
  PROVE  CellAt(Addr(a) + k) = CellAt(a + k)
<1> DEFINE A == Addr(a)
           q == a \div Size
           p == (A + k) \div Size
           s == (A + k) % Size
<1>1. Size \in Nat \ {0}  BY GeometryAssumption DEF Size, NCols
<1>2. q \in Int /\ A \in Int /\ a = Size * q + A  BY <1>1, Split DEF Addr
<1>3. A + k \in Int  BY <1>2
<1>4. p \in Int /\ s \in 0 .. Size - 1 /\ A + k = Size * p + s  BY <1>1, <1>3, Split
<1>5. s = Addr(A + k)  BY DEF Addr
<1> HIDE DEF A, q, p, s
<1>6. a + k = Size * (q + p) + s /\ q + p \in Int
  <2>1. Size * (q + p) = Size * q + Size * p  BY <1>1, <1>2, <1>4
  <2> QED  BY <1>1, <1>2, <1>4, <2>1
<1>7. (Size * (q + p) + s) % Size = s  BY <1>1, <1>4, <1>6, Remainder
<1>8. Addr(a + k) = Addr(A + k)  BY <1>5, <1>6, <1>7 DEF Addr
<1>9. a + k \in Int  OBVIOUS
<1>10. CellAt(Addr(a + k)) = CellAt(a + k) /\ CellAt(Addr(A + k)) = CellAt(A + k)
  BY <1>3, <1>9, ColumnFacts
<1> QED  BY <1>8, <1>10 DEF A

LEMMA PictureEven ==
  ASSUME EvenPicture, NEW y \in Nat, NEW i \in Nat
  PROVE  /\ CaptureBase + y * CapturePitch + 2 * i \in Int
         /\ PictureCell(y, i) \in Cells /\ PictureCell(y, i)[3] % 2 = 0
<1> DEFINE a == CaptureBase + y * CapturePitch + 2 * i
           u == CaptureBase \div 2
           v == CapturePitch \div 2
           w == (LastCol + 1) \div 2
<1>1. CaptureBase \in Nat /\ CapturePitch \in Nat /\ LastCol \in Nat /\ LastCol % 2 = 1
  BY SizesAssumption, GeometryAssumption
<1>2. u \in Int /\ CaptureBase = 2 * u  BY <1>1 DEF EvenPicture
<1>3. v \in Int /\ CapturePitch = 2 * v  BY <1>1 DEF EvenPicture
<1>4. w \in Int /\ NCols = 2 * w /\ NCols \in Nat \ {0}  BY <1>1 DEF NCols
<1> HIDE DEF u, v, w
<1>5. y * CapturePitch = 2 * (y * v) /\ y * v \in Int  BY <1>3
<1>6. a \in Int /\ a = 2 * (u + y * v + i)  BY <1>1, <1>2, <1>5
<1>7. PictureCell(y, i) = CellAt(a)  BY DEF PictureCell
<1> DEFINE n == u + y * v + i
           q == a \div NCols
           r == a % NCols
<1>8. q \in Int /\ r \in 0 .. NCols - 1 /\ a = NCols * q + r  BY <1>4, <1>6, Split
<1>9. CellAt(a) \in Cells /\ CellAt(a)[3] = r  BY <1>6, CellAtType, ColumnFacts
<1>10. n \in Int /\ a = 2 * n  BY <1>2, <1>5, <1>6
<1> HIDE DEF a, q, r, n
<1>11. NCols * q = 2 * (w * q) /\ w * q \in Int  BY <1>4, <1>8
<1>12. r = 2 * (n - w * q) /\ n - w * q \in Int  BY <1>8, <1>10, <1>11
<1>13. \A z \in Int : (2 * z) % 2 = 0  OBVIOUS
<1>14. r % 2 = 0  BY <1>12, <1>13
<1> QED  BY <1>6, <1>7, <1>9, <1>14 DEF a

\* The words the picture consists of: the even one of a pair is its own.
LEMMA PictureOwn ==
  ASSUME EvenPicture, NEW c \in FirstCells
  PROVE  c \in Cells /\ c[3] % 2 = 0 /\ EvenOf(c) = c
<1>1. PICK y \in 0 .. CaptureHeight - 1, i \in 0 .. CaptureWidth - 1 : c = PictureCell(y, i)
  BY DEF FirstCells
<1>2. CaptureHeight \in Nat /\ CaptureWidth \in Nat  BY SizesAssumption, CountersAssumption
<1>5. y \in Nat /\ i \in Nat  BY <1>2
<1>3. c \in Cells /\ c[3] % 2 = 0  BY <1>1, <1>5, PictureEven
<1>4. c = <<c[1], c[2], c[3]>> /\ c[3] \in Nat  BY <1>3, GeometryAssumption DEF Cells, Cols
<1> QED  BY <1>3, <1>4 DEF EvenOf

-----------------------------------------------------------------------------
(* Who asks for what.                                                      *)

LEMMA NoBlitsStep ==
  ASSUME NoBlitOps, CardInv, RangeInv, BlitOwned, NoBlits, Clock
  PROVE  NoBlits' /\ ~StartsBlitter
<1>1. PICK p \in {BlitterStarted, blit} : ArbiterStep(p)  BY DEF Clock
<1>2. ~StartsBlitter
  BY DEF StartsBlitter, NoBlitOps, RangeInv, HostTyped
<1>3. blitter_enable' = 0  BY <1>2, BlitterKept DEF NoBlits
<1>4. ~GrantCopyRead /\ ~GrantCopyWrite
  BY DEF NoBlits, GrantCopyRead, GrantCopyWrite
<1>5. ~(WriteEnd1 \/ WriteEnd \/ CopyRead1 \/ CopyRead \/ CopyWrite \/ CopyWriteWaits)
  BY DEF NoBlits, BlitStates, WriteEnd1, WriteEnd, CopyRead1, CopyRead, CopyWrite, CopyWriteWaits, At
<1>6. arb' \notin BlitStates  BY <1>1, <1>4, <1>5, ArrivesServing DEF BlitStates
<1> QED  BY <1>2, <1>3, <1>6 DEF NoBlits

LEMMA HostWritesStep ==
  ASSUME ~ResetAllowed, CardInv, RangeInv, BlitOwned, HostWrites, Clock
  PROVE  HostWrites'
<1>1. ~znrst /\ ~znrst' /\ ZorroStep /\ Host  BY PowerUpStep DEF CardInv, PowerUp, Clock
<1>2. /\ bus \in [active : BOOLEAN, op : HostRecords] /\ dtack \in BOOLEAN
  BY DEF CardInv, CardTyped, RequestsTyped, RangeInv, HostTyped
<1>3. bus.op.kind \in {"read", "write", "reg"}  BY <1>2 DEF HostRecords
<1> SUFFICES ASSUME zorro' \in {"Z3_WRITE_PRE", "Z3_WRITE_UPPER", "Z3_WRITE_LOWER",
                                "Z3_WRITE_FINALIZE"}
             PROVE  bus'.active /\ bus'.op.kind = "write"
  BY DEF HostWrites
<1>4. bus.active /\ bus.op.kind = "write" /\ ~dtack
  <2>1. CASE Z3Idle
    BY <1>3, <2>1 DEF Z3Idle, FirstState, BlitOwned, ZAt, ZTo
  <2>2. CASE WritePre \/ WriteUpper \/ WriteLower \/ WriteFinalize
    BY <2>2 DEF WritePre, WriteUpper, WriteLower, WriteFinalize, HostWrites, BlitOwned, ZAt
  <2>3. CASE ~Z3Idle /\ ~(WritePre \/ WriteUpper \/ WriteLower \/ WriteFinalize)
    BY <1>1, <2>3 DEF ZorroStep, Forced, ZAt, ZTo, Cold, EnterReset, InReset, Configuring,
       Configured, ConfiguredClear, EnterResetDvid, ResetDvid, ReadUpper, ReadLower, ReadDelay1,
       ReadDelay2, EndCycle, RegWrite
  <2> QED  BY <2>1, <2>2, <2>3
<1>5. bus' = bus  BY <1>1, <1>4 DEF Host
<1> QED  BY <1>4, <1>5

LEMMA RequestRightStep ==
  ASSUME CaptureAlone, CardInv, RangeInv, HostWrites, RequestRight, Clock
  PROVE  RequestRight'
<1>1. PICK p \in {BlitterStarted, blit} : ArbiterStep(p)  BY DEF Clock
<1>2. Requests  BY DEF Clock
<1>3. zorro_ram_write_request \in BOOLEAN  BY DEF RangeInv, HostTyped
<1>4. ASSUME SetsWriteRequest
      PROVE  OffPicture(CellAt(zorro_ram_write'.addr))
  <2>1. bus.op \in HostOps /\ bus.op.kind = "write"
    BY <1>4 DEF SetsWriteRequest, ZAt, HostWrites, RangeInv, HostTyped
  <2>2. PICK h \in {0, 1} : zorro_ram_write'.addr = bus.op.addr + h
    BY <1>2, <1>4 DEF Requests, Half
  <2> QED  BY <2>1, <2>2 DEF CaptureAlone
<1>5. ASSUME ~SetsWriteRequest
      PROVE  zorro_ram_write' = zorro_ram_write /\ (zorro_ram_write_request' => zorro_ram_write_request)
  BY <1>2, <1>5 DEF Requests
<1>6. zorro_ram_write_request' => OffPicture(CellAt(zorro_ram_write'.addr))
  BY <1>4, <1>5 DEF RequestRight
<1>7. ASSUME arb' = "WRITING_ZORRO_PRE"  PROVE zorro_ram_write_request'
  <2>1. GrantWrite \/ WritingZorroPre  BY <1>1, <1>7, ArrivesServing
  <2>2. zorro_ram_write_request
    BY <2>1 DEF GrantWrite, Grants, Claimant, WritingZorroPre, At, RequestRight
  <2>3. ~ClearsWriteRequest
    BY <2>1 DEF GrantWrite, Grants, WritingZorroPre, At, ClearsWriteRequest
  <2> QED  BY <1>2, <2>2, <2>3 DEF Requests
<1> QED  BY <1>6, <1>7 DEF RequestRight

\* Only the capture, or a host's write, is put on the port to be written.
LEMMA PortRightStep ==
  ASSUME CardInv, RangeInv, NoBlits, EnableRules, OffersClaimed, RequestRight, PortRight, Clock,
         CaptureWord => PutsRight(CellAt(Addr(cap.base + cap.x2)), CaptureWords[1], Lanes)
  PROVE  PortRight'
<1>1. PICK p \in {BlitterStarted, blit} : ArbiterStep(p)  BY DEF Clock
<1> SUFFICES ASSUME ram_enable', ram_write'
             PROVE  /\ PutsRight(CellAt(ram_addr'), ram_data_in', ram_byte_enable')
                    /\ arb' # "ROW_FETCHED" => OffPicture(CellAt(ram_addr'))
  BY DEF PortRight
<1>2. CASE CaptureWord
  <2>1. /\ ram_addr' = Addr(cap.base + cap.x2) /\ ram_data_in' = CaptureWords[1]
        /\ ram_byte_enable' = Lanes /\ arb' = "ROW_FETCHED"
    BY <1>2 DEF CaptureWord, Grants, At, SetPort
  <2> QED  BY <1>2, <2>1
<1>3. CASE WritingZorroPre
  <2>1. ram_addr' = zorro_ram_write.addr  BY <1>3 DEF WritingZorroPre, SetPort
  <2>2. OffPicture(CellAt(zorro_ram_write.addr))
    BY <1>3 DEF WritingZorroPre, At, RequestRight
  <2> QED  BY <2>1, <2>2 DEF PutsRight
<1>4. CASE NobodyServed \/ GrantRefresh
  <2>1. UNCHANGED portVars /\ arb = "ROW_FETCHED"
    BY <1>4 DEF NobodyServed, GrantRefresh, Grants, At
  <2>2. PutsRight(CellAt(ram_addr), ram_data_in, ram_byte_enable)
    BY <2>1 DEF PortRight, portVars
  <2>3. ~GrantRefresh
    <3>1. ram_enable  BY <2>1 DEF portVars
    <3> QED  BY <3>1, RefreshFindsNoOffer DEF GrantRefresh
  <2>4. arb' = "ROW_FETCHED"  BY <1>4, <2>1, <2>3 DEF NobodyServed
  <2> QED  BY <2>1, <2>2, <2>4 DEF portVars
<1>5. ~(Ready \/ FetchNext \/ FetchDone \/ BurstOn \/ FetchingRow \/ BurstOff)
  <2>1. ~(Ready \/ BurstOff)  BY DEF Ready, BurstOff, Enable, SetPort
  <2>2. ~(FetchNext \/ FetchDone)
    BY DEF FetchNext, FetchDone, At, EnableBurst, SetPort, EnableRules
  <2>3. ~BurstOn
    BY DEF BurstOn, At, ReadAt, SetPort, portVars, EnableRules
  <2>4. ~FetchingRow
    BY DEF FetchingRow, At, SetPort, portVars, EnableRules
  <2> QED  BY <2>1, <2>2, <2>3, <2>4
<1>6. ~(GrantFetch \/ GrantWrite \/ GrantRead \/ FillPixel \/ FillRow \/ FillEnd \/ GrantCopyRead
        \/ GrantCopyWrite \/ CaptureEnd)
  <2>1. ~(FillPixel \/ FillRow \/ FillEnd \/ GrantCopyRead \/ GrantCopyWrite)
    BY DEF NoBlits, FillPixel, FillRow, FillEnd, FillGranted, GrantCopyRead, GrantCopyWrite
  <2>2. ~(GrantFetch \/ GrantWrite \/ GrantRead \/ CaptureEnd)
    BY DEF GrantFetch, GrantWrite, GrantRead, CaptureEnd, EnableBurst, SetPort
  <2> QED  BY <2>1, <2>2
<1>7. ~(RefreshPre \/ Refresh \/ RefreshEnd)
  BY DEF RefreshPre, Refresh, RefreshEnd, ReadAt, Enable, SetPort, portVars, At, EnableRules
<1>8. ~(WriteEnd1 \/ WriteEnd \/ CopyRead1 \/ CopyRead \/ CopyWrite \/ CopyWriteWaits)
  BY DEF NoBlits, BlitStates, WriteEnd1, WriteEnd, CopyRead1, CopyRead, CopyWrite, CopyWriteWaits, At
<1>9. ~(ReadingZorroPre \/ ReadingZorro \/ WritingZorro)
  BY DEF ReadingZorroPre, ReadingZorro, WritingZorro, ReadAt, Enable, SetPort
<1> QED  BY <1>1, <1>2, <1>3, <1>4, <1>5, <1>6, <1>7, <1>8, <1>9 DEF ArbiterStep

\* What the controller takes from the port.
LEMMA TakenRight ==
  ASSUME PortRight, NEW in, in = Port(sdram_reset), Accepts(in), in.wr
  PROVE  PutsRight(InCell(in), in.data, in.lanes)
<1>1. /\ ram_enable /\ ram_write /\ in.data = ram_data_in /\ in.lanes = ram_byte_enable
      /\ InCell(in) = CellAt(ram_addr)
  BY DEF Port, Accepts, InCell, CellAt
<1> QED  BY <1>1 DEF PortRight

LEMMA SaveRightStep ==
  ASSUME SafeInv, StartupQuiet, InPlace, NEW in \in ClientInputs, QuietReset(in),
         PageHasNoWrites(in), SDRAMClock(in), SaveRight,
         Accepts(in) /\ in.wr => PutsRight(InCell(in), in.data, in.lanes)
  PROVE  SaveRight'
<1> SUFFICES ASSUME HoldsWrite'  PROVE PutsRight(SavedCell', save'.data, save'.lanes)
  BY DEF SaveRight
<1>1. (HoldsWrite /\ ~Accepts(in)) \/ (Accepts(in) /\ in.wr)  BY HoldsWriteStep
<1>2. CASE HoldsWrite /\ ~Accepts(in)
  <2>1. save' = save  BY <1>2 DEF SDRAMClock, Latch
  <2> QED  BY <1>2, <2>1 DEF SaveRight, SavedCell
<1>3. CASE Accepts(in) /\ in.wr
  <2>1. SavedCell' = InCell(in) /\ save'.data = in.data /\ save'.lanes = in.lanes
    BY <1>3 DEF SDRAMClock, Latch, SavedCell, InCell
  <2> QED  BY <1>3, <2>1
<1> QED  BY <1>1, <1>2, <1>3

LEMMA PinsRightStep ==
  ASSUME SafeInv, BusTurned, InPlace, SpillPlace, NEW in \in ClientInputs, QuietReset(in),
         SDRAMClock(in), SaveRight, PinsRight, SpillPlace'
  PROVE  PinsRight'
<1> SUFFICES ASSUME iob'.cmd = "WRITE" \/ Spills'
             PROVE  PinCell'[3] % 2 = 0 \/ OffPicture(PinCell')
  BY DEF PinsRight
<1>1. CASE Write1(in) /\ PinCell' = SavedCell
  <2>1. HoldsWrite  BY <1>1 DEF Write1, InPlace, HoldsWrite
  <2> QED  BY <1>1, <2>1 DEF SaveRight, PutsRight
<1>2. CASE iob.cmd = "WRITE" /\ PinCell' = PinCell
  BY <1>2 DEF PinsRight
<1> QED  BY <1>1, <1>2, PinsFrom

\* So the second word of a burst never goes to the even word of a pair of
\* the picture.
LEMMA SpillsBeside ==
  EvenPicture /\ SafeInv /\ PairRuns /\ SpillPlace /\ PinsRight
    => \A c \in FirstCells : ~(Spills /\ CellNow = c)
<1> SUFFICES ASSUME EvenPicture, SafeInv, PairRuns, SpillPlace, PinsRight, NEW c \in FirstCells,
                    Spills, CellNow = c
             PROVE  FALSE
  OBVIOUS
<1>1. c[3] % 2 = 0 /\ EvenOf(c) = c  BY PictureOwn
<1>2. EvenOf(CellNow) = EvenOf(PinCell) /\ (PinCell[3] % 2 = 0 => CellNow[3] % 2 = 1)
  BY SpillInPair
<1>3. PinCell[3] % 2 # 0  BY <1>1, <1>2
<1>4. OffPicture(PinCell)  BY <1>3 DEF PinsRight
<1> QED  BY <1>1, <1>2, <1>4 DEF OffPicture

\* While a full page is read, the fetch has the port.
LEMMA PageIsFetched ==
  ASSUME CardInv, RangeInv, BurstOver, EnableRules, ReadyHeld
  PROVE  PageHasNoWrites(Port(sdram_reset))
<1> SUFFICES ASSUME state = "burst_read" \/ (state = "read_1" /\ burst_old > 1),
                    ready_for_new, ram_enable
             PROVE  ~ram_write
  BY DEF PageHasNoWrites, Accepts, Port
<1>1. burst_old = 7
  <2>1. burst_old \in Modes  BY DEF CardInv, SafeInv, TypeInv, TypeOK, ControllerTypeOK
  <2>2. state = "burst_read" => burst_old = 7  BY DEF CardInv, AnswerInv, BurstRuns
  <2> QED  BY <2>1, <2>2 DEF Modes
<1>2. arb \in FetchStates  BY <1>1 DEF BurstOver, Resting, ClosedStates
<1> QED  BY <1>2 DEF FetchStates, EnableRules, ReadyHeld

-----------------------------------------------------------------------------
(* The line under way.                                                     *)

\* A word is stored or on its way to the cell: with the controller, or on the
\* port.
Landed(c) == CtrlMem[c] = CaptureWords[1] \/ (ram_enable /\ ram_write /\ CellAt(ram_addr) = c)

CaptureKept ==
  /\ videocap_y3 \in 0 .. CaptureHeight - 1
  /\ cap.x2 = 2 * cap.x
  /\ cap.line_saved => cap.x >= CaptureWidth
  /\ \E y \in 0 .. CaptureHeight - 1 :
       /\ cap.base = Addr(CaptureBase + y * CapturePitch)
       /\ \A i \in 0 .. cap.x - 1 : Landed(PictureCell(y, i))

LEMMA CtrlMemType ==
  ASSUME SafeInv
  PROVE  CtrlMem \in [Cells -> Words] /\ MemNow \in [Cells -> Words]
<1>1. MemNow \in [Cells -> Words]  BY MemNowType DEF SafeInv
<1>2. save \in Transactions  BY DEF SafeInv, TypeInv, TypeOK, ControllerTypeOK
<1>3. SavedCell \in Cells /\ save.data \in Words
  BY <1>2 DEF Transactions, SavedCell, Cells
<1> QED  BY <1>1, <1>3, StoreType DEF CtrlMem

LEMMA MergeAll ==
  ASSUME NEW old, NEW word \in Words
  PROVE  Merge(old, word, Lanes) = word
BY DEF Merge, Words

\* A word of the picture that has landed stays, and one on the port lands.
LEMMA LandedStep ==
  ASSUME EvenPicture, CardInv, RangeInv, StartupQuiet, InPlace, EnableRules, PortRight, Clock,
         QuietReset(Port(sdram_reset)), PageHasNoWrites(Port(sdram_reset)),
         CardInv', NEW c \in FirstCells, ~(Spills' /\ CellNow' = c), Landed(c)
  PROVE  Landed(c)'
<1> DEFINE in == Port(sdram_reset)
           yes == Accepts(in) /\ in.wr
           cell == InCell(in)
           m == CtrlMem
<1>0. /\ SDRAMClock(in) /\ in \in ClientInputs /\ in.wr = ram_write /\ QuietReset(in)
      /\ (Accepts(in) <=> ready_for_new /\ ram_enable) /\ PageHasNoWrites(in)
      /\ InCell(in) = CellAt(ram_addr)
  BY EdgeFacts DEF InCell
<1>1. yes => PutsRight(cell, in.data, in.lanes)  BY TakenRight
<1> HIDE DEF in
<1>2. /\ SafeInv /\ BusTurned /\ SafeInv' /\ BusTurned'  BY DEF CardInv
<1>3. c \in Cells /\ c[3] % 2 = 0 /\ EvenOf(c) = c  BY PictureOwn
<1>4. CtrlMem'[c] = Store(m, yes, cell, in.data, in.lanes)[c]
  BY <1>0, <1>2, <1>3, CtrlMemStep
<1>5. m \in [Cells -> Words] /\ cell \in Cells
  BY <1>0, <1>2, CtrlMemType DEF InCell, ClientInputs, Cells
<1>6. CaptureWords[1] \in Words  BY SizesAssumption
<1>7. yes /\ cell = c => in.data = CaptureWords[1] /\ in.lanes = Lanes
  BY <1>1, <1>3 DEF PutsRight, OffPicture
<1>8. yes <=> ready_for_new /\ ram_enable /\ ram_write  BY <1>0
<1>9. cell = CellAt(ram_addr)  BY <1>0
<1> HIDE DEF yes, cell, m
<1>10. Store(m, yes, cell, in.data, in.lanes)[c]
         = IF yes /\ cell = c THEN Merge(m[c], in.data, in.lanes) ELSE m[c]
  BY <1>3, <1>5, StoreAt
<1>11. yes /\ cell = c => CtrlMem'[c] = CaptureWords[1]
  BY <1>4, <1>6, <1>7, <1>10, MergeAll
<1>12. CASE m[c] = CaptureWords[1]
  BY <1>4, <1>10, <1>11, <1>12 DEF Landed
<1>13. CASE ram_enable /\ ram_write /\ CellAt(ram_addr) = c
  <2>1. arb = "ROW_FETCHED"
    BY <1>3, <1>13 DEF PortRight, OffPicture
  <2>2. CASE ready_for_new
    BY <1>8, <1>9, <1>11, <1>13, <2>2 DEF Landed
  <2>3. CASE ~ready_for_new
    <3>1. PICK p \in {BlitterStarted, blit} : ArbiterStep(p)  BY DEF Clock
    <3>2. ~(Ready \/ FetchNext \/ FetchDone \/ BurstOn \/ FetchingRow \/ BurstOff \/ RefreshPre
            \/ Refresh \/ RefreshEnd \/ WriteEnd1 \/ WriteEnd \/ CopyRead1 \/ CopyRead \/ CopyWrite
            \/ CopyWriteWaits \/ ReadingZorroPre \/ ReadingZorro \/ WritingZorroPre \/ WritingZorro)
      BY <2>1 DEF At, Ready, FetchNext, FetchDone, BurstOn, FetchingRow, BurstOff, RefreshPre, Refresh,
         RefreshEnd, WriteEnd1, WriteEnd, CopyRead1, CopyRead, CopyWrite, CopyWriteWaits,
         ReadingZorroPre, ReadingZorro, WritingZorroPre, WritingZorro
    <3>3. ~(GrantFetch \/ GrantWrite \/ GrantRead \/ CaptureWord \/ CaptureEnd \/ GrantRefresh
            \/ FillPixel \/ FillRow \/ FillEnd \/ GrantCopyRead \/ GrantCopyWrite)
      BY <2>3 DEF Grants, cmd_ready, GrantFetch, GrantWrite, GrantRead, CaptureWord, CaptureEnd,
         GrantRefresh, FillGranted, FillPixel, FillRow, FillEnd, GrantCopyRead, GrantCopyWrite
    <3>4. NobodyServed  BY <3>1, <3>2, <3>3 DEF ArbiterStep
    <3>5. UNCHANGED portVars  BY <3>4 DEF NobodyServed
    <3> QED  BY <1>13, <3>5 DEF portVars, Landed
  <2> QED  BY <2>2, <2>3
<1> QED  BY <1>12, <1>13 DEF Landed, m

\* The word the capture puts on the port belongs to the line it saves.
LEMMA CaptureWordPlace ==
  ASSUME EvenPicture, CardInv, RangeInv, cap.x2 = 2 * cap.x, NEW y \in 0 .. CaptureHeight - 1,
         cap.base = Addr(CaptureBase + y * CapturePitch)
  PROVE  CellAt(Addr(cap.base + cap.x2)) = PictureCell(y, cap.x)
<1>1. cap.x \in Nat /\ y \in Nat /\ CaptureBase \in Nat /\ CapturePitch \in Nat
  BY SizesAssumption, CountersAssumption DEF RangeInv, CountersTyped
<1>2. CaptureBase + y * CapturePitch \in Int /\ 2 * cap.x \in Int  BY <1>1
<1>3. CellAt(Addr(CaptureBase + y * CapturePitch) + 2 * cap.x) = PictureCell(y, cap.x)
  BY <1>2, AddrSum DEF PictureCell
<1>4. Addr(CaptureBase + y * CapturePitch) \in Int  BY <1>2, AddrType
<1>5. cap.base + cap.x2 \in Int  BY <1>2, <1>4
<1>6. CellAt(Addr(cap.base + cap.x2)) = CellAt(cap.base + cap.x2)  BY <1>5, ColumnFacts
<1> QED  BY <1>3, <1>6

LEMMA CaptureKeptStep ==
  ASSUME EvenPicture, CardInv, RangeInv, StartupQuiet, InPlace, EnableRules, PortRight, Clock,
         QuietReset(Port(sdram_reset)), PageHasNoWrites(Port(sdram_reset)), CaptureKept,
         CardInv', RangeInv', \A c \in FirstCells : ~(Spills' /\ CellNow' = c)
  PROVE  CaptureKept'
<1>1. PICK p \in {BlitterStarted, blit} : ArbiterStep(p)  BY DEF Clock
<1>2. cap \in CapRecords /\ cap.x \in 0 .. CaptureWidth /\ CaptureWidth \in Nat
  BY CountersAssumption DEF CardInv, CardTyped, JobsTyped, RangeInv, CountersTyped
<1>3. CaptureHeight \in Nat \ {0}  BY SizesAssumption
<1>4. videocap_y3' \in 0 .. CaptureHeight - 1
  <2>1. CASE UNCHANGED videocap_y3
    BY <2>1 DEF CaptureKept
  <2>2. CASE videocap_y3' = (videocap_y3 + 1) % CaptureHeight
    BY <1>3, <2>2 DEF CaptureKept
  <2> QED  BY <2>1, <2>2 DEF Clock, CapturedVideo
<1>5. PICK y \in 0 .. CaptureHeight - 1 :
        /\ cap.base = Addr(CaptureBase + y * CapturePitch)
        /\ \A i \in 0 .. cap.x - 1 : Landed(PictureCell(y, i))
  BY DEF CaptureKept
<1>6. ASSUME NEW i \in 0 .. cap.x - 1  PROVE Landed(PictureCell(y, i))'
  <2>1. i \in 0 .. CaptureWidth - 1  BY <1>2
  <2>2. PictureCell(y, i) \in FirstCells  BY <2>1 DEF FirstCells
  <2>3. Landed(PictureCell(y, i))  BY <1>5
  <2> DEFINE c == PictureCell(y, i)
  <2>4. c \in FirstCells /\ Landed(c)  BY <2>2, <2>3
  <2>5. PictureCell(y, i)' = c  BY DEF PictureCell, CellAt, Addr
  <2> HIDE DEF c
  <2>6. Landed(c)'  BY <2>4, LandedStep
  <2> QED  BY <2>6 DEF c
<1>7. CASE CaptureWord
  <2>1. cap' = [cap EXCEPT !.x = @ + 1, !.x2 = @ + 2]  BY <1>7 DEF CaptureWord
  <2>2. cap'.x = cap.x + 1 /\ cap'.x2 = cap.x2 + 2 /\ cap'.base = cap.base
        /\ cap'.line_saved = cap.line_saved
    BY <1>2, <2>1 DEF CapRecords
  <2>3. cap'.x2 = 2 * cap'.x  BY <1>2, <2>2 DEF CaptureKept
  <2>4. cap'.line_saved => cap'.x >= CaptureWidth  BY <1>2, <2>2 DEF CaptureKept
  <2>5. ram_enable' /\ ram_write' /\ ram_addr' = Addr(cap.base + cap.x2)
    BY <1>7 DEF CaptureWord, SetPort
  <2>6. CellAt(ram_addr') = PictureCell(y, cap.x)
    BY <1>5, <2>5, CaptureWordPlace DEF CaptureKept
  <2>7. ASSUME NEW i \in 0 .. cap'.x - 1  PROVE Landed(PictureCell(y, i))'
    <3>1. CASE i \in 0 .. cap.x - 1
      BY <1>6, <3>1
    <3>2. CASE i = cap.x
      <4> DEFINE c == PictureCell(y, i)
      <4>1. CellAt(ram_addr') = c  BY <2>6, <3>2
      <4>2. PictureCell(y, i)' = c  BY DEF PictureCell, CellAt, Addr
      <4>3. CellAt(ram_addr)' = CellAt(ram_addr')  BY DEF CellAt
      <4> HIDE DEF c
      <4>4. Landed(c)'  BY <2>5, <4>1, <4>3 DEF Landed
      <4> QED  BY <4>2, <4>4 DEF Landed
    <3>3. i \in 0 .. cap.x - 1 \/ i = cap.x  BY <1>2, <2>2
    <3> QED  BY <3>1, <3>2, <3>3
  <2> QED  BY <1>4, <1>5, <2>2, <2>3, <2>4, <2>7 DEF CaptureKept
<1>8. CASE CaptureEnd
  <2>1. cap' = [cap EXCEPT !.line_saved = TRUE] /\ cap.x >= CaptureWidth  BY <1>8 DEF CaptureEnd
  <2>2. cap'.x = cap.x /\ cap'.x2 = cap.x2 /\ cap'.base = cap.base  BY <1>2, <2>1 DEF CapRecords
  <2>3. cap'.x >= CaptureWidth /\ cap'.x2 = 2 * cap'.x  BY <2>1, <2>2 DEF CaptureKept
  <2> QED  BY <1>4, <1>5, <1>6, <2>2, <2>3 DEF CaptureKept
<1>9. CASE CaptureLine /\ LineArrives
  <2>1. cap' = StartLine  BY <1>9 DEF CaptureLine
  <2>2. /\ cap'.x = 0 /\ cap'.x2 = 0 /\ ~cap'.line_saved
        /\ cap'.base = Addr(CaptureBase + videocap_y3 * CapturePitch)
    BY <2>1 DEF StartLine
  <2>3. videocap_y3 \in 0 .. CaptureHeight - 1  BY DEF CaptureKept
  <2>4. cap'.x2 = 2 * cap'.x /\ \A i \in 0 .. cap'.x - 1 : FALSE  BY <2>2
  <2>5. \E z \in 0 .. CaptureHeight - 1 :
          /\ cap'.base = Addr(CaptureBase + z * CapturePitch)
          /\ \A i \in 0 .. cap'.x - 1 : Landed(PictureCell(z, i))'
    BY <2>2, <2>3, <2>4
  <2> QED  BY <1>4, <2>2, <2>4, <2>5 DEF CaptureKept
<1>10. CASE CaptureLine /\ ~LineArrives
  <2>1. cap' = cap  BY <1>10 DEF CaptureLine
  <2> QED  BY <1>4, <1>5, <1>6, <2>1 DEF CaptureKept
<1> QED  BY <1>1, <1>7, <1>8, <1>9, <1>10 DEF ArbiterStep

-----------------------------------------------------------------------------
(* The captured line.                                                      *)

CaptureInv ==
  /\ InPlace /\ SpillPlace /\ PairRuns
  /\ NoBlits /\ HostWrites /\ RequestRight
  /\ PortRight /\ SaveRight /\ PinsRight
  /\ CaptureKept

LEMMA CaptureStarts == CardInit => CaptureInv
<1> SUFFICES ASSUME CardInit PROVE CaptureInv  OBVIOUS
<1>1. SDRAMInit /\ ArbiterInit  BY DEF CardInit
<1>2. /\ state = "startup" /\ ~got_transaction /\ iob.cmd = "NOP" /\ chip_stream.kind = "none"
      /\ burst_old = 0
  BY <1>1 DEF SDRAMInit, ControllerInit, ChipInit, Idle
<1>3. InPlace /\ SpillPlace /\ PairRuns /\ SaveRight /\ PinsRight
  BY <1>2 DEF InPlace, SpillPlace, PairRuns, SaveRight, PinsRight, Spills, HoldsWrite
<1>4. /\ arb = "READY" /\ blitter_enable = 0 /\ zorro = "COLD" /\ ~zorro_ram_write_request
      /\ ~ram_enable
  BY <1>1 DEF CardInit, ArbiterInit
<1>5. NoBlits /\ HostWrites /\ RequestRight /\ PortRight
  BY <1>4 DEF NoBlits, BlitStates, HostWrites, RequestRight, PortRight
<1>6. CaptureKept
  <2>1. /\ videocap_y3 = 0 /\ cap.x = 0 /\ cap.x2 = 0 /\ ~cap.line_saved
        /\ cap.base = Addr(CaptureBase)
    BY <1>1 DEF ArbiterInit
  <2>2. 0 \in 0 .. CaptureHeight - 1 /\ CaptureBase + 0 * CapturePitch = CaptureBase
    BY SizesAssumption
  <2>3. \A i \in 0 .. cap.x - 1 : FALSE  BY <2>1
  <2> QED  BY <2>1, <2>2, <2>3 DEF CaptureKept
<1> QED  BY <1>3, <1>5, <1>6 DEF CaptureInv

LEMMA CaptureStays ==
  ASSUME CaptureInv, UNCHANGED cardVars
  PROVE  CaptureInv'
<1>1. UNCHANGED <<ctrlVars, chipVars, arb, portVars, blitter_enable, cap, bus, zorro,
                  zorro_ram_write_request, zorro_ram_write, videocap_y3>>
  BY DEF cardVars, sdramVars, inputVars, zorroVars, requestVars
<1>2. InPlace' /\ SpillPlace' /\ PairRuns' /\ SaveRight' /\ PinsRight'
  BY <1>1 DEF CaptureInv, ctrlVars, chipVars, InPlace, SpillPlace, PairRuns, SaveRight, PinsRight,
     Spills, HoldsWrite, ModeAfter, SavedCell, PinCell
<1>3. NoBlits' /\ HostWrites' /\ RequestRight' /\ PortRight'
  BY <1>1 DEF CaptureInv, portVars, NoBlits, HostWrites, RequestRight, PortRight
<1>4. CtrlMem' = CtrlMem
  BY <1>1 DEF ctrlVars, chipVars, CtrlMem, Store, MemNow, WritesNow, BankNow, CellNow, ColNow,
     HoldsWrite, SavedCell
<1>5. ASSUME NEW c  PROVE Landed(c)' = Landed(c)
  BY <1>1, <1>4 DEF portVars, Landed, CellAt, Addr
<1>6. CaptureKept'
  <2>1. cap' = cap /\ videocap_y3' = videocap_y3  BY <1>1
  <2> QED  BY <1>5, <2>1 DEF CaptureInv, CaptureKept, PictureCell, CellAt, Addr
<1> QED  BY <1>2, <1>3, <1>6 DEF CaptureInv

LEMMA CaptureStep ==
  ASSUME ~ResetAllowed, EvenPicture, CaptureAlone, CardInv, RangeInv, PortInv, CaptureInv, Clock,
         CardInv', RangeInv'
  PROVE  CaptureInv'
<1> DEFINE in == Port(sdram_reset)
<1>0. /\ SDRAMClock(in) /\ in \in ClientInputs  BY EdgeFacts
<1>1. QuietReset(in)  BY DEF QuietReset, Port, CardInv, PowerUp, Settled
<1>2. /\ StartupQuiet /\ BlitOwned /\ EnableRules /\ OffersClaimed /\ ReadyHeld /\ BurstOver
  BY DEF PortInv
<1>3. PageHasNoWrites(in)  BY <1>2, PageIsFetched
<1>4. /\ InPlace /\ SpillPlace /\ PairRuns /\ NoBlits /\ HostWrites /\ RequestRight
      /\ PortRight /\ SaveRight /\ PinsRight /\ CaptureKept
  BY DEF CaptureInv
<1>5. Accepts(in) /\ in.wr => PutsRight(InCell(in), in.data, in.lanes)  BY <1>4, TakenRight
<1> HIDE DEF in
<1>6. SafeInv /\ BusTurned /\ SafeInv'  BY DEF CardInv
<1>7. InPlace'  BY <1>0, <1>1, <1>2, <1>3, <1>4, <1>6, InPlaceStep
<1>8. SpillPlace'  BY <1>0, <1>1, <1>4, <1>6, SpillPlaceStep
<1>9. PairRuns'  BY <1>0, <1>4, <1>6, PairRunsStep
<1>10. NoBlits'
  <2>1. NoBlitOps  BY DEF CaptureAlone, NoBlitOps
  <2> QED  BY <1>2, <1>4, <2>1, NoBlitsStep
<1>11. HostWrites'  BY <1>2, <1>4, HostWritesStep
<1>12. RequestRight'  BY <1>4, RequestRightStep
<1>13. CaptureWord => PutsRight(CellAt(Addr(cap.base + cap.x2)), CaptureWords[1], Lanes)
  <2>1. PICK y \in 0 .. CaptureHeight - 1 : cap.base = Addr(CaptureBase + y * CapturePitch)
    BY <1>4 DEF CaptureKept
  <2>2. CellAt(Addr(cap.base + cap.x2)) = PictureCell(y, cap.x)
    BY <1>4, <2>1, CaptureWordPlace DEF CaptureKept
  <2>3. y \in Nat /\ cap.x \in Nat
    BY SizesAssumption, CountersAssumption DEF RangeInv, CountersTyped
  <2>4. PictureCell(y, cap.x)[3] % 2 = 0  BY <2>3, PictureEven
  <2> QED  BY <2>2, <2>4 DEF PutsRight
<1>14. PortRight'  BY <1>2, <1>4, <1>13, PortRightStep
<1>15. SaveRight'  BY <1>0, <1>1, <1>2, <1>3, <1>4, <1>5, <1>6, SaveRightStep
<1>16. PinsRight'  BY <1>0, <1>1, <1>4, <1>6, <1>8, PinsRightStep
<1>17. \A c \in FirstCells : ~(Spills' /\ CellNow' = c)
  <2>1. (EvenPicture /\ SafeInv /\ PairRuns /\ SpillPlace /\ PinsRight
           => \A c \in FirstCells : ~(Spills /\ CellNow = c))'
    BY SpillsBeside, PTL
  <2>2. EvenPicture' /\ FirstCells' = FirstCells
    BY DEF EvenPicture, FirstCells, PictureCell, CellAt, Addr
  <2> QED  BY <1>6, <1>8, <1>9, <1>16, <2>1, <2>2
<1>18. CaptureKept'
  BY <1>1, <1>2, <1>3, <1>4, <1>17, CaptureKeptStep DEF in
<1> QED
  BY <1>7, <1>8, <1>9, <1>10, <1>11, <1>12, <1>14, <1>15, <1>16, <1>18 DEF CaptureInv

LEMMA CaptureIsSaved ==
  ASSUME CardInv, RangeInv, CaptureInv
  PROVE  CapturedFirstWords
<1> SUFFICES ASSUME cap.line_saved, state = "idle", ~got_transaction, ~ram_enable,
                    NEW i \in 0 .. CaptureWidth - 1
             PROVE  mem[CellAt(cap.base + 2 * i)] = CaptureWords[1]
  BY DEF CapturedFirstWords
<1>1. CaptureKept  BY DEF CaptureInv
<1>2. PICK y \in 0 .. CaptureHeight - 1 :
        /\ cap.base = Addr(CaptureBase + y * CapturePitch)
        /\ \A j \in 0 .. cap.x - 1 : Landed(PictureCell(y, j))
  BY <1>1 DEF CaptureKept
<1>3. /\ cap.x \in 0 .. CaptureWidth /\ CaptureWidth \in Nat /\ CaptureBase \in Nat
      /\ CapturePitch \in Nat /\ CaptureHeight \in Nat
  BY SizesAssumption, CountersAssumption DEF RangeInv, CountersTyped
<1>4. cap.x >= CaptureWidth  BY <1>1 DEF CaptureKept
<1>5. i \in 0 .. cap.x - 1  BY <1>3, <1>4
<1>6. Landed(PictureCell(y, i))  BY <1>2, <1>5
<1>7. CtrlMem = mem
  <2>1. ~HoldsWrite  BY DEF HoldsWrite
  <2>2. ~WriteRuns  BY DEF CardInv, BusTurned, WriteStates
  <2>3. ~WritesNow  BY <2>2 DEF WriteRuns, WritesNow
  <2> QED  BY <2>1, <2>3 DEF CtrlMem, Store, MemNow
<1>8. CellAt(cap.base + 2 * i) = PictureCell(y, i)
  <2>1. y \in Nat /\ i \in Nat  BY <1>3
  <2>2. CaptureBase + y * CapturePitch \in Int /\ 2 * i \in Int  BY <1>3, <2>1
  <2> QED  BY <1>2, <2>2, AddrSum DEF PictureCell
<1> QED  BY <1>6, <1>7, <1>8 DEF Landed

(* When a captured line is marked saved and the port and the controller    *)
(* are at rest, the first word of every pair of it is in memory at its     *)
(* place: no grant of the capture is lost, overwritten or misplaced, even  *)
(* when a line fetch or a host's access falls between two of them.  The    *)
(* host writes beside the captured picture and starts no blit, as the      *)
(* driver does while capture is on, and the picture is laid out in pairs.  *)
THEOREM CapturesLand ==
  ASSUME ~ResetAllowed, margin_x = 0, FETCHW > 1, BLITTER_COPY_SIZE > 0, LinesInRows, WaitsSuffice,
         EvenPicture, CaptureAlone
  PROVE  CardSpec /\ OffBetweenLines => []CapturedFirstWords
<1>1. /\ CardInv /\ RangeInv /\ PortInv /\ CaptureInv /\ [Clock]_cardVars
      /\ [WritesCapture /\ bus.op.value # 1 => cap.line_saved]_cardVars
      => CardInv' /\ RangeInv' /\ PortInv' /\ CaptureInv'
  <2> SUFFICES ASSUME CardInv, RangeInv, PortInv, CaptureInv, [Clock]_cardVars,
                      [WritesCapture /\ bus.op.value # 1 => cap.line_saved]_cardVars
               PROVE  CardInv' /\ RangeInv' /\ PortInv' /\ CaptureInv'
    OBVIOUS
  <2>1. CardInv' /\ RangeInv'  BY CardStep, RangesStep
  <2>2. CASE UNCHANGED cardVars
    BY <2>1, <2>2, PortKept, CaptureStays
  <2>3. CASE Clock /\ (WritesCapture /\ bus.op.value # 1 => cap.line_saved)
    <3>1. PortInv'  BY <2>1, <2>3, PortStep
    <3>2. CaptureInv'  BY <2>1, <2>3, CaptureStep
    <3> QED  BY <2>1, <3>1, <3>2
  <2> QED  BY <2>1, <2>2, <2>3
<1>2. CardInv /\ RangeInv /\ CaptureInv => CapturedFirstWords  BY CaptureIsSaved
<1> QED
  BY <1>1, <1>2, CardStarts, RangesStart, PortStarts, CaptureStarts, PTL
  DEF CardSpec, OffBetweenLines

-----------------------------------------------------------------------------
(* The memory as the host sees it.                                         *)

\* Nothing is captured.
NoCapture == ~ResetCapture /\ \A o \in HostOps : o.reg # "videocap_mode"

WritePhases == {"Z3_WRITE_UPPER", "Z3_WRITE_LOWER", "Z3_WRITE_FINALIZE"}

\* The host waits for the blitter before it writes to the memory.
WritesWait == zorro \in WritePhases => blitter_enable = 0

\* The blitter writes beside the words that the host uses.
BlitsBeside ==
  ram_enable /\ ram_write => arb = "WRITING_ZORRO" \/ CellAt(ram_addr) \notin HostCells

NoPairs == ~videocap_mode /\ ram_burst_size # 1 /\ burst_old # 1

\* The access that a state of the Zorro machine works on is still on the bus.
HostPhases ==
  /\ zorro \in {"Z3_READ_UPPER", "Z3_READ_LOWER", "Z3_READ_DELAY1"} => bus.op.kind = "read"
  /\ zorro \in {"Z3_REGWRITE", "REGWRITE"} => bus.op.kind = "reg"
  /\ zorro \in WritePhases \cup {"Z3_WRITE_PRE"} => bus.op.kind = "write"
  /\ zorro \in BusyStates \cup {"Z3_READ_DELAY2"} => bus.active
  /\ zorro \in WritePhases => z3_ds = bus.op.strobes
  /\ zorro = "Z3_ENDCYCLE" /\ ~bus.active => dtack

\* A write that was requested is the one on the port.
WriteUnderWay ==
  /\ zorro_ram_write_request => zorro \in {"Z3_WRITE_LOWER", "Z3_WRITE_FINALIZE"}
  /\ arb = "WRITING_ZORRO_PRE" => zorro_ram_write_request /\ ready_for_new /\ ~ram_enable
  /\ arb = "WRITING_ZORRO" =>
       /\ zorro_ram_write_request /\ ready_for_new /\ ram_enable /\ ram_write
       /\ ram_addr = zorro_ram_write.addr /\ ram_data_in = zorro_ram_write.data
       /\ ram_byte_enable = zorro_ram_write.bytes

ReadUnderWay ==
  /\ zorro_ram_read_request =>
       \/ zorro = "Z3_READ_LOWER" /\ zorro_ram_read_addr = Half(0)
       \/ zorro = "Z3_READ_DELAY1" /\ zorro_ram_read_addr = Half(1)
  /\ arb \in {"READING_ZORRO_PRE", "READING_ZORRO"} => zorro_ram_read_request

LEMMA NoPairsStep ==
  ASSUME NoCapture, CardInv, RangeInv, NoPairs, Clock
  PROVE  NoPairs' /\ ~WritesCapture
<1>1. PICK p \in {BlitterStarted, blit} : ArbiterStep(p)  BY DEF Clock
<1>2. ~WritesCapture  BY DEF WritesCapture, NoCapture, RangeInv, HostTyped
<1>3. ~videocap_mode'
  BY <1>2 DEF Clock, Registers, NoPairs, NoCapture
<1>4. ram_burst_size' # 1
  <2>1. CASE Ready \/ FetchNext \/ BurstOn \/ FetchingRow \/ BurstOff
    BY <2>1 DEF NoPairs, Ready, FetchNext, BurstOn, FetchingRow, BurstOff, ReadAt, Enable, SetPort,
       portVars
  <2>2. CASE FetchDone
    BY <2>2 DEF NoPairs, FetchDone, EnableBurst, SetPort
  <2>3. CASE NobodyServed \/ GrantFetch \/ GrantWrite \/ GrantRead \/ FillPixel \/ FillRow \/ FillEnd
             \/ GrantCopyRead \/ GrantCopyWrite \/ CaptureWord \/ CaptureEnd \/ GrantRefresh
    BY <2>3 DEF NoPairs, NobodyServed, GrantFetch, GrantWrite, GrantRead, FillPixel, FillRow, FillEnd,
       GrantCopyRead, GrantCopyWrite, CaptureWord, CaptureEnd, GrantRefresh, Enable, EnableBurst,
       WriteAt, SetPort, portVars
  <2>4. CASE RefreshPre \/ Refresh \/ RefreshEnd \/ WriteEnd1 \/ WriteEnd \/ CopyRead1 \/ CopyRead
             \/ CopyWrite \/ CopyWriteWaits
    BY <2>4 DEF NoPairs, RefreshPre, Refresh, RefreshEnd, WriteEnd1, WriteEnd, CopyRead1, CopyRead,
       CopyWrite, CopyWriteWaits, Enable, ReadAt, WriteAt, SetPort, portVars
  <2>5. CASE ReadingZorroPre \/ ReadingZorro \/ WritingZorroPre \/ WritingZorro
    BY <2>5 DEF NoPairs, ReadingZorroPre, ReadingZorro, WritingZorroPre, WritingZorro, Enable, ReadAt,
       SetPort
  <2> QED  BY <1>1, <2>1, <2>2, <2>3, <2>4, <2>5 DEF ArbiterStep
<1>5. burst_old' # 1
  <2> DEFINE in == Port(sdram_reset)
  <2>1. SDRAMClock(in) /\ in.burst = ram_burst_size  BY EdgeFacts
  <2> HIDE DEF in
  <2>2. CASE LoadMode(in)
    BY <2>1, <2>2 DEF LoadMode, NoPairs
  <2>3. CASE ~LoadMode(in)
    <3>1. burst_old' = burst_old
      BY <2>1, <2>3 DEF SDRAMClock, ControllerState, Startup, IdleWait, Activate, IdleNop, OpenIn2,
         OpenIn1, Read1, BurstRead, BurstTerminate, ReadTail, Write1, Write2, Write3, Precharge
    <3> QED  BY <3>1 DEF NoPairs
  <2> QED  BY <2>2, <2>3
<1> QED  BY <1>2, <1>3, <1>4, <1>5 DEF NoPairs

\* The host keeps its access on the bus while the card works on it.
LEMMA AccessKept ==
  ASSUME ~ResetAllowed, CardInv, RangeInv, BlitOwned, HostPhases, Clock
  PROVE  /\ ~znrst /\ ~znrst' /\ ZorroStep
         /\ zorro \in BusyStates \cup {"Z3_READ_DELAY2"} => bus' = bus
         /\ zorro = "Z3_IDLE" /\ bus.active => bus' = bus
         /\ dtack => bus'.op = bus.op
         /\ bus'.op = bus.op \/ (~bus.active /\ bus'.op \in HostOps)
<1>1. ~znrst /\ ~znrst' /\ ZorroStep /\ Host  BY PowerUpStep DEF CardInv, PowerUp, Clock
<1>2. bus \in [active : BOOLEAN, op : HostRecords] /\ dtack \in BOOLEAN
  BY DEF CardInv, CardTyped, RequestsTyped, RangeInv, HostTyped
<1>3. bus.active /\ ~dtack => bus' = bus  BY <1>1 DEF Host
<1>4. zorro # "Z3_ENDCYCLE" => ~dtack  BY DEF BlitOwned
<1>5. zorro \in BusyStates \cup {"Z3_READ_DELAY2"} => bus' = bus
  BY <1>3, <1>4 DEF HostPhases, BusyStates
<1>6. zorro = "Z3_IDLE" /\ bus.active => bus' = bus  BY <1>3, <1>4
<1>7. CASE bus' = bus
  BY <1>1, <1>5, <1>6, <1>7
<1>8. CASE bus' = [bus EXCEPT !.active = FALSE]
  <2>1. bus'.op = bus.op  BY <1>2, <1>8
  <2> QED  BY <1>1, <1>5, <1>6, <2>1
<1>9. ASSUME NEW o \in HostOps, ~bus.active, ~dtack, bus' = [active |-> TRUE, op |-> o]
      PROVE  /\ dtack => bus'.op = bus.op
             /\ bus'.op = bus.op \/ (~bus.active /\ bus'.op \in HostOps)
  BY <1>9
<1> QED  BY <1>1, <1>5, <1>6, <1>7, <1>8, <1>9 DEF Host

LEMMA HostPhasesStep ==
  ASSUME ~ResetAllowed, CardInv, RangeInv, BlitOwned, HostPhases, Clock
  PROVE  HostPhases'
<1>1. ~znrst /\ ZorroStep  BY AccessKept
<1>2. /\ bus \in [active : BOOLEAN, op : HostRecords] /\ dtack \in BOOLEAN /\ zorro \in ZorroStates
  BY DEF CardInv, CardTyped, RequestsTyped, RangeInv, HostTyped
<1>3. bus.op.kind \in {"read", "write", "reg"}  BY <1>2 DEF HostRecords
<1>4. CASE zorro = "Z3_IDLE" /\ zorro' # "Z3_IDLE" /\ zorro' # "RESET_DVID"
  <2>1. Z3Idle
    BY <1>1, <1>4 DEF ZorroStep, Forced, ZAt, ZTo, Cold, EnterReset, InReset, Configuring,
       Configured, ConfiguredClear, EnterResetDvid, ResetDvid, ReadUpper, ReadLower, ReadDelay1,
       ReadDelay2, WritePre, WriteUpper, WriteLower, WriteFinalize, EndCycle, RegWrite
  <2>2. bus.active /\ zorro' = FirstState[bus.op.kind]
    BY <1>4, <2>1 DEF Z3Idle, ZTo
  <2>3. bus' = bus  BY <1>4, <2>2, AccessKept
  <2>4. CASE bus.op.kind = "read"
    BY <2>2, <2>3, <2>4 DEF FirstState, HostPhases, WritePhases, BusyStates
  <2>5. CASE bus.op.kind = "write"
    BY <2>2, <2>3, <2>5 DEF FirstState, HostPhases, WritePhases, BusyStates
  <2>6. CASE bus.op.kind = "reg"
    BY <2>2, <2>3, <2>6 DEF FirstState, HostPhases, WritePhases, BusyStates
  <2> QED  BY <1>3, <2>4, <2>5, <2>6
<1>5. CASE ReadUpper \/ ReadLower \/ ReadDelay1 \/ ReadDelay2
  <2>1. bus' = bus /\ bus.active
    BY <1>5, AccessKept DEF ReadUpper, ReadLower, ReadDelay1, ReadDelay2, ZAt, HostPhases, BusyStates
  <2>2. zorro \in {"Z3_READ_UPPER", "Z3_READ_LOWER", "Z3_READ_DELAY1"} => bus.op.kind = "read"
    BY DEF HostPhases
  <2>3. \/ zorro \in {"Z3_READ_UPPER", "Z3_READ_LOWER", "Z3_READ_DELAY1"}
           /\ zorro' \in {"Z3_READ_UPPER", "Z3_READ_LOWER", "Z3_READ_DELAY1", "Z3_READ_DELAY2"}
        \/ zorro = "Z3_READ_DELAY2" /\ zorro' \in {"Z3_READ_DELAY2", "Z3_ENDCYCLE"}
    BY <1>5 DEF ReadUpper, ReadLower, ReadDelay1, ReadDelay2, ZAt, ZTo
  <2> QED  BY <2>1, <2>2, <2>3 DEF HostPhases, WritePhases, BusyStates
<1>6. CASE WritePre \/ WriteUpper \/ WriteLower \/ WriteFinalize
  <2>1. bus' = bus /\ bus.active /\ bus.op.kind = "write"
    BY <1>6, AccessKept DEF WritePre, WriteUpper, WriteLower, WriteFinalize, ZAt, HostPhases,
       BusyStates, WritePhases
  <2>2. z3_ds' = bus.op.strobes
    BY <1>6 DEF WritePre, WriteUpper, WriteLower, WriteFinalize, ZAt, HostPhases, WritePhases
  <2>3. zorro' \in WritePhases \cup {"Z3_ENDCYCLE"}
    BY <1>6 DEF WritePre, WriteUpper, WriteLower, WriteFinalize, ZAt, ZTo, WritePhases
  <2> QED  BY <2>1, <2>2, <2>3 DEF HostPhases, WritePhases, BusyStates
<1>7. CASE RegWrite
  <2>1. bus' = bus /\ bus.active /\ bus.op.kind = "reg"
    BY <1>7, AccessKept DEF RegWrite, ZAt, HostPhases, BusyStates
  <2>2. zorro' \in {"REGWRITE", "Z3_ENDCYCLE"}  BY <1>7 DEF RegWrite
  <2> QED  BY <2>1, <2>2 DEF HostPhases, WritePhases, BusyStates
<1>8. CASE EndCycle
  <2>1. zorro' \in {"Z3_ENDCYCLE", "Z3_IDLE"} /\ dtack' = bus.active
        /\ (zorro' = "Z3_ENDCYCLE" => bus.active)
    BY <1>8 DEF EndCycle, ZAt
  <2> QED  BY <2>1 DEF HostPhases, WritePhases, BusyStates
<1>9. CASE ~(ReadUpper \/ ReadLower \/ ReadDelay1 \/ ReadDelay2 \/ WritePre \/ WriteUpper \/ WriteLower
             \/ WriteFinalize \/ RegWrite \/ EndCycle)
           /\ ~(zorro = "Z3_IDLE" /\ zorro' # "Z3_IDLE" /\ zorro' # "RESET_DVID")
  <2>1. zorro' \in {"RESET", "DECIDE_Z2_Z3", "Z3_CONFIGURING", "CONFIGURED", "CONFIGURED_CLEAR",
                    "RESET_DVID", "Z3_IDLE"}
    BY <1>1, <1>9 DEF ZorroStep, ZAt, ZTo, Cold, Forced, EnterReset, InReset, Configuring,
       Configured, ConfiguredClear, EnterResetDvid, ResetDvid, Z3Idle
  <2> QED  BY <2>1 DEF HostPhases, WritePhases, BusyStates
<1> QED  BY <1>4, <1>5, <1>6, <1>7, <1>8, <1>9

\* A controller that is ready and is given nothing stays ready.
LEMMA ReadyStays ==
  ASSUME SafeInv, NEW in \in ClientInputs, ~in.reset, SDRAMClock(in), ready_for_new, ~Accepts(in)
  PROVE  ready_for_new'
<1>1. ControllerState(in)  BY DEF SDRAMClock
<1>2. ~Activate(in)  BY DEF Activate, SafeInv, Handshake
<1>3. CASE Startup(in) \/ IdleWait(in) \/ LoadMode(in) \/ IdleNop(in) \/ OpenIn2(in) \/ OpenIn1(in)
  BY <1>3 DEF Startup, IdleWait, LoadMode, IdleNop, OpenIn2, OpenIn1, Keep, Reopen, Goto
<1>4. CASE Read1(in) \/ BurstRead(in) \/ BurstTerminate(in) \/ ReadTail(in)
  BY <1>4 DEF Read1, BurstRead, BurstTerminate, ReadTail, Keep, Reopen, Goto
<1>5. CASE Write1(in) \/ Write2(in) \/ Write3(in) \/ Precharge(in)
  BY <1>5 DEF Write1, Write2, Write3, Precharge, Keep, Reopen, Goto
<1> QED  BY <1>1, <1>2, <1>3, <1>4, <1>5 DEF ControllerState

LEMMA WriteUnderWayStep ==
  ASSUME ~ResetAllowed, CardInv, RangeInv, BlitOwned, OffersClaimed, NoPairs, HostPhases,
         WriteUnderWay, WritesWait, Clock
  PROVE  WriteUnderWay'
<1> DEFINE in == Port(sdram_reset)
<1>0. /\ SDRAMClock(in) /\ in \in ClientInputs /\ (in.reset <=> sdram_reset)
      /\ (Accepts(in) <=> ready_for_new /\ ram_enable)
  BY EdgeFacts
<1> HIDE DEF in
<1>1. PICK p \in {BlitterStarted, blit} : ArbiterStep(p)  BY DEF Clock
<1>2. ~znrst /\ ZorroStep  BY AccessKept
<1>3. Requests  BY DEF Clock
<1>4. zorro_ram_write_request \in BOOLEAN /\ zorro \in ZorroStates
  BY DEF RangeInv, HostTyped
<1>5. zorro_ram_write_request => ~in.reset
  BY <1>0 DEF WriteUnderWay, CardInv, PowerUp
<1>6. ASSUME ready_for_new, ~ram_enable, zorro_ram_write_request  PROVE ready_for_new'
  BY <1>0, <1>5, <1>6, ReadyStays DEF CardInv
<1>7. ASSUME zorro_ram_write_request'
      PROVE  zorro' \in {"Z3_WRITE_LOWER", "Z3_WRITE_FINALIZE"}
  <2>1. CASE zorro_ram_write_request
    <3>1. zorro \in {"Z3_WRITE_LOWER", "Z3_WRITE_FINALIZE"}  BY <2>1 DEF WriteUnderWay
    <3>2. WriteLower \/ WriteFinalize
      BY <1>2, <3>1 DEF ZorroStep, ZAt, Forced, Cold, EnterReset, InReset, Configuring, Configured,
         ConfiguredClear, EnterResetDvid, ResetDvid, Z3Idle, ReadUpper, ReadLower, ReadDelay1,
         ReadDelay2, WritePre, WriteUpper, EndCycle, RegWrite
    <3> QED  BY <2>1, <3>1, <3>2 DEF WriteLower, WriteFinalize, ZAt
  <2>2. CASE ~zorro_ram_write_request
    <3>1. SetsWriteRequest  BY <1>3, <1>7, <2>2 DEF Requests
    <3>2. WriteUpper \/ WriteLower
      BY <1>2, <3>1 DEF SetsWriteRequest, ZorroStep, ZAt, Forced, Cold, EnterReset, InReset,
         Configuring, Configured, ConfiguredClear, EnterResetDvid, ResetDvid, Z3Idle, ReadUpper,
         ReadLower, ReadDelay1, ReadDelay2, WritePre, WriteFinalize, EndCycle, RegWrite
    <3> QED  BY <2>2, <3>2 DEF WriteUpper, WriteLower, PassesHalf
  <2> QED  BY <1>4, <2>1, <2>2
<1>8. ASSUME arb' = "WRITING_ZORRO_PRE"
      PROVE  zorro_ram_write_request' /\ ready_for_new' /\ ~ram_enable'
  <2>1. ~WritingZorroPre
    BY <1>8 DEF WritingZorroPre, At, WriteUnderWay, cmd_ready
  <2>2. GrantWrite  BY <1>1, <1>8, <2>1, ArrivesServing
  <2>3. arb = "ROW_FETCHED" /\ ready_for_new /\ zorro_ram_write_request
    BY <2>2 DEF GrantWrite, Grants, At, cmd_ready, Claimant
  <2>4. blitter_enable = 0  BY <2>3 DEF WriteUnderWay, WritesWait, WritePhases
  <2>5. ~ram_enable  BY <2>3, <2>4 DEF OffersClaimed, NoPairs
  <2>6. ~ClearsWriteRequest  BY <2>3 DEF ClearsWriteRequest, At
  <2>7. zorro_ram_write_request'  BY <1>3, <2>3, <2>6 DEF Requests
  <2>8. ~ram_enable'  BY <2>2 DEF GrantWrite, EnableBurst, SetPort
  <2> QED  BY <1>6, <2>3, <2>5, <2>7, <2>8
<1>9. ASSUME arb' = "WRITING_ZORRO"
      PROVE  /\ zorro_ram_write_request' /\ ready_for_new' /\ ram_enable' /\ ram_write'
             /\ ram_addr' = zorro_ram_write'.addr /\ ram_data_in' = zorro_ram_write'.data
             /\ ram_byte_enable' = zorro_ram_write'.bytes
  <2>1. ~WritingZorro
    BY <1>9 DEF WritingZorro, At, WriteUnderWay, cmd_ready
  <2>2. WritingZorroPre  BY <1>1, <1>9, <2>1, ArrivesServing
  <2>3. zorro_ram_write_request /\ ready_for_new /\ ~ram_enable /\ arb = "WRITING_ZORRO_PRE"
    BY <2>2 DEF WritingZorroPre, At, WriteUnderWay
  <2>4. ~ClearsWriteRequest /\ ~SetsWriteRequest
    BY <2>3 DEF ClearsWriteRequest, SetsWriteRequest, At
  <2>5. zorro_ram_write_request' /\ zorro_ram_write' = zorro_ram_write
    BY <1>3, <2>3, <2>4 DEF Requests
  <2>6. /\ ram_enable' /\ ram_write' /\ ram_addr' = zorro_ram_write.addr
        /\ ram_data_in' = zorro_ram_write.data /\ ram_byte_enable' = zorro_ram_write.bytes
    BY <2>2 DEF WritingZorroPre, SetPort
  <2> QED  BY <1>6, <2>3, <2>5, <2>6
<1> QED  BY <1>7, <1>8, <1>9 DEF WriteUnderWay

LEMMA ReadUnderWayStep ==
  ASSUME ~ResetAllowed, CardInv, RangeInv, BlitOwned, HostPhases, ReadUnderWay, Clock
  PROVE  ReadUnderWay'
<1>1. PICK p \in {BlitterStarted, blit} : ArbiterStep(p)  BY DEF Clock
<1>2. ~znrst /\ ZorroStep  BY AccessKept
<1>3. Requests  BY DEF Clock
<1>4. zorro_ram_read_request \in BOOLEAN  BY DEF RangeInv, HostTyped
<1>5. ASSUME zorro_ram_read_request'
      PROVE  \/ zorro' = "Z3_READ_LOWER" /\ zorro_ram_read_addr' = Half(0)'
             \/ zorro' = "Z3_READ_DELAY1" /\ zorro_ram_read_addr' = Half(1)'
  <2>1. CASE zorro_ram_read_request
    <3>1. /\ zorro \in {"Z3_READ_LOWER", "Z3_READ_DELAY1"}
          /\ zorro = "Z3_READ_LOWER" => zorro_ram_read_addr = Half(0)
          /\ zorro = "Z3_READ_DELAY1" => zorro_ram_read_addr = Half(1)
      BY <2>1 DEF ReadUnderWay
    <3>2. ReadLower \/ ReadDelay1
      BY <1>2, <3>1 DEF ZorroStep, ZAt, Forced, Cold, EnterReset, InReset, Configuring, Configured,
         ConfiguredClear, EnterResetDvid, ResetDvid, Z3Idle, ReadUpper, ReadDelay2, WritePre,
         WriteUpper, WriteLower, WriteFinalize, EndCycle, RegWrite
    <3>3. zorro' = zorro  BY <2>1, <3>2 DEF ReadLower, ReadDelay1
    <3>4. bus' = bus  BY <3>1, AccessKept DEF BusyStates
    <3>5. zorro_ram_read_addr' = zorro_ram_read_addr
      BY <1>3, <2>1 DEF Requests, SetsReadRequest
    <3> QED  BY <3>1, <3>3, <3>4, <3>5 DEF Half
  <2>2. CASE ~zorro_ram_read_request
    <3>1. SetsReadRequest  BY <1>3, <1>5, <2>2 DEF Requests
    <3>2. zorro \in {"Z3_READ_UPPER", "Z3_READ_LOWER"}  BY <3>1 DEF SetsReadRequest, ZAt
    <3>3. bus' = bus  BY <3>2, AccessKept DEF BusyStates
    <3>4. CASE zorro = "Z3_READ_UPPER"
      <4>1. ReadUpper
        BY <1>2, <3>4 DEF ZorroStep, ZAt, Forced, Cold, EnterReset, InReset, Configuring, Configured,
           ConfiguredClear, EnterResetDvid, ResetDvid, Z3Idle, ReadLower, ReadDelay1, ReadDelay2,
           WritePre, WriteUpper, WriteLower, WriteFinalize, EndCycle, RegWrite
      <4>2. zorro' = "Z3_READ_LOWER"  BY <2>2, <4>1 DEF ReadUpper
      <4>3. zorro_ram_read_addr' = Half(0)  BY <1>3, <3>1, <3>4 DEF Requests
      <4> QED  BY <3>3, <4>2, <4>3 DEF Half
    <3>5. CASE zorro = "Z3_READ_LOWER"
      <4>1. ReadLower
        BY <1>2, <3>5 DEF ZorroStep, ZAt, Forced, Cold, EnterReset, InReset, Configuring, Configured,
           ConfiguredClear, EnterResetDvid, ResetDvid, Z3Idle, ReadUpper, ReadDelay1, ReadDelay2,
           WritePre, WriteUpper, WriteLower, WriteFinalize, EndCycle, RegWrite
      <4>2. zorro' = "Z3_READ_DELAY1"  BY <2>2, <4>1 DEF ReadLower, ZTo
      <4>3. zorro_ram_read_addr' = Half(1)  BY <1>3, <3>1, <3>5 DEF Requests
      <4> QED  BY <3>3, <4>2, <4>3 DEF Half
    <3> QED  BY <3>2, <3>4, <3>5
  <2> QED  BY <1>4, <2>1, <2>2
<1>6. ASSUME arb' \in {"READING_ZORRO_PRE", "READING_ZORRO"}
      PROVE  zorro_ram_read_request'
  <2>1. GrantRead \/ ReadingZorroPre \/ ReadingZorro  BY <1>1, <1>6, ArrivesServing
  <2>2. zorro_ram_read_request
    BY <2>1 DEF GrantRead, Grants, Claimant, ReadingZorroPre, ReadingZorro, At, ReadUnderWay
  <2>3. ~ReadAnswered
    BY <1>6, <2>1 DEF GrantRead, Grants, ReadingZorroPre, ReadingZorro, ReadAnswered, At
  <2> QED  BY <1>3, <2>2, <2>3 DEF Requests
<1> QED  BY <1>5, <1>6 DEF ReadUnderWay

\* A word of the host changes when the arbiter hands over the host's write.
LEMMA HostWordStep ==
  ASSUME CardInv, RangeInv, StartupQuiet, InPlace, BurstOver, EnableRules, ReadyHeld, WriteUnderWay,
         BlitsBeside, Clock, CardInv', SpillPlace', NoPairs', NEW c \in HostCells
  PROVE  /\ c \in Cells
         /\ CtrlMem'[c] = IF arb = "WRITING_ZORRO" /\ CellAt(zorro_ram_write.addr) = c
                          THEN Merge(CtrlMem[c], zorro_ram_write.data, zorro_ram_write.bytes)
                          ELSE CtrlMem[c]
<1> DEFINE in == Port(sdram_reset)
           yes == Accepts(in) /\ in.wr
           cell == InCell(in)
           m == CtrlMem
<1>0. /\ SDRAMClock(in) /\ in \in ClientInputs /\ in.wr = ram_write
      /\ (Accepts(in) <=> ready_for_new /\ ram_enable)
      /\ InCell(in) = CellAt(ram_addr) /\ in.data = ram_data_in /\ in.lanes = ram_byte_enable
  BY EdgeFacts DEF InCell, Port
<1>1. PageHasNoWrites(in)  BY PageIsFetched
<1>2. QuietReset(in)  BY DEF QuietReset, Port, CardInv, PowerUp, Settled
<1> HIDE DEF in
<1>3. SafeInv /\ BusTurned /\ SafeInv' /\ BusTurned'  BY DEF CardInv
<1>4. c \in Cells
  <2>1. PICK o \in HostOps, h \in {0, 1} : c = CellAt(o.addr + h)  BY DEF HostCells
  <2>2. o.addr + h \in Int  BY <2>1, RangesAssumption
  <2> QED  BY <2>1, <2>2, CellAtType
<1>5. ~Spills'  BY DEF SpillPlace, NoPairs
<1>6. CtrlMem'[c] = Store(m, yes, cell, in.data, in.lanes)[c]
  BY <1>0, <1>1, <1>2, <1>3, <1>4, <1>5, CtrlMemStep
<1>7. m \in [Cells -> Words] /\ cell \in Cells
  BY <1>0, <1>3, CtrlMemType DEF InCell, ClientInputs, Cells
<1>8. yes /\ cell = c => arb = "WRITING_ZORRO"  BY <1>0 DEF BlitsBeside
<1>9. arb = "WRITING_ZORRO" => /\ yes /\ cell = CellAt(zorro_ram_write.addr)
                               /\ in.data = zorro_ram_write.data /\ in.lanes = zorro_ram_write.bytes
  BY <1>0 DEF WriteUnderWay
<1> HIDE DEF yes, cell, m
<1>10. Store(m, yes, cell, in.data, in.lanes)[c]
         = IF yes /\ cell = c THEN Merge(m[c], in.data, in.lanes) ELSE m[c]
  BY <1>4, <1>7, StoreAt
<1>11. CASE arb = "WRITING_ZORRO" /\ CellAt(zorro_ram_write.addr) = c
  BY <1>4, <1>6, <1>9, <1>10, <1>11 DEF m
<1>12. CASE ~(arb = "WRITING_ZORRO" /\ CellAt(zorro_ram_write.addr) = c)
  <2>1. ~(yes /\ cell = c)  BY <1>8, <1>9, <1>12
  <2> QED  BY <1>4, <1>6, <1>10, <1>12, <2>1 DEF m
<1> QED  BY <1>11, <1>12

\* READ comes on the pins when the row of its cell is open.
LEMMA ReadLands ==
  ASSUME SafeInv, NEW in, SDRAMClock(in), Read1(in)
  PROVE  iob'.cmd = "READ" /\ CellNow' = SavedCell
<1>1. TypeInv /\ RowFits /\ Chip /\ state = "read_1"  BY DEF SafeInv, SDRAMClock, Read1
<1>2. iob \in Pins  BY <1>1 DEF TypeInv, TypeOK, ControllerTypeOK
<1>3. iob'.cmd = "READ" /\ iob'.addr = save.col /\ iob'.bank = save.bank
  BY <1>2 DEF Read1, Pins
<1>4. open_row' = RowsAfter  BY <1>1, RowsAfterStep
<1>5. RowsAfter[save.bank] = save.row  BY <1>1 DEF RowFits
<1>6. BankNow' = save.bank /\ ColNow' = save.col
  BY <1>3 DEF BankNow, ColNow
<1>7. CellNow' = SavedCell  BY <1>4, <1>5, <1>6 DEF CellNow, SavedCell
<1> QED  BY <1>3, <1>7

\* The word the chip puts out for the READ on the pins.
LEMMA ReadGives ==
  ASSUME SafeInv, Chip, iob.cmd = "READ", ~HoldsWrite
  PROVE  dq'[1] = CtrlMem[CellNow]
<1>1. CommandsLegal  BY DEF SafeInv
<1>2. BankNow = iob.bank /\ ReadsNow /\ ~WritesNow  BY DEF BankNow, ReadsNow, WritesNow
<1>3. open_row[BankNow] # Closed  BY <1>1, <1>2 DEF CommandsLegal
<1>4. dq'[1] = mem[CellNow]  BY <1>2, <1>3 DEF Chip, ChipOut
<1>5. CtrlMem = mem  BY <1>2 DEF CtrlMem, Store, MemNow
<1> QED  BY <1>4, <1>5

LEMMA DataOutStep ==
  ASSUME NEW in, ControllerState(in), 0 \in data_ready_delay
  PROVE  data_out' = dq[3]
BY DEF ControllerState, Startup, IdleWait, LoadMode, Activate, IdleNop, OpenIn2, OpenIn1, Read1,
   BurstRead, BurstTerminate, ReadTail, Write1, Write2, Write3, Precharge, DelayLine

\* The cell the host's read asks for, and its word on the way to the host.
Asked == CellAt(zorro_ram_read_addr)

AnswerUnderWay ==
  arb = "READING_ZORRO" =>
    /\ ~HoldsWrite
    /\ ram_enable => CellAt(ram_addr) = Asked
    /\ HoldsRead \/ state = "read_1" => SavedCell = Asked
    /\ 3 \in data_ready_delay => iob.cmd = "READ" /\ CellNow = Asked
    /\ 2 \in data_ready_delay => dq[1] = CtrlMem[Asked]
    /\ 1 \in data_ready_delay => dq[2] = CtrlMem[Asked]
    /\ 0 \in data_ready_delay => dq[3] = CtrlMem[Asked]
    /\ data_out_ready => data_out = CtrlMem[Asked]

\* What the host asks for is a word of the host, and stays asked for.
LEMMA AskedStays ==
  ASSUME RangeInv, ReadUnderWay, Requests, zorro_ram_read_request
  PROVE  Asked \in HostCells /\ Asked' = Asked
<1>1. zorro_ram_read_addr' = zorro_ram_read_addr  BY DEF Requests, SetsReadRequest
<1>2. bus.op \in HostOps  BY DEF RangeInv, HostTyped
<1>3. PICK h \in {0, 1} : zorro_ram_read_addr = bus.op.addr + h  BY DEF ReadUnderWay, Half
<1>4. Asked \in HostCells  BY <1>2, <1>3 DEF Asked, HostCells
<1>5. Asked' = Asked  BY <1>1 DEF Asked, CellAt, Addr
<1> QED  BY <1>4, <1>5

LEMMA AnswerUnderWayStep ==
  ASSUME CardInv, RangeInv, PortInv, InPlace, WriteUnderWay, ReadUnderWay, AnswerUnderWay,
         BlitsBeside, Clock, CardInv', SpillPlace', NoPairs'
  PROVE  AnswerUnderWay'
<1> SUFFICES ASSUME arb' = "READING_ZORRO"
             PROVE  AnswerUnderWay'
  BY DEF AnswerUnderWay
<1> DEFINE in == Port(sdram_reset)
<1>0. /\ SDRAMClock(in) /\ in \in ClientInputs /\ in.wr = ram_write /\ (in.reset <=> sdram_reset)
      /\ (Accepts(in) <=> ready_for_new /\ ram_enable) /\ InCell(in) = CellAt(ram_addr)
  BY EdgeFacts DEF InCell
<1>1. QuietReset(in)  BY DEF QuietReset, Port, CardInv, PowerUp, Settled
<1>2. /\ StartupQuiet /\ ReadPlaces /\ BlitOwned /\ EnableRules /\ ReadyHeld /\ BurstOver /\ Free
      /\ Warming /\ HostRead
  BY DEF PortInv
<1>3. PageHasNoWrites(in)  BY <1>2, PageIsFetched
<1> HIDE DEF in
<1>4. /\ SafeInv /\ TypeInv /\ Requests
  BY DEF CardInv, SafeInv, Clock
<1>5. PICK p \in {BlitterStarted, blit} : ArbiterStep(p)  BY DEF Clock
<1>6. ReadingZorroPre \/ ReadingZorro  BY <1>5, ArrivesServing
<1>7. arb \in {"READING_ZORRO_PRE", "READING_ZORRO"} /\ zorro_ram_read_request
  BY <1>6 DEF ReadingZorroPre, ReadingZorro, At, ReadUnderWay
<1>8. Asked \in HostCells /\ Asked' = Asked  BY <1>4, <1>7, AskedStays
<1>9. CtrlMem'[Asked] = CtrlMem[Asked]
  <2> DEFINE c == Asked
  <2>1. c \in HostCells  BY <1>8
  <2> HIDE DEF c
  <2>2. CtrlMem'[c] = CtrlMem[c]  BY <1>2, <1>7, <2>1, HostWordStep
  <2> QED  BY <2>2 DEF c
<1>10. /\ HoldsWrite' <=> (HoldsWrite /\ state # "write_1") \/ (Accepts(in) /\ in.wr)
       /\ HoldsWrite /\ state # "write_1" => ~Accepts(in)
  BY <1>0, <1>1, <1>2, <1>3, <1>4, HoldsWriteStep
<1>11. CASE ReadingZorroPre
  <2>1. arb = "READING_ZORRO_PRE" /\ ready_for_new
    BY <1>11 DEF ReadingZorroPre, At, cmd_ready
  <2>2. ~ram_enable /\ ~Accepts(in)  BY <1>0, <1>2, <2>1 DEF EnableRules
  <2>3. ~HoldsWrite'
    BY <1>4, <1>10, <2>1, <2>2 DEF HoldsWrite, InPlace, SafeInv, Handshake
  <2>4. NoReadsOut'  BY <1>2, <2>1, FreeStays DEF FreeStates
  <2>5. ram_addr' = zorro_ram_read_addr
    BY <1>11, <2>1 DEF ReadingZorroPre, At, To, ReadAt, SetPort
  <2>6. CellAt(ram_addr') = Asked'  BY <1>8, <2>5 DEF Asked
  <2>7. /\ data_ready_delay' = {} /\ ~data_out_ready' /\ state' # "read_1" /\ ~HoldsRead'
    BY <2>4 DEF NoReadsOut, ReadStates, HoldsRead
  <2>8. CellAt(ram_addr)' = CellAt(ram_addr')  BY DEF CellAt
  <2> QED  BY <2>3, <2>6, <2>7, <2>8 DEF AnswerUnderWay
<1>12. CASE ReadingZorro
  <2>1. arb = "READING_ZORRO" /\ ~ram_enable' /\ ~ram_write
    BY <1>2, <1>12 DEF ReadingZorro, At, Enable, SetPort, EnableRules
  <2>2. /\ ~HoldsWrite /\ (ram_enable => CellAt(ram_addr) = Asked)
        /\ (HoldsRead \/ state = "read_1" => SavedCell = Asked)
        /\ (3 \in data_ready_delay => iob.cmd = "READ" /\ CellNow = Asked)
        /\ (2 \in data_ready_delay => dq[1] = CtrlMem[Asked])
        /\ (1 \in data_ready_delay => dq[2] = CtrlMem[Asked])
        /\ (0 \in data_ready_delay => dq[3] = CtrlMem[Asked])
    BY <2>1 DEF AnswerUnderWay
  <2>3. SingleAccess  BY <1>2, <2>1, CountStep DEF FetchStates
  <2>4. ~in.reset  BY <1>0, <1>7 DEF ReadUnderWay, CardInv, PowerUp
  <2>5. Chip /\ ControllerState(in) /\ Latch(in)  BY <1>0 DEF SDRAMClock
  <2>6. ~HoldsWrite'  BY <1>0, <1>10, <2>1, <2>2
  <2>7. Accepts(in) => SavedCell' = Asked
    BY <1>0, <2>2, <2>5 DEF Latch, SavedCell, InCell
  <2>8. ~Accepts(in) => SavedCell' = SavedCell /\ (got_transaction' => got_transaction) /\ save' = save
    BY <1>0, <1>4, <2>4, QueueStep DEF SavedCell
  <2>9. state' = "read_1" => HoldsRead
    BY <1>0, <1>2, <1>4, <2>3, <2>4, ReadStarts
  <2>10. HoldsRead' \/ state' = "read_1" => SavedCell' = Asked
    BY <2>2, <2>7, <2>8, <2>9 DEF HoldsRead
  <2>11. /\ data_out_ready' = (0 \in data_ready_delay)
         /\ 0 \in data_ready_delay' <=> 1 \in data_ready_delay
         /\ 1 \in data_ready_delay' <=> 2 \in data_ready_delay
         /\ 2 \in data_ready_delay' <=> 3 \in data_ready_delay
         /\ 3 \in data_ready_delay' <=> Read1(in) \/ BurstRead(in)
    BY <1>4, <2>5, DelayStep
  <2>12. 3 \in data_ready_delay' => iob'.cmd = "READ" /\ CellNow' = Asked
    <3>1. ~BurstRead(in)  BY <2>3 DEF BurstRead, SingleAccess
    <3>2. Read1(in) => SavedCell = Asked  BY <2>2 DEF Read1
    <3>3. Read1(in) => iob'.cmd = "READ" /\ CellNow' = SavedCell  BY <1>0, <1>4, ReadLands
    <3> QED  BY <2>11, <3>1, <3>2, <3>3
  <2>13. 2 \in data_ready_delay' => dq'[1] = CtrlMem[Asked]
    BY <1>4, <2>2, <2>5, <2>11, ReadGives
  <2>14. dq'[2] = dq[1] /\ dq'[3] = dq[2]  BY <2>5 DEF Chip
  <2>15. data_out_ready' => data_out' = CtrlMem[Asked]
    BY <2>2, <2>5, <2>11, DataOutStep
  <2> QED
    BY <1>8, <1>9, <2>1, <2>2, <2>6, <2>10, <2>11, <2>12, <2>13, <2>14, <2>15 DEF AnswerUnderWay
<1> QED  BY <1>6, <1>11, <1>12

\* What is posted for a word of the host: a write that is on the port is the
\* one requested, which counts once.
PostedRight ==
  \A c \in HostCells :
    Posted[c] = IF zorro_ram_write_request /\ CellAt(zorro_ram_write.addr) = c
                THEN Merge(CtrlMem[c], zorro_ram_write.data, zorro_ram_write.bytes)
                ELSE CtrlMem[c]

LEMMA PostedIs ==
  CardInv /\ RangeInv /\ WriteUnderWay /\ BlitsBeside => PostedRight
<1> SUFFICES ASSUME CardInv, RangeInv, WriteUnderWay, BlitsBeside, NEW c \in HostCells
             PROVE  Posted[c] = IF zorro_ram_write_request /\ CellAt(zorro_ram_write.addr) = c
                                THEN Merge(CtrlMem[c], zorro_ram_write.data, zorro_ram_write.bytes)
                                ELSE CtrlMem[c]
  BY DEF PostedRight
<1> DEFINE port == ram_enable /\ ram_write
           here == CellAt(ram_addr)
           then == CellAt(zorro_ram_write.addr)
           m == CtrlMem
           n == Store(m, port, here, ram_data_in, ram_byte_enable)
           word == zorro_ram_write.data
           bytes == zorro_ram_write.bytes
           asks == zorro_ram_write_request
<1>1. Posted = Store(n, asks, then, word, bytes)
  BY DEF Posted, CtrlMem, HoldsWrite, SavedCell
<1>2. c \in Cells
  <2>1. PICK o \in HostOps, h \in {0, 1} : c = CellAt(o.addr + h)  BY DEF HostCells
  <2>2. o.addr + h \in Int  BY <2>1, RangesAssumption
  <2> QED  BY <2>1, <2>2, CellAtType
<1>3. /\ m \in [Cells -> Words] /\ here \in Cells /\ then \in Cells /\ ram_data_in \in Words
  <2>1. ram_addr \in Int /\ zorro_ram_write.addr \in Int /\ ram_data_in \in Words
    BY DEF CardInv, CardTyped, PortTyped, RequestsTyped
  <2> QED  BY <2>1, CellAtType, CtrlMemType DEF CardInv
<1>4. arb = "WRITING_ZORRO" =>
        asks /\ port /\ here = then /\ ram_data_in = word /\ ram_byte_enable = bytes
  BY DEF WriteUnderWay
<1>5. port /\ here = c => arb = "WRITING_ZORRO"  BY DEF BlitsBeside
<1> HIDE DEF port, here, then, m, word, bytes, asks
<1>6. n \in [Cells -> Words]  BY <1>3, StoreType
<1>7. n[c] = IF port /\ here = c THEN Merge(m[c], ram_data_in, ram_byte_enable) ELSE m[c]
  BY <1>2, <1>3, StoreAt
<1> HIDE DEF n
<1>8. Posted[c] = IF asks /\ then = c THEN Merge(n[c], word, bytes) ELSE n[c]
  BY <1>1, <1>2, <1>3, <1>6, StoreAt
<1>9. CASE port /\ here = c
  <2>1. asks /\ then = c /\ n[c] = Merge(m[c], word, bytes)  BY <1>4, <1>5, <1>7, <1>9
  <2>2. Merge(Merge(m[c], word, bytes), word, bytes) = Merge(m[c], word, bytes)
    BY DEF Merge
  <2>3. Posted[c] = Merge(m[c], word, bytes)  BY <1>8, <2>1, <2>2
  <2> QED  BY <2>1, <2>3 DEF asks, then, word, bytes, m
<1>10. CASE ~(port /\ here = c)
  <2>1. n[c] = m[c]  BY <1>7, <1>10
  <2>2. Posted[c] = IF asks /\ then = c THEN Merge(m[c], word, bytes) ELSE m[c]  BY <1>8, <2>1
  <2> QED  BY <2>2 DEF asks, then, word, bytes, m
<1> QED  BY <1>9, <1>10

\* An edge changes what is posted by the half that is requested at it.
LEMMA PostedStep ==
  ASSUME CardInv, RangeInv, StartupQuiet, InPlace, BurstOver, EnableRules, ReadyHeld, WriteUnderWay,
         BlitsBeside, Clock, CardInv', RangeInv', SpillPlace', NoPairs', WriteUnderWay', BlitsBeside',
         NEW c \in HostCells
  PROVE  Posted'[c] = IF SetsWriteRequest /\ CellAt(zorro_ram_write'.addr) = c
                      THEN Merge(Posted[c], zorro_ram_write'.data, zorro_ram_write'.bytes)
                      ELSE Posted[c]
<1>1. Requests  BY DEF Clock
<1>2. Posted[c] = IF zorro_ram_write_request /\ CellAt(zorro_ram_write.addr) = c
                  THEN Merge(CtrlMem[c], zorro_ram_write.data, zorro_ram_write.bytes)
                  ELSE CtrlMem[c]
  BY PostedIs DEF PostedRight
<1>3. Posted'[c] = IF zorro_ram_write_request' /\ CellAt(zorro_ram_write'.addr) = c
                   THEN Merge(CtrlMem'[c], zorro_ram_write'.data, zorro_ram_write'.bytes)
                   ELSE CtrlMem'[c]
  <2>1. PostedRight'
    <3>1. (CardInv /\ RangeInv /\ WriteUnderWay /\ BlitsBeside => PostedRight)'  BY PostedIs, PTL
    <3> QED  BY <3>1
  <2>2. HostCells' = HostCells  BY DEF HostCells, CellAt, Addr
  <2>3. CellAt(zorro_ram_write.addr)' = CellAt(zorro_ram_write'.addr)  BY DEF CellAt
  <2> QED  BY <2>1, <2>2, <2>3 DEF PostedRight, Merge
<1>4. CtrlMem'[c] = IF arb = "WRITING_ZORRO" /\ CellAt(zorro_ram_write.addr) = c
                    THEN Merge(CtrlMem[c], zorro_ram_write.data, zorro_ram_write.bytes)
                    ELSE CtrlMem[c]
  BY HostWordStep
<1>5. zorro_ram_write_request \in BOOLEAN  BY DEF RangeInv, HostTyped
<1>6. CASE arb = "WRITING_ZORRO"
  <2>1. zorro_ram_write_request /\ ~SetsWriteRequest /\ ~zorro_ram_write_request'
    BY <1>1, <1>6 DEF WriteUnderWay, SetsWriteRequest, Requests, ClearsWriteRequest, At
  <2> QED  BY <1>2, <1>3, <1>4, <1>6, <2>1
<1>7. CASE arb # "WRITING_ZORRO" /\ SetsWriteRequest
  <2>1. ~zorro_ram_write_request  BY <1>7 DEF SetsWriteRequest
  <2>2. zorro_ram_write_request'
    BY <1>1, <1>7 DEF Requests, ClearsWriteRequest, At
  <2> QED  BY <1>2, <1>3, <1>4, <1>7, <2>1, <2>2
<1>8. CASE arb # "WRITING_ZORRO" /\ ~SetsWriteRequest
  <2>1. zorro_ram_write' = zorro_ram_write /\ zorro_ram_write_request' = zorro_ram_write_request
    BY <1>1, <1>5, <1>8 DEF Requests, ClearsWriteRequest, At
  <2> QED  BY <1>2, <1>3, <1>4, <1>8, <2>1
<1> QED  BY <1>6, <1>7, <1>8

\* What has been read is what memory holds, as long as the host's read lasts.
HalvesRead ==
  /\ zorro = "Z3_READ_LOWER" /\ ~zorro_ram_read_request =>
       zorro_ram_read_data = CtrlMem[CellAt(Half(0))]
  /\ zorro = "Z3_READ_DELAY1" => z3_read_data = CtrlMem[CellAt(Half(0))]
  /\ zorro = "Z3_READ_DELAY1" /\ ~zorro_ram_read_request =>
       zorro_ram_read_data = CtrlMem[CellAt(Half(1))]

ReadPhases == {"Z3_READ_UPPER", "Z3_READ_LOWER", "Z3_READ_DELAY1"}

LEMMA HalvesStay ==
  ASSUME ~ResetAllowed, CardInv, RangeInv, PortInv, InPlace, HostPhases, WriteUnderWay, BlitsBeside,
         Clock, CardInv', SpillPlace', NoPairs', zorro \in ReadPhases, NEW h \in {0, 1}
  PROVE  /\ CellAt(Half(h)) \in HostCells /\ CellAt(Half(h)') = CellAt(Half(h))
         /\ CtrlMem'[CellAt(Half(h))] = CtrlMem[CellAt(Half(h))]
<1>1. bus' = bus  BY AccessKept DEF PortInv, ReadPhases, BusyStates
<1>2. bus.op \in HostOps  BY DEF RangeInv, HostTyped
<1>3. CellAt(Half(h)) \in HostCells  BY <1>2 DEF HostCells, Half
<1>4. CellAt(Half(h)') = CellAt(Half(h))  BY <1>1 DEF Half
<1>5. arb # "WRITING_ZORRO"  BY DEF WriteUnderWay, ReadPhases
<1>6. CtrlMem'[CellAt(Half(h))] = CtrlMem[CellAt(Half(h))]
  BY <1>3, <1>5, HostWordStep DEF PortInv
<1> QED  BY <1>3, <1>4, <1>6

LEMMA HalvesReadStep ==
  ASSUME ~ResetAllowed, CardInv, RangeInv, PortInv, InPlace, HostPhases, WriteUnderWay, ReadUnderWay,
         AnswerUnderWay, HalvesRead, BlitsBeside, Clock, CardInv', SpillPlace', NoPairs'
  PROVE  HalvesRead'
<1>1. ~znrst /\ ZorroStep  BY AccessKept DEF PortInv
<1>2. Requests  BY DEF Clock
<1>3. zorro_ram_read_request \in BOOLEAN  BY DEF RangeInv, HostTyped
<1>0. bus.op.kind \in {"read", "write", "reg"}
  BY DEF CardInv, CardTyped, RequestsTyped, HostRecords
<1>4. zorro' \in {"Z3_READ_LOWER", "Z3_READ_DELAY1"} => ReadUpper \/ ReadLower \/ ReadDelay1
  BY <1>0, <1>1 DEF ZorroStep, ZAt, ZTo, Forced, Cold, EnterReset, InReset, Configuring, Configured,
     ConfiguredClear, EnterResetDvid, ResetDvid, Z3Idle, FirstState, ReadDelay2, WritePre,
     WriteUpper, WriteLower, WriteFinalize, EndCycle, RegWrite
<1>5. ReadAnswered => zorro_ram_read_request /\ zorro_ram_read_data' = CtrlMem[Asked]
  BY <1>2 DEF ReadAnswered, At, ReadUnderWay, AnswerUnderWay, Requests
<1>6. zorro_ram_read_request /\ ~zorro_ram_read_request' => ReadAnswered
  BY <1>2 DEF Requests
<1>7. SetsReadRequest => zorro_ram_read_request'
  BY <1>2, <1>5 DEF Requests, SetsReadRequest
<1>8. CASE zorro' = "Z3_READ_LOWER"
  <2>1. CASE ReadUpper
    <3>1. SetsReadRequest  BY <2>1 DEF ReadUpper, ZAt, SetsReadRequest, ReadUnderWay
    <3> QED  BY <1>7, <1>8, <3>1 DEF HalvesRead
  <2>2. CASE ReadLower
    <3>1. zorro = "Z3_READ_LOWER" /\ zorro_ram_read_request
      BY <1>8, <2>2 DEF ReadLower, ZAt, ZTo
    <3>2. Asked = CellAt(Half(0))  BY <3>1 DEF ReadUnderWay, Asked
    <3>3. /\ CellAt(Half(0)') = CellAt(Half(0))
          /\ CtrlMem'[CellAt(Half(0))] = CtrlMem[CellAt(Half(0))]
      BY <3>1, HalvesStay DEF ReadPhases
    <3> QED  BY <1>5, <1>6, <1>8, <3>1, <3>2, <3>3 DEF HalvesRead
  <2>3. ~ReadDelay1  BY <1>8 DEF ReadDelay1, ZAt, ZTo
  <2> QED  BY <1>4, <1>8, <2>1, <2>2, <2>3
<1>9. CASE zorro' = "Z3_READ_DELAY1"
  <2>1. CASE ReadLower
    <3>1. /\ zorro = "Z3_READ_LOWER" /\ ~zorro_ram_read_request /\ SetsReadRequest
          /\ z3_read_data' = zorro_ram_read_data
      BY <1>9, <2>1 DEF ReadLower, ZAt, SetsReadRequest
    <3>2. /\ CellAt(Half(0)') = CellAt(Half(0))
          /\ CtrlMem'[CellAt(Half(0))] = CtrlMem[CellAt(Half(0))]
      BY <3>1, HalvesStay DEF ReadPhases
    <3> QED  BY <1>7, <1>9, <3>1, <3>2 DEF HalvesRead
  <2>2. CASE ReadDelay1
    <3>1. /\ zorro = "Z3_READ_DELAY1" /\ zorro_ram_read_request
          /\ z3_read_data' = z3_read_data
      BY <1>9, <2>2 DEF ReadDelay1, ZAt, ZTo
    <3>2. Asked = CellAt(Half(1))  BY <3>1 DEF ReadUnderWay, Asked
    <3>3. /\ CellAt(Half(0)') = CellAt(Half(0))
          /\ CtrlMem'[CellAt(Half(0))] = CtrlMem[CellAt(Half(0))]
      BY <3>1, HalvesStay DEF ReadPhases
    <3>4. /\ CellAt(Half(1)') = CellAt(Half(1))
          /\ CtrlMem'[CellAt(Half(1))] = CtrlMem[CellAt(Half(1))]
      BY <3>1, HalvesStay DEF ReadPhases
    <3> QED  BY <1>5, <1>6, <1>9, <3>1, <3>2, <3>3, <3>4 DEF HalvesRead
  <2>3. ~ReadUpper  BY <1>9 DEF ReadUpper, ZAt
  <2> QED  BY <1>4, <1>9, <2>1, <2>2, <2>3
<1>10. CASE zorro' \notin {"Z3_READ_LOWER", "Z3_READ_DELAY1"}
  BY <1>10 DEF HalvesRead
<1> QED  BY <1>8, <1>9, <1>10

-----------------------------------------------------------------------------
(* The invariant, and the steps of HostMemory.                             *)
HostInv ==
  /\ InPlace /\ SpillPlace /\ NoPairs /\ HostPhases
  /\ WriteUnderWay /\ ReadUnderWay /\ AnswerUnderWay /\ HalvesRead

LEMMA HostStarts == CardInit => HostInv
<1> SUFFICES ASSUME CardInit PROVE HostInv  OBVIOUS
<1>1. ArbiterInit /\ SDRAMInit  BY DEF CardInit
<1>2. burst_old # 1 /\ ram_burst_size # 1
  BY <1>1 DEF ArbiterInit, SDRAMInit, ControllerInit
<1>3. InPlace /\ SpillPlace
  BY <1>1 DEF ArbiterInit, SDRAMInit, ControllerInit, ChipInit, InPlace, SpillPlace, Spills, Idle
<1>4. NoPairs  BY <1>1, <1>2 DEF ArbiterInit, NoPairs
<1>5. HostPhases /\ HalvesRead  BY DEF CardInit, HostPhases, HalvesRead, WritePhases, BusyStates
<1>6. WriteUnderWay /\ ReadUnderWay /\ AnswerUnderWay
  BY <1>1 DEF ArbiterInit, WriteUnderWay, ReadUnderWay, AnswerUnderWay
<1> QED  BY <1>3, <1>4, <1>5, <1>6 DEF HostInv

LEMMA HostStays ==
  ASSUME HostInv, UNCHANGED cardVars
  PROVE  HostInv'
<1>1. UNCHANGED <<ctrlVars, chipVars, arb, portVars, bus, zorro, z3_ds, z3_read_data, dtack,
                  requestVars, videocap_mode>>
  BY DEF cardVars, sdramVars, inputVars, zorroVars
<1>2. InPlace' /\ SpillPlace' /\ NoPairs'
  BY <1>1 DEF HostInv, ctrlVars, chipVars, portVars, InPlace, SpillPlace, NoPairs, Spills, HoldsWrite,
     ModeAfter
<1>3. HostPhases' /\ WriteUnderWay' /\ ReadUnderWay'
  BY <1>1 DEF HostInv, ctrlVars, portVars, requestVars, HostPhases, WriteUnderWay, ReadUnderWay, Half
<1>4. CtrlMem' = CtrlMem
  BY <1>1 DEF ctrlVars, chipVars, CtrlMem, Store, MemNow, WritesNow, BankNow, CellNow, ColNow,
     HoldsWrite, SavedCell
<1>5. HalvesRead'
  BY <1>1, <1>4 DEF HostInv, requestVars, HalvesRead, Half, CellAt, Addr
<1>6. AnswerUnderWay'
  <2>1. Asked' = Asked /\ SavedCell' = SavedCell /\ CellNow' = CellNow
    BY <1>1 DEF requestVars, ctrlVars, chipVars, Asked, CellAt, Addr, SavedCell, CellNow, BankNow,
       ColNow
  <2>2. HoldsWrite' = HoldsWrite /\ HoldsRead' = HoldsRead
    BY <1>1 DEF ctrlVars, HoldsWrite, HoldsRead
  <2>3. CellAt(ram_addr)' = CellAt(ram_addr)  BY <1>1 DEF portVars, CellAt, Addr
  <2> QED  BY <1>1, <1>4, <2>1, <2>2, <2>3 DEF HostInv, ctrlVars, chipVars, portVars, AnswerUnderWay
<1> QED  BY <1>2, <1>3, <1>5, <1>6 DEF HostInv

LEMMA HostStep ==
  ASSUME ~ResetAllowed, NoCapture, CardInv, RangeInv, PortInv, HostInv, WritesWait, BlitsBeside,
         Clock, CardInv', RangeInv'
  PROVE  HostInv' /\ ~WritesCapture
<1> DEFINE in == Port(sdram_reset)
<1>0. /\ SDRAMClock(in) /\ in \in ClientInputs  BY EdgeFacts
<1>1. QuietReset(in)  BY DEF QuietReset, Port, CardInv, PowerUp, Settled
<1>2. /\ StartupQuiet /\ BlitOwned /\ EnableRules /\ OffersClaimed /\ ReadyHeld /\ BurstOver
  BY DEF PortInv
<1>3. PageHasNoWrites(in)  BY <1>2, PageIsFetched
<1>4. /\ InPlace /\ SpillPlace /\ NoPairs /\ HostPhases
      /\ WriteUnderWay /\ ReadUnderWay /\ AnswerUnderWay /\ HalvesRead
  BY DEF HostInv
<1> HIDE DEF in
<1>5. SafeInv /\ BusTurned  BY DEF CardInv
<1>6. InPlace'  BY <1>0, <1>1, <1>2, <1>3, <1>4, <1>5, InPlaceStep
<1>7. SpillPlace'  BY <1>0, <1>1, <1>4, <1>5, SpillPlaceStep
<1>8. NoPairs' /\ ~WritesCapture  BY <1>4, NoPairsStep
<1>9. HostPhases'  BY <1>2, <1>4, HostPhasesStep
<1>10. WriteUnderWay'  BY <1>2, <1>4, WriteUnderWayStep
<1>11. ReadUnderWay'  BY <1>2, <1>4, ReadUnderWayStep
<1>12. AnswerUnderWay'  BY <1>4, <1>7, <1>8, AnswerUnderWayStep
<1>13. HalvesRead'  BY <1>4, <1>7, <1>8, HalvesReadStep
<1> QED  BY <1>6, <1>7, <1>8, <1>9, <1>10, <1>11, <1>12, <1>13 DEF HostInv

-----------------------------------------------------------------------------
(* The steps of HostMemory, each of which an edge takes or stutters.       *)
Contents == [c \in HostCells |-> Posted[c]]

\* An edge between two states of the invariant.
HostEdge ==
  /\ Clock
  /\ CardInv /\ RangeInv /\ PortInv /\ HostInv /\ BlitsBeside
  /\ CardInv' /\ RangeInv' /\ HostInv' /\ BlitsBeside'

\* What every edge gives the steps.
LEMMA EdgeOfHost ==
  ASSUME ~ResetAllowed, HostEdge
  PROVE  /\ ~znrst /\ ZorroStep /\ Requests
         /\ bus \in [active : BOOLEAN, op : HostRecords] /\ bus.op \in HostOps /\ bus'.op \in HostOps
         /\ bus.op.kind \in {"read", "write", "reg"} /\ zorro \in ZorroStates
         /\ zorro \in BusyStates \cup DoneStates => bus'.op = bus.op
         /\ zorro = "Z3_IDLE" /\ bus.active => bus' = bus
<1>1. /\ CardInv /\ RangeInv /\ BlitOwned /\ HostPhases /\ Clock
  BY DEF HostEdge, PortInv, HostInv
<1>2. /\ ~znrst /\ ZorroStep /\ Requests
      /\ zorro \in BusyStates \cup {"Z3_READ_DELAY2"} => bus' = bus
      /\ zorro = "Z3_IDLE" /\ bus.active => bus' = bus
      /\ dtack => bus'.op = bus.op
      /\ bus'.op = bus.op \/ (~bus.active /\ bus'.op \in HostOps)
  BY <1>1, AccessKept DEF Clock
<1>3. /\ bus \in [active : BOOLEAN, op : HostRecords] /\ bus.op \in HostOps
      /\ zorro \in ZorroStates /\ bus.op.kind \in {"read", "write", "reg"}
  BY <1>1 DEF CardInv, CardTyped, RequestsTyped, HostRecords, RangeInv, HostTyped
<1>4. bus'.op \in HostOps  BY <1>2, <1>3
<1>5. zorro = "Z3_ENDCYCLE" => bus'.op = bus.op
  BY <1>1, <1>2, <1>3 DEF HostPhases
<1> QED  BY <1>2, <1>3, <1>4, <1>5 DEF DoneStates

LEMMA ContentsStand ==
  ASSUME HostEdge, ~SetsWriteRequest
  PROVE  Contents' = Contents
<1>1. ASSUME NEW c \in HostCells  PROVE Posted'[c] = Posted[c]
  BY <1>1, PostedStep DEF HostEdge, PortInv, HostInv
<1>2. HostCells' = HostCells  BY DEF HostCells, CellAt, Addr
<1> QED  BY <1>1, <1>2 DEF Contents

LEMMA ContentsTake ==
  ASSUME ~ResetAllowed, HostEdge, SetsWriteRequest, NEW h \in {0, 1},
         zorro = (IF h = 0 THEN "Z3_WRITE_UPPER" ELSE "Z3_WRITE_LOWER")
  PROVE  Contents' = [Contents EXCEPT ![CellAt(Half(h))] =
                        Merge(@, bus.op.data[h], bus.op.strobes[h])]
<1>1. Requests /\ z3_ds = bus.op.strobes
  BY EdgeOfHost DEF HostEdge, HostInv, HostPhases, WritePhases
<1>2. zorro_ram_write' = [addr |-> Half(h), bytes |-> bus.op.strobes[h], data |-> bus.op.data[h]]
  BY <1>1 DEF Requests
<1>3. /\ zorro_ram_write'.addr = Half(h) /\ zorro_ram_write'.bytes = bus.op.strobes[h]
      /\ zorro_ram_write'.data = bus.op.data[h]
  BY <1>2
<1>4. ASSUME NEW c \in HostCells
      PROVE  Posted'[c] = IF CellAt(Half(h)) = c
                          THEN Merge(Posted[c], bus.op.data[h], bus.op.strobes[h])
                          ELSE Posted[c]
  BY <1>3, <1>4, PostedStep DEF HostEdge, PortInv, HostInv
<1>5. HostCells' = HostCells  BY DEF HostCells, CellAt, Addr
<1> DEFINE here == CellAt(Half(h))
           word == bus.op.data[h]
           bytes == bus.op.strobes[h]
<1> HIDE DEF here, word, bytes
<1>6. \A c \in HostCells :
        Posted'[c] = IF here = c THEN Merge(Posted[c], word, bytes) ELSE Posted[c]
  BY <1>4 DEF here, word, bytes
<1>7. Contents' = [Contents EXCEPT ![here] = Merge(@, word, bytes)]
  BY <1>5, <1>6 DEF Contents
<1> QED  BY <1>7 DEF here, word, bytes

\* The cells of the access on the bus.
LEMMA CellsOfAccess ==
  ASSUME bus.op \in HostOps
  PROVE  /\ Memory!Cell(bus.op, 0) = CellAt(Half(0)) /\ Memory!Cell(bus.op, 1) = CellAt(Half(1))
         /\ CellAt(Half(0)) \in HostCells /\ CellAt(Half(1)) \in HostCells
         /\ [a \in {o.addr : o \in HostOps} |-> CellAt(a)][bus.op.addr] = CellAt(Half(0))
         /\ [a \in {o.addr : o \in HostOps} |-> CellAt(a + 1)][bus.op.addr] = CellAt(Half(1))
<1>1. bus.op.addr + 0 = bus.op.addr  BY RangesAssumption
<1>2. bus.op.addr \in {o.addr : o \in HostOps}  OBVIOUS
<1>3. CellAt(Half(0)) = CellAt(bus.op.addr) /\ CellAt(Half(1)) = CellAt(bus.op.addr + 1)
  BY <1>1 DEF Half
<1>4. CellAt(Half(0)) \in HostCells /\ CellAt(Half(1)) \in HostCells
  BY DEF HostCells, Half
<1> QED  BY <1>2, <1>3, <1>4 DEF Memory!Cell

LEMMA IdleEdge ==
  ASSUME ~ResetAllowed, HostEdge, zorro \notin BusyStates \cup DoneStates
  PROVE  Memory!HostNext
<1>1. /\ ~znrst /\ ZorroStep /\ bus.op \in HostOps /\ bus'.op \in HostOps
      /\ bus.op.kind \in {"read", "write", "reg"}
      /\ zorro = "Z3_IDLE" /\ bus.active => bus' = bus
  BY EdgeOfHost
<1>2. Contents' = Contents
  <2>1. ~SetsWriteRequest  BY DEF SetsWriteRequest, ZAt, BusyStates
  <2> QED  BY <2>1, ContentsStand
<1>3. HalvesLeft = {}  BY DEF HalvesLeft, BusyStates
<1>4. CASE Z3Idle /\ bus.active
  <2>1. /\ zorro = "Z3_IDLE" /\ zorro' = FirstState[bus.op.kind] /\ data_z3' = data_z3
        /\ bus'.op = bus.op
    BY <1>1, <1>4 DEF Z3Idle, ZAt, ZTo, KeepData
  <2>2. zorro' \in BusyStates  BY <1>1, <2>1 DEF FirstState, BusyStates
  <2>3. HalvesLeft' = Memory!Strobed(bus.op)
    <3>1. CASE bus.op.kind = "write"
      BY <2>1, <3>1 DEF FirstState, HalvesLeft, Memory!Strobed
    <3>2. CASE bus.op.kind \in {"read", "reg"}
      BY <2>1, <3>2 DEF FirstState, HalvesLeft, Memory!Strobed
    <3> QED  BY <1>1, <3>1, <3>2
  <2>4. Memory!Begin
    BY <1>2, <2>1, <2>2, <2>3 DEF Memory!Begin, Contents
  <2> QED  BY <2>4 DEF Memory!HostNext
<1>5. CASE ~(Z3Idle /\ bus.active)
  <2>1. zorro' \notin BusyStates \cup DoneStates /\ data_z3' = data_z3
    BY <1>1, <1>5 DEF BusyStates, DoneStates, ZorroStep, ZAt, ZTo, KeepData, Forced, Cold, EnterReset,
       InReset, Configuring, Configured, ConfiguredClear, EnterResetDvid, ResetDvid, Z3Idle,
       ReadUpper, ReadLower, ReadDelay1, ReadDelay2, WritePre, WriteUpper, WriteLower,
       WriteFinalize, EndCycle, RegWrite
  <2>2. HalvesLeft' = {}  BY <2>1 DEF HalvesLeft, BusyStates
  <2>3. Memory!Ask
    BY <1>1, <1>2, <1>3, <2>1, <2>2 DEF Memory!Ask, Contents
  <2> QED  BY <2>3 DEF Memory!HostNext
<1> QED  BY <1>4, <1>5

\* The read: its last state hands over the two words.
LEMMA ReadEdge ==
  ASSUME ~ResetAllowed, HostEdge, zorro \in ReadPhases
  PROVE  [Memory!HostNext]_(Memory!hostVars)
<1>1. /\ ~znrst /\ ZorroStep /\ bus.op \in HostOps /\ bus'.op = bus.op
  BY EdgeOfHost DEF ReadPhases, BusyStates
<1>2. bus.op.kind = "read"  BY DEF HostEdge, HostInv, HostPhases, ReadPhases
<1>3. Contents' = Contents
  <2>1. ~SetsWriteRequest  BY DEF SetsWriteRequest, ZAt, ReadPhases
  <2> QED  BY <2>1, ContentsStand
<1>4. zorro \in BusyStates /\ zorro \notin DoneStates /\ HalvesLeft = {}
  BY DEF HalvesLeft, ReadPhases, BusyStates, DoneStates
<1>5. ReadUpper \/ ReadLower \/ ReadDelay1
  BY <1>1 DEF ReadPhases, ZorroStep, ZAt, Forced, Cold, EnterReset, InReset, Configuring, Configured,
     ConfiguredClear, EnterResetDvid, ResetDvid, Z3Idle, ReadDelay2, WritePre, WriteUpper,
     WriteLower, WriteFinalize, EndCycle, RegWrite
<1>6. CASE zorro = "Z3_READ_DELAY1" /\ ~zorro_ram_read_request
  <2>1. zorro' = "Z3_READ_DELAY2" /\ data_z3' = <<z3_read_data, zorro_ram_read_data>>
    BY <1>5, <1>6 DEF ReadUpper, ReadLower, ReadDelay1, ZAt, ZTo
  <2>2. /\ z3_read_data = CtrlMem[CellAt(Half(0))]
        /\ zorro_ram_read_data = CtrlMem[CellAt(Half(1))]
    BY <1>6 DEF HostEdge, HostInv, HalvesRead
  <2>3. PostedRight /\ ~zorro_ram_write_request
    BY <1>6, PostedIs DEF HostEdge, HostInv, WriteUnderWay
  <2>4. /\ CellAt(Half(0)) \in HostCells /\ CellAt(Half(1)) \in HostCells
        /\ [a \in {o.addr : o \in HostOps} |-> CellAt(a)][bus.op.addr] = CellAt(Half(0))
        /\ [a \in {o.addr : o \in HostOps} |-> CellAt(a + 1)][bus.op.addr] = CellAt(Half(1))
    BY <1>1, CellsOfAccess
  <2> DEFINE first == CellAt(Half(0))
             second == CellAt(Half(1))
  <2> HIDE DEF first, second
  <2>5. first \in HostCells /\ second \in HostCells  BY <2>4 DEF first, second
  <2>6. Contents[first] = CtrlMem[first] /\ Contents[second] = CtrlMem[second]
    BY <2>3, <2>5 DEF Contents, PostedRight
  <2>7. z3_read_data = Contents[CellAt(Half(0))] /\ zorro_ram_read_data = Contents[CellAt(Half(1))]
    BY <2>2, <2>6 DEF first, second
  <2>8. data_z3' = <<Contents[[a \in {o.addr : o \in HostOps} |-> CellAt(a)][bus.op.addr]],
                     Contents[[a \in {o.addr : o \in HostOps} |-> CellAt(a + 1)][bus.op.addr]]>>
    BY <2>1, <2>4, <2>7
  <2>9. HalvesLeft' = {}  BY <2>1 DEF HalvesLeft
  <2>10. zorro' \in DoneStates /\ zorro' \notin BusyStates  BY <2>1 DEF DoneStates, BusyStates
  <2>11. Memory!Finish
    BY <1>1, <1>2, <1>3, <1>4, <2>8, <2>9, <2>10 DEF Memory!Finish, Contents
  <2> QED  BY <2>11 DEF Memory!HostNext
<1>7. CASE ~(zorro = "Z3_READ_DELAY1" /\ ~zorro_ram_read_request)
  <2>1. zorro' \in ReadPhases /\ data_z3' = data_z3
    BY <1>5, <1>7 DEF ReadUpper, ReadLower, ReadDelay1, ZAt, ZTo, KeepData, ReadPhases
  <2>2. HalvesLeft' = {} /\ zorro' \in BusyStates
    BY <2>1 DEF HalvesLeft, ReadPhases, BusyStates
  <2>3. UNCHANGED Memory!hostVars
    BY <1>1, <1>3, <1>4, <2>1, <2>2 DEF Memory!hostVars, Contents
  <2> QED  BY <2>3
<1> QED  BY <1>6, <1>7

\* The write: each half that carries a strobe is stored as it is requested.
LEMMA WriteEdge ==
  ASSUME ~ResetAllowed, HostEdge, zorro \in WritePhases \cup {"Z3_WRITE_PRE"}
  PROVE  [Memory!HostNext]_(Memory!hostVars)
<1>1. /\ ~znrst /\ ZorroStep /\ bus.op \in HostOps /\ bus'.op = bus.op
  BY EdgeOfHost DEF WritePhases, BusyStates
<1>2. bus.op.kind = "write" /\ (zorro \in WritePhases => z3_ds = bus.op.strobes)
  BY DEF HostEdge, HostInv, HostPhases
<1>3. zorro \in BusyStates /\ zorro \notin DoneStates
  BY DEF WritePhases, BusyStates, DoneStates
<1>4. WritePre \/ WriteUpper \/ WriteLower \/ WriteFinalize
  BY <1>1 DEF WritePhases, ZorroStep, ZAt, Forced, Cold, EnterReset, InReset, Configuring, Configured,
     ConfiguredClear, EnterResetDvid, ResetDvid, Z3Idle, ReadUpper, ReadLower, ReadDelay1,
     ReadDelay2, EndCycle, RegWrite
<1>5. data_z3' = data_z3  BY <1>4 DEF WritePre, WriteUpper, WriteLower, WriteFinalize, KeepData
<1>6. CASE SetsWriteRequest
  <2>1. PICK h \in {0, 1} : /\ zorro = (IF h = 0 THEN "Z3_WRITE_UPPER" ELSE "Z3_WRITE_LOWER")
                            /\ z3_ds[h] # {} /\ ~zorro_ram_write_request
    BY <1>6 DEF SetsWriteRequest, ZAt
  <2>2. bus.op.strobes[h] # {}  BY <1>2, <2>1 DEF WritePhases
  <2>3. zorro' = IF h = 0 THEN "Z3_WRITE_LOWER" ELSE "Z3_WRITE_FINALIZE"
    BY <1>4, <2>1 DEF WritePre, WriteUpper, WriteLower, WriteFinalize, ZAt, PassesHalf
  <2>4. zorro' \in BusyStates  BY <2>3 DEF BusyStates
  <2>5. h \in HalvesLeft /\ HalvesLeft' = HalvesLeft \ {h}
    BY <1>1, <2>1, <2>2, <2>3 DEF HalvesLeft
  <2>6. Contents' = [Contents EXCEPT ![CellAt(Half(h))] =
                       Merge(@, bus.op.data[h], bus.op.strobes[h])]
    BY <1>6, <2>1, ContentsTake
  <2>7. Memory!Cell(bus.op, h) = CellAt(Half(h))  BY <1>1, CellsOfAccess
  <2>8. Memory!Store(h)
    BY <1>1, <1>3, <1>5, <2>4, <2>5, <2>6, <2>7 DEF Memory!Store, Contents, Merge
  <2> QED  BY <2>8 DEF Memory!HostNext
<1>7. CASE ~SetsWriteRequest
  <2>1. Contents' = Contents  BY <1>7, ContentsStand
  <2>2. HalvesLeft' = HalvesLeft
    BY <1>1, <1>2, <1>4, <1>7 DEF HalvesLeft, WritePre, WriteUpper, WriteLower, WriteFinalize, ZAt, ZTo,
       PassesHalf, SetsWriteRequest, WritePhases
  <2>3. CASE zorro' = "Z3_ENDCYCLE"
    <3>1. zorro = "Z3_WRITE_FINALIZE"
      BY <1>4, <2>3 DEF WritePre, WriteUpper, WriteLower, WriteFinalize, ZAt, ZTo
    <3>2. HalvesLeft = {}  BY <3>1 DEF HalvesLeft
    <3>3. zorro' \in DoneStates /\ zorro' \notin BusyStates  BY <2>3 DEF DoneStates, BusyStates
    <3>4. Memory!Finish
      BY <1>1, <1>2, <1>3, <1>5, <2>1, <2>2, <3>2, <3>3 DEF Memory!Finish, Contents
    <3> QED  BY <3>4 DEF Memory!HostNext
  <2>4. CASE zorro' # "Z3_ENDCYCLE"
    <3>1. zorro' \in BusyStates
      BY <1>4, <2>4 DEF WritePre, WriteUpper, WriteLower, WriteFinalize, ZAt, ZTo, BusyStates
    <3>2. UNCHANGED Memory!hostVars
      BY <1>1, <1>3, <1>5, <2>1, <2>2, <3>1 DEF Memory!hostVars, Contents
    <3> QED  BY <3>2
  <2> QED  BY <2>3, <2>4
<1> QED  BY <1>6, <1>7

\* The end of an access, and an access to a register.
LEMMA OtherEdge ==
  ASSUME ~ResetAllowed, HostEdge, zorro \in DoneStates \cup {"Z3_REGWRITE", "REGWRITE"}
  PROVE  [Memory!HostNext]_(Memory!hostVars)
<1>1. /\ ~znrst /\ ZorroStep /\ bus'.op = bus.op
  BY EdgeOfHost DEF BusyStates
<1>2. zorro \in {"Z3_REGWRITE", "REGWRITE"} => bus.op.kind = "reg"
  BY DEF HostEdge, HostInv, HostPhases
<1>3. Contents' = Contents
  <2>1. ~SetsWriteRequest  BY DEF SetsWriteRequest, ZAt, DoneStates
  <2> QED  BY <2>1, ContentsStand
<1>4. ReadDelay2 \/ EndCycle \/ RegWrite
  BY <1>1 DEF DoneStates, ZorroStep, ZAt, Forced, Cold, EnterReset, InReset, Configuring, Configured,
     ConfiguredClear, EnterResetDvid, ResetDvid, Z3Idle, ReadUpper, ReadLower, ReadDelay1,
     WritePre, WriteUpper, WriteLower, WriteFinalize
<1>5. data_z3' = data_z3  BY <1>4 DEF ReadDelay2, EndCycle, RegWrite, KeepData
<1>6. HalvesLeft = {}  BY DEF HalvesLeft, DoneStates
<1>7. CASE zorro \in DoneStates /\ zorro' \in DoneStates
  <2>1. HalvesLeft' = {}  BY <1>7 DEF HalvesLeft, DoneStates
  <2>2. zorro \notin BusyStates /\ zorro' \notin BusyStates  BY <1>7 DEF DoneStates, BusyStates
  <2>3. UNCHANGED Memory!hostVars
    BY <1>1, <1>3, <1>5, <1>6, <1>7, <2>1, <2>2 DEF Memory!hostVars, Contents
  <2> QED  BY <2>3
<1>8. CASE zorro' = "Z3_IDLE"
  <2>1. zorro \in DoneStates /\ zorro \notin BusyStates
    BY <1>4, <1>8 DEF ReadDelay2, EndCycle, RegWrite, ZAt, ZTo, DoneStates, BusyStates
  <2>2. zorro' \notin BusyStates \cup DoneStates /\ HalvesLeft' = {}
    BY <1>8 DEF HalvesLeft, DoneStates, BusyStates
  <2>3. Memory!Release
    BY <1>1, <1>3, <1>5, <1>6, <2>1, <2>2 DEF Memory!Release, Contents
  <2> QED  BY <2>3 DEF Memory!HostNext
<1>9. CASE zorro = "REGWRITE"
  <2>1. zorro' = "Z3_ENDCYCLE"  BY <1>4, <1>9 DEF ReadDelay2, EndCycle, RegWrite, ZAt
  <2>2. /\ zorro \in BusyStates /\ zorro' \in DoneStates /\ zorro' \notin BusyStates
        /\ HalvesLeft' = {}
    BY <1>9, <2>1 DEF HalvesLeft, DoneStates, BusyStates
  <2>3. Memory!Finish
    BY <1>1, <1>2, <1>3, <1>5, <1>6, <1>9, <2>2 DEF Memory!Finish, Contents
  <2> QED  BY <2>3 DEF Memory!HostNext
<1>10. CASE zorro = "Z3_REGWRITE"
  <2>1. zorro' = "REGWRITE"  BY <1>4, <1>10 DEF ReadDelay2, EndCycle, RegWrite, ZAt
  <2>2. zorro \in BusyStates /\ zorro' \in BusyStates /\ HalvesLeft' = {}
    BY <1>10, <2>1 DEF HalvesLeft, BusyStates
  <2>3. UNCHANGED Memory!hostVars
    BY <1>1, <1>3, <1>5, <1>6, <2>2 DEF Memory!hostVars, Contents
  <2> QED  BY <2>3
<1>11. zorro \in DoneStates => zorro' \in DoneStates \/ zorro' = "Z3_IDLE"
  BY <1>4 DEF ReadDelay2, EndCycle, RegWrite, ZAt, ZTo, DoneStates
<1> QED  BY <1>7, <1>8, <1>9, <1>10, <1>11

LEMMA HostMoves ==
  ASSUME ~ResetAllowed, HostEdge
  PROVE  [Memory!HostNext]_(Memory!hostVars)
<1>1. \/ zorro \notin BusyStates \cup DoneStates
      \/ zorro \in ReadPhases
      \/ zorro \in WritePhases \cup {"Z3_WRITE_PRE"}
      \/ zorro \in DoneStates \cup {"Z3_REGWRITE", "REGWRITE"}
  BY DEF BusyStates, ReadPhases, WritePhases
<1> QED  BY <1>1, IdleEdge, ReadEdge, WriteEdge, OtherEdge

LEMMA HostRests ==
  ASSUME UNCHANGED cardVars
  PROVE  UNCHANGED Memory!hostVars
<1>1. UNCHANGED <<ctrlVars, chipVars, portVars, requestVars, bus, zorro, data_z3>>
  BY DEF cardVars, sdramVars, zorroVars
<1>2. Posted' = Posted
  BY <1>1 DEF Posted, Store, MemNow, WritesNow, BankNow, CellNow, ColNow, CellAt, Addr, ctrlVars,
     chipVars, portVars, requestVars
<1>3. HostCells' = HostCells  BY DEF HostCells, CellAt, Addr
<1>4. Contents' = Contents  BY <1>2, <1>3 DEF Contents
<1>5. HalvesLeft' = HalvesLeft  BY <1>1 DEF HalvesLeft
<1> QED  BY <1>1, <1>4, <1>5 DEF Memory!hostVars, Contents

LEMMA HostBegins == CardInit => Memory!HostInit
<1> SUFFICES ASSUME CardInit PROVE Memory!HostInit  OBVIOUS
<1>1. /\ ArbiterInit /\ SDRAMInit /\ zorro = "COLD" /\ data_z3 = <<AnyWord, AnyWord>>
      /\ bus.op \in HostOps
  BY DEF CardInit
<1>2. Posted = InitMem
  <2>1. MemNow = InitMem
    BY <1>1 DEF SDRAMInit, ControllerInit, ChipInit, MemNow, WritesNow, Idle
  <2>2. ~got_transaction /\ state # "write_1" /\ ~ram_enable /\ ~zorro_ram_write_request
    BY <1>1 DEF SDRAMInit, ControllerInit, ArbiterInit
  <2> QED  BY <2>1, <2>2 DEF Posted, Store
<1>3. HalvesLeft = {} /\ zorro \notin BusyStates \cup DoneStates
  BY <1>1 DEF HalvesLeft, BusyStates, DoneStates
<1> QED  BY <1>1, <1>2, <1>3 DEF Memory!HostInit

(* The host sees a plain memory: whatever line fetches, refreshes and      *)
(* blits fall between its accesses, a half that it writes is stored once,  *)
(* under its strobes, in its cell and before the access ends, a read is    *)
(* answered with the words of its two cells, and no word of the host       *)
(* changes by anything else.  Nothing is captured, the host waits for the  *)
(* blitter before it writes, and the blitter draws beside the words in     *)
(* question: while a fill or a capture leaves cmd_enable up between two    *)
(* grants, the arbiter clears the request of a half it never put on the    *)
(* port.                                                                   *)
THEOREM PlainMemory ==
  ASSUME ~ResetAllowed, margin_x = 0, FETCHW > 1, BLITTER_COPY_SIZE > 0, LinesInRows, WaitsSuffice,
         NoCapture
  PROVE  CardSpec /\ []WritesWait /\ []BlitsBeside => HostSeesMemory
<1>1. /\ CardInv /\ RangeInv /\ PortInv /\ HostInv
      /\ WritesWait /\ BlitsBeside /\ BlitsBeside' /\ [Clock]_cardVars
      => /\ CardInv' /\ RangeInv' /\ PortInv' /\ HostInv'
         /\ [Memory!HostNext]_(Memory!hostVars)
  <2> SUFFICES ASSUME CardInv, RangeInv, PortInv, HostInv, WritesWait, BlitsBeside, BlitsBeside',
                      [Clock]_cardVars
               PROVE  /\ CardInv' /\ RangeInv' /\ PortInv' /\ HostInv'
                      /\ [Memory!HostNext]_(Memory!hostVars)
    OBVIOUS
  <2>1. CardInv' /\ RangeInv'  BY CardStep, RangesStep
  <2>2. CASE UNCHANGED cardVars
    BY <2>1, <2>2, PortKept, HostStays, HostRests
  <2>3. CASE Clock
    <3>1. HostInv' /\ ~WritesCapture  BY <2>1, <2>3, HostStep
    <3>2. PortInv'  BY <2>1, <2>3, <3>1, PortStep
    <3>3. HostEdge  BY <2>1, <2>3, <3>1 DEF HostEdge
    <3> QED  BY <2>1, <3>1, <3>2, <3>3, HostMoves
  <2> QED  BY <2>2, <2>3
<1>2. CardInit => CardInv /\ RangeInv /\ PortInv /\ HostInv /\ Memory!HostInit
  BY CardStarts, RangesStart, PortStarts, HostStarts, HostBegins
<1> QED  BY <1>1, <1>2, PTL DEF CardSpec, HostSeesMemory, Memory!HostSpec

\* Without blits nothing but a write of the host is ever on the port.
ReadyReads == arb = "READY" => ~ram_write

LEMMA ReadyReadsStep ==
  ASSUME RangeInv, EnableRules, Clock
  PROVE  ReadyReads'
<1>1. PICK p \in {BlitterStarted, blit} : ArbiterStep(p)  BY DEF Clock
<1> SUFFICES ASSUME arb' = "READY" PROVE ~ram_write'  BY DEF ReadyReads
<1>2. GrantFetch \/ FetchingRow  BY <1>1, ArrivesFetching
<1>3. CASE GrantFetch  BY <1>3 DEF GrantFetch, SetPort
<1>4. CASE FetchingRow  BY <1>4 DEF FetchingRow, At, SetPort, portVars, EnableRules
<1> QED  BY <1>2, <1>3, <1>4

LEMMA HostAlone ==
  ASSUME RangeInv, EnableRules, OffersClaimed, NoBlits, NoPairs, WriteUnderWay, ReadyReads
  PROVE  WritesWait /\ BlitsBeside
<1>1. arb \in ArbiterStates  BY DEF RangeInv
<1>2. WritesWait  BY DEF WritesWait, NoBlits
<1>3. ram_enable /\ ram_write => arb = "WRITING_ZORRO"
  BY <1>1 DEF ArbiterStates, EnableRules, OffersClaimed, NoBlits, BlitStates, NoPairs, WriteUnderWay,
     ReadyReads
<1> QED  BY <1>2, <1>3 DEF BlitsBeside

(* A host that starts no blit sees a plain memory with nothing assumed of  *)
(* the steps: the two conditions of PlainMemory hold by themselves.        *)
THEOREM PlainMemoryAlone ==
  ASSUME ~ResetAllowed, margin_x = 0, FETCHW > 1, BLITTER_COPY_SIZE > 0, LinesInRows, WaitsSuffice,
         NoCapture, NoBlitOps
  PROVE  CardSpec => HostSeesMemory
<1>1. /\ CardInv /\ RangeInv /\ PortInv /\ HostInv /\ NoBlits /\ ReadyReads /\ [Clock]_cardVars
      => CardInv' /\ RangeInv' /\ PortInv' /\ HostInv' /\ NoBlits' /\ ReadyReads'
  <2> SUFFICES ASSUME CardInv, RangeInv, PortInv, HostInv, NoBlits, ReadyReads, [Clock]_cardVars
               PROVE  CardInv' /\ RangeInv' /\ PortInv' /\ HostInv' /\ NoBlits' /\ ReadyReads'
    OBVIOUS
  <2>1. CardInv' /\ RangeInv'  BY CardStep, RangesStep
  <2>2. CASE UNCHANGED cardVars
    <3>1. NoBlits' /\ ReadyReads'
      BY <2>2 DEF cardVars, portVars, NoBlits, ReadyReads
    <3> QED  BY <2>1, <2>2, <3>1, PortKept, HostStays
  <2>3. CASE Clock
    <3>1. WritesWait /\ BlitsBeside  BY HostAlone DEF PortInv, HostInv
    <3>2. HostInv' /\ ~WritesCapture  BY <2>1, <2>3, <3>1, HostStep
    <3>3. PortInv'  BY <2>1, <2>3, <3>2, PortStep
    <3>4. NoBlits' /\ ReadyReads'  BY <2>3, NoBlitsStep, ReadyReadsStep DEF PortInv
    <3> QED  BY <2>1, <3>2, <3>3, <3>4
  <2> QED  BY <2>2, <2>3
<1>2. CardInit => CardInv /\ RangeInv /\ PortInv /\ HostInv /\ NoBlits /\ ReadyReads
  <2>1. CardInit => NoBlits /\ ReadyReads
    BY DEF CardInit, ArbiterInit, NoBlits, BlitStates, ReadyReads
  <2> QED  BY <2>1, CardStarts, RangesStart, PortStarts, HostStarts
<1>3. RangeInv /\ PortInv /\ HostInv /\ NoBlits /\ ReadyReads => WritesWait /\ BlitsBeside
  BY HostAlone DEF PortInv, HostInv
<1>4. CardSpec => []WritesWait /\ []BlitsBeside  BY <1>1, <1>2, <1>3, PTL DEF CardSpec
<1>5. CardSpec /\ []WritesWait /\ []BlitsBeside => HostSeesMemory  BY PlainMemory
<1> QED  BY <1>4, <1>5, PTL
=============================================================================
