-------------------------- MODULE SDRAMServerProofs --------------------------
(***************************************************************************)
(* The controller implements SDRAMServer: every step of the controller and *)
(* of the chip is a step of the one-place queue and its words owed, or     *)
(* leaves them alone.  The client makes single accesses, as SDRAMServer's  *)
(* does, and the chip's mode register holds no burst.                      *)
(***************************************************************************)
EXTENDS SDRAMRefinement, SDRAMSafetyProofs, SequenceTheorems

SingleAccesses ==
  /\ \A in \in Inputs : ~in.reset /\ in.burst = 0
  /\ PowerUpMode \notin {1, 7}

(* No burst is ever under way. *)
NoBursts ==
  /\ burst_old = 0 /\ state # "burst_read" /\ iob.cmd \notin {"LOAD_MODE", "TERMINATE"}
  /\ chip_mode \notin {1, 7} /\ chip_stream = Idle

(* Which transaction is the one in save: the one that is about to be put   *)
(* on the pins, and then nothing else is held.                             *)
InHand ==
  /\ state \in {"startup", "read_1", "write_1"} => ~got_transaction
  /\ state = "startup" => ~ready_for_new
  /\ state = "read_1" => ~save.wr
  /\ state = "write_1" => save.wr

ServeInv == SafeInv /\ NoBursts /\ InHand
-----------------------------------------------------------------------------
(* What an edge does to the queue when nothing is put on the pins: it goes *)
(* on holding what it holds, or takes what is accepted.                    *)
Holding(in) ==
  /\ state \notin {"read_1", "write_1"} /\ DelayLine(FALSE)
  /\ \/ iob' = iob
     \/ iob'.cmd \in {"NOP", "ACTIVE", "PRECHARGE"}
  /\ state' \notin {"startup", "burst_read"}
  /\ \/ state' \notin {"read_1", "write_1"} /\ got_transaction' = (got_transaction \/ Accepts(in))
     \/ /\ got_transaction /\ ~got_transaction'
        /\ state' = IF save.wr THEN "write_1" ELSE "read_1"

(* A transaction is put on the pins, and another may be accepted.          *)
Performing(in) ==
  /\ got_transaction' <=> Accepts(in)
  /\ \/ /\ state = "read_1" /\ state' = "read_2" /\ DelayLine(TRUE)
        /\ iob' = [iob EXCEPT !.cmd = "READ", !.addr = save.col, !.bank = save.bank, !.lanes = Lanes]
     \/ /\ state = "write_1" /\ state' = "write_2" /\ DelayLine(FALSE)
        /\ iob' = [cmd |-> "WRITE", addr |-> save.col, bank |-> save.bank,
                   lanes |-> save.lanes, data |-> save.data]

(* Every edge is one or the other. *)
LEMMA EdgeKinds ==
  ASSUME ServeInv, NEW in \in ClientInputs, ~in.reset, in.burst = 0, SDRAMClock(in)
  PROVE  burst_old' = 0 /\ (Holding(in) \/ Performing(in))
<1>0. /\ burst_old = 0 /\ state # "burst_read" /\ ~(burst_old > 1)
      /\ iob \in Pins /\ save \in Transactions /\ ControllerState(in)
  BY DEF ServeInv, NoBursts, SafeInv, TypeInv, TypeOK, ControllerTypeOK, SDRAMClock
<1>1. ~LoadMode(in) /\ ~BurstRead(in) /\ ~BurstTerminate(in)
  BY <1>0 DEF LoadMode, BurstRead, BurstTerminate
<1>2. CASE Startup(in)
  <2>1. ~got_transaction /\ ~ready_for_new
    BY <1>2 DEF Startup, ServeInv, InHand
  <2> QED  BY <1>0, <1>2, <2>1 DEF Startup, Reopen, Goto, Holding, Accepts
<1>3. CASE IdleWait(in)
  <2>1. /\ state \in DOMAIN AfterWait /\ state' = AfterWait[state] /\ DelayLine(FALSE)
        /\ got_transaction' = (got_transaction \/ Accepts(in)) /\ burst_old' = burst_old
    BY <1>3 DEF IdleWait, Keep, Goto
  <2>2. iob' = iob \/ iob'.cmd = "NOP"
    BY <1>0, <1>3 DEF IdleWait, Pins
  <2>3. /\ state \notin {"read_1", "write_1"}
        /\ state' \notin {"startup", "burst_read", "read_1", "write_1"}
    BY <2>1 DEF AfterWait
  <2> QED  BY <1>0, <2>1, <2>2, <2>3 DEF Holding
<1>4. CASE Activate(in) \/ IdleNop(in)
  <2>1. iob'.cmd \in {"ACTIVE", "NOP"}
    BY <1>0, <1>4 DEF Activate, IdleNop, Pins
  <2> QED  BY <1>0, <1>4, <2>1 DEF Activate, IdleNop, Keep, Goto, Holding
<1>5. CASE OpenIn2(in)
  <2>1. iob'.cmd = "NOP"
    BY <1>0, <1>5 DEF OpenIn2, Pins
  <2>2. /\ state = "open_in_2" /\ state' = "open_in_1" /\ DelayLine(FALSE)
        /\ got_transaction' = (got_transaction \/ Accepts(in)) /\ burst_old' = burst_old
    BY <1>5 DEF OpenIn2, Keep, Goto
  <2> QED  BY <1>0, <2>1, <2>2 DEF Holding
<1>6. CASE OpenIn1(in)
  <2>1. iob.cmd = "NOP" /\ got_transaction
    BY <1>6 DEF OpenIn1, ServeInv, SafeInv, PinsFit, Handshake
  <2>2. iob'.cmd = "NOP"
    BY <1>0, <1>6, <2>1 DEF OpenIn1, Pins
  <2> QED  BY <1>0, <1>6, <2>1, <2>2 DEF OpenIn1, Reopen, Goto, Holding
<1>7. CASE Read1(in)
  <2>1. ~got_transaction /\ Keep(in, "read_2") /\ state = "read_1"
    BY <1>0, <1>7 DEF Read1, ServeInv, InHand
  <2>2. state' = "read_2" /\ (got_transaction' <=> Accepts(in))
    BY <2>1, KeepFacts
  <2> QED  BY <1>0, <1>7, <2>1, <2>2 DEF Read1, Performing
<1>8. CASE ReadTail(in)
  <2>1. /\ state \in DOMAIN AfterRead /\ iob' = iob /\ DelayLine(FALSE) /\ burst_old' = burst_old
        /\ state \notin {"read_1", "write_1"}
    BY <1>8 DEF ReadTail, AfterRead
  <2>2. CASE Follows(FALSE)
    <3>1. got_transaction /\ ~save.wr
      BY <1>0, <2>2 DEF Follows, Transactions
    <3>2. state' = "read_1" /\ ~got_transaction'
      BY <1>8, <2>2, ReopenFacts DEF ReadTail
    <3> QED  BY <1>0, <2>1, <3>1, <3>2 DEF Holding
  <2>3. CASE ~Follows(FALSE)
    <3>0. Keep(in, "open_in_2") \/ Keep(in, AfterRead[state])
      <4>1. CASE state = "read_4" /\ Follows(TRUE)  BY <1>8, <2>3, <4>1 DEF ReadTail
      <4>2. CASE ~(state = "read_4" /\ Follows(TRUE))  BY <1>8, <2>3, <4>2 DEF ReadTail
      <4> QED  BY <4>1, <4>2
    <3>1. PICK s \in {AfterRead[state], "open_in_2"} : Keep(in, s)
      BY <3>0
    <3>a. state' = s /\ got_transaction' = (got_transaction \/ Accepts(in))
      BY <3>1 DEF Keep, Goto
    <3>2. state' \notin {"startup", "burst_read", "read_1", "write_1"}
      <4>1. AfterRead[state] \in {"read_3", "read_4", "precharge"}  BY <2>1 DEF AfterRead
      <4> QED  BY <3>a, <4>1
    <3> QED  BY <1>0, <2>1, <3>a, <3>2 DEF Holding
  <2> QED  BY <2>2, <2>3
<1>9. CASE Write1(in)
  <2>1. ~got_transaction /\ Keep(in, "write_2") /\ state = "write_1"
    BY <1>0, <1>9 DEF Write1, ServeInv, InHand
  <2>2. state' = "write_2" /\ (got_transaction' <=> Accepts(in))
    BY <2>1, KeepFacts
  <2> QED  BY <1>0, <1>9, <2>1, <2>2 DEF Write1, Performing
<1>10. CASE Write2(in) \/ Write3(in)
  <2>1. iob' = iob /\ DelayLine(FALSE) /\ burst_old' = burst_old /\ state \notin {"read_1", "write_1"}
    <3>0. burst_old # 1  BY <1>0
    <3>1. CASE Write2(in)
      <4>1. state = "write_2"  BY <3>1 DEF Write2
      <4> QED  BY <3>0, <3>1, <4>1 DEF Write2
    <3>2. CASE Write3(in)
      <4>1. state = "write_3"  BY <3>2 DEF Write3
      <4> QED  BY <3>0, <3>2, <4>1 DEF Write3
    <3> QED  BY <1>10, <3>1, <3>2
  <2>2. CASE Follows(TRUE)
    <3>1. save.wr /\ got_transaction
      BY <2>2 DEF Follows
    <3> QED  BY <1>0, <1>10, <2>1, <2>2, <3>1 DEF Write2, Write3, Reopen, Goto, Holding
  <2>3. CASE ~Follows(TRUE)
    BY <1>0, <1>10, <2>1, <2>3 DEF Write2, Write3, Keep, Goto, Holding
  <2> QED  BY <2>2, <2>3
<1>11. CASE Precharge(in)
  <2>1. iob'.cmd = "PRECHARGE"
    BY <1>0, <1>11 DEF Precharge, Pins
  <2> QED  BY <1>0, <1>11, <2>1 DEF Precharge, Keep, Goto, Holding
<1> QED
  BY <1>0, <1>1, <1>2, <1>3, <1>4, <1>5, <1>6, <1>7, <1>8, <1>9, <1>10, <1>11 DEF ControllerState

-----------------------------------------------------------------------------
(* Without bursts the chip never streams words of its own accord.          *)
LEMMA NoStream ==
  ASSUME ServeInv, Chip
  PROVE  chip_stream' = Idle /\ chip_mode' = chip_mode
<1>1. chip_mode \notin {1, 7} /\ chip_stream = Idle /\ iob.cmd # "LOAD_MODE"
  BY DEF ServeInv, NoBursts
<1>2. StreamNext = Idle  BY <1>1 DEF StreamNext, Idle
<1>3. ChipStream = Idle  BY <1>1, <1>2 DEF ChipStream, StartStream
<1> QED  BY <1>1, <1>3 DEF Chip

(* What is held until it is put on the pins is not replaced meanwhile.     *)
LEMMA HeldByInv ==
  ASSUME ServeInv, NEW in \in ClientInputs, SDRAMClock(in), got_transaction
  PROVE  save' = save
<1>1. Latch(in) /\ state # "burst_read"  BY DEF SDRAMClock, ServeInv, NoBursts
<1>2. ~ready_for_new  BY <1>1 DEF ServeInv, SafeInv, Handshake
<1> QED  BY <1>1, <1>2, Held

(* Every edge keeps the invariant.                                         *)
LEMMA ClockServes ==
  ASSUME ServeInv, NEW in \in ClientInputs, ~in.reset, in.burst = 0, SDRAMClock(in)
  PROVE  ServeInv'
<1>1. SafeInv'  BY ClockSafe DEF ServeInv, QuietReset
<1>2. burst_old' = 0 /\ (Holding(in) \/ Performing(in))  BY EdgeKinds
<1>3. chip_stream' = Idle /\ chip_mode' = chip_mode /\ chip_mode \notin {1, 7}
      /\ iob.cmd \notin {"LOAD_MODE", "TERMINATE"}
  BY NoStream DEF ServeInv, NoBursts, SDRAMClock
<1>4. CASE Holding(in)
  <2>1. NoBursts'  BY <1>2, <1>3, <1>4 DEF Holding, NoBursts
  <2>2. InHand'
    <3>1. CASE state' \notin {"read_1", "write_1"}  BY <1>4, <3>1 DEF Holding, InHand
    <3>2. CASE state' \in {"read_1", "write_1"}
      <4>1. /\ got_transaction /\ ~got_transaction'
            /\ state' = IF save.wr THEN "write_1" ELSE "read_1"
        BY <1>4, <3>2 DEF Holding
      <4>2. save' = save  BY <4>1, HeldByInv
      <4> QED  BY <4>1, <4>2 DEF InHand
    <3> QED  BY <3>1, <3>2
  <2> QED  BY <1>1, <2>1, <2>2 DEF ServeInv
<1>5. CASE Performing(in)
  <2>1. iob'.cmd \in {"READ", "WRITE"} /\ state' \in {"read_2", "write_2"}
    <3>0. iob \in Pins  BY DEF ServeInv, SafeInv, TypeInv, TypeOK, ControllerTypeOK
    <3>1. CASE state = "read_1"  BY <1>5, <3>0, <3>1 DEF Performing, Pins
    <3>2. CASE state = "write_1"  BY <1>5, <3>2 DEF Performing
    <3> QED  BY <1>5, <3>1, <3>2 DEF Performing
  <2> QED  BY <1>1, <1>2, <1>3, <2>1 DEF ServeInv, NoBursts, InHand
<1> QED  BY <1>2, <1>4, <1>5

-----------------------------------------------------------------------------
(* The words owed.  Owed and Handed are SDRAMServer's owed and handed here. *)
Owed == Slot(0) \o Slot(1) \o Slot(2) \o Slot(3)
Rest == Slot(1) \o Slot(2) \o Slot(3)
Handed == IF data_out_ready THEN data_out ELSE NoData
Answers == Words \cup {NoData}

(* Concatenation, as the words owed need it.                               *)
LEMMA FrontOf ==
  ASSUME NEW S, NEW x \in S, NEW r \in Seq(S)
  PROVE  <<x>> \o r # <<>> /\ Head(<<x>> \o r) = x /\ Tail(<<x>> \o r) = r
<1> DEFINE s == <<x>> \o r
<1>1. /\ <<x>> \in Seq(S) /\ Len(<<x>>) = 1 /\ Len(r) \in Nat
  OBVIOUS
<1>2. /\ s \in Seq(S) /\ Len(s) = 1 + Len(r)
      /\ \A i \in 1 .. 1 + Len(r) : s[i] = IF i <= 1 THEN <<x>>[i] ELSE r[i - 1]
  BY <1>1, ConcatProperties
<1>3. s # <<>>  BY <1>1, <1>2
<1>4. Head(s) = x  BY <1>1, <1>2, <1>3
<1> HIDE DEF s
<1>5. /\ Tail(s) \in Seq(S) /\ Len(Tail(s)) = Len(r)
      /\ \A i \in 1 .. Len(r) : Tail(s)[i] = s[i + 1]
  BY <1>1, <1>2, <1>3, HeadTailProperties
<1>6. \A i \in 1 .. Len(r) : Tail(s)[i] = r[i]  BY <1>1, <1>2, <1>5
<1>7. Tail(s) = r  BY <1>5, <1>6, SeqEqual
<1> QED  BY <1>3, <1>4, <1>7 DEF s

(* A word owed is a word, or what an undriven bus reads as.                *)
LEMMA SlotType == ASSUME TypeInv, NEW i \in 0 .. 3 PROVE Slot(i) \in Seq(Answers)
<1> USE DEF Answers
<1>1. CASE i \notin data_ready_delay  BY <1>1 DEF Slot
<1>2. CASE i \in data_ready_delay /\ i = 3  BY <1>2, ChipOutType DEF Slot
<1>3. CASE i \in data_ready_delay /\ i # 3
  <2>1. 3 - i \in 1 .. 3  BY <1>3
  <2>2. dq[3 - i] \in Answers  BY <2>1 DEF TypeInv, TypeOK, ChipTypeOK
  <2> QED  BY <1>3, <2>2 DEF Slot
<1> QED  BY <1>1, <1>2, <1>3

(* An edge moves every word owed one place up the delay line with its 1,   *)
(* and hands out the one whose 1 drops out.                                *)
LEMMA WordsMoveUp ==
  ASSUME TypeInv, NEW issue \in BOOLEAN, Chip, DelayLine(issue)
  PROVE  /\ Owed' = Rest \o Slot(3)'
         /\ Slot(3)' = IF issue THEN <<ChipOut'>> ELSE <<>>
         /\ \/ Owed # <<>> /\ Handed' = Head(Owed) /\ Rest = Tail(Owed)
            \/ Handed' = NoData /\ Rest = Owed
<1> USE DEF Answers
<1>1. data_ready_delay \in SUBSET (0 .. 3) /\ dq \in [1 .. 3 -> Answers]
  BY DEF TypeInv, TypeOK, ControllerTypeOK, ChipTypeOK
<1>2. \A i \in 0 .. 2 : i \in data_ready_delay' <=> i + 1 \in data_ready_delay
  BY <1>1 DEF DelayLine
<1>3. 3 \in data_ready_delay' <=> issue
  BY <1>1 DEF DelayLine
<1>4. dq'[1] = ChipOut /\ dq'[2] = dq[1] /\ dq'[3] = dq[2]
  BY DEF Chip
<1>5. Slot(0)' = Slot(1) /\ Slot(1)' = Slot(2) /\ Slot(2)' = Slot(3)
  BY <1>2, <1>4 DEF Slot
<1>6. Slot(3)' = IF issue THEN <<ChipOut'>> ELSE <<>>
  BY <1>3 DEF Slot
<1>7. Owed' = Rest \o Slot(3)'  BY <1>5 DEF Owed, Rest
<1>8. /\ Slot(1) \in Seq(Answers) /\ Slot(2) \in Seq(Answers) /\ Slot(3) \in Seq(Answers)
      /\ Slot(1) \o Slot(2) \in Seq(Answers) /\ Rest \in Seq(Answers)
  BY SlotType, ConcatProperties DEF Rest
<1>9. CASE 0 \in data_ready_delay
  <2>1. Slot(0) = <<dq[3]>> /\ dq[3] \in Answers  BY <1>1, <1>9 DEF Slot
  <2>2. Slot(0) \in Seq(Answers)  BY SlotType
  <2>3. Owed = Slot(0) \o Rest
    <3>1. Slot(0) \o Slot(1) \o Slot(2) \o Slot(3)
            = Slot(0) \o (Slot(1) \o Slot(2) \o Slot(3))
      <4> DEFINE a == Slot(0)
                 b == Slot(1)
                 c == Slot(2)
                 d == Slot(3)
      <4>1. /\ a \in Seq(Answers) /\ b \in Seq(Answers)
            /\ c \in Seq(Answers) /\ d \in Seq(Answers)
        BY <1>8, <2>2
      <4> HIDE DEF a, b, c, d
      <4>2. (a \o b) \o c = a \o (b \o c)  BY <4>1
      <4>3. b \o c \in Seq(Answers)  BY <4>1
      <4>4. (a \o (b \o c)) \o d = a \o ((b \o c) \o d)  BY <4>1, <4>3
      <4> QED  BY <4>2, <4>4 DEF a, b, c, d
    <3> QED  BY <3>1 DEF Owed, Rest
  <2>4. Owed # <<>> /\ Head(Owed) = dq[3] /\ Tail(Owed) = Rest
    BY <1>8, <2>1, <2>3, FrontOf
  <2>5. Handed' = dq[3]  BY <1>9 DEF Handed, DelayLine
  <2> QED  BY <1>6, <1>7, <2>4, <2>5
<1>10. CASE 0 \notin data_ready_delay
  <2>1. Slot(0) = <<>>  BY <1>10 DEF Slot
  <2>2. Owed = Rest  BY <1>8, <2>1, ConcatEmptySeq DEF Owed, Rest
  <2>3. Handed' = NoData  BY <1>10 DEF Handed, DelayLine
  <2> QED  BY <1>6, <1>7, <2>2, <2>3
<1> QED  BY <1>9, <1>10

-----------------------------------------------------------------------------
(* The memory.  Storing the same bytes in a cell twice is storing them     *)
(* once, so that a WRITE may stay on the pins.                             *)
LEMMA MemHeld ==
  ASSUME ServeInv, Chip, iob' = iob \/ iob'.cmd \in {"NOP", "ACTIVE", "PRECHARGE"}
  PROVE  MemNow' = MemNow
<1>1. mem' = MemNow /\ chip_stream'.kind = "none" /\ chip_stream.kind = "none"
  BY NoStream DEF Chip, Idle, ServeInv, NoBursts
<1>2. TypeInv  BY DEF ServeInv, SafeInv
<1>3. CASE iob'.cmd # "WRITE"
  <2>1. ~WritesNow'  BY <1>1, <1>3 DEF WritesNow
  <2> QED  BY <1>1, <2>1 DEF MemNow
<1>4. CASE iob'.cmd = "WRITE"
  <2>1. iob' = iob /\ iob.cmd = "WRITE"  BY <1>4
  <2>2. open_row' = open_row  BY <2>1 DEF Chip
  <2>3. WritesNow /\ WritesNow' /\ BankNow' = BankNow /\ CellNow' = CellNow
    BY <2>1, <2>2 DEF WritesNow, BankNow, ColNow, CellNow
  <2>4. CASE open_row[BankNow] = Closed
    <3>1. ~(WritesNow' /\ open_row'[BankNow'] # Closed)  BY <2>2, <2>3, <2>4
    <3> QED  BY <1>1, <3>1 DEF MemNow
  <2>5. CASE open_row[BankNow] # Closed
    <3>1. CellNow \in Cells /\ mem \in [Cells -> Words] /\ MemNow \in [Cells -> Words]
      BY <1>2, <2>3, <2>5, CellNowType, MemNowType DEF TypeInv, TypeOK, ChipTypeOK
    <3>2. MemNow[CellNow] = Merge(mem[CellNow], iob.data, iob.lanes)
      BY <2>3, <2>5, <3>1 DEF MemNow
    <3>3. Merge(MemNow[CellNow], iob.data, iob.lanes) = MemNow[CellNow]
      BY <3>2 DEF Merge
    <3>4. MemNow' = [MemNow EXCEPT ![CellNow] = Merge(@, iob.data, iob.lanes)]
      BY <1>1, <2>1, <2>2, <2>3, <2>5 DEF MemNow
    <3> QED  BY <3>1, <3>3, <3>4
  <2> QED  BY <2>4, <2>5
<1> QED  BY <1>3, <1>4

\* Where the transaction in save goes.
CellOfSave == <<save.bank, save.row, save.col>>

(* A READ or WRITE comes on the pins when the row of its cell is open.     *)
LEMMA CellAtHand ==
  ASSUME ServeInv, Chip, state \in {"read_1", "write_1"},
         iob'.cmd \in {"READ", "WRITE"}, iob'.bank = save.bank, iob'.addr = save.col
  PROVE  open_row'[BankNow'] # Closed /\ CellNow' = CellOfSave /\ CellOfSave \in Cells
<1>1. TypeInv /\ RowFits  BY DEF ServeInv, SafeInv
<1>2. open_row' = RowsAfter  BY <1>1, RowsAfterStep
<1>3. RowsAfter[save.bank] = save.row  BY <1>1 DEF RowFits
<1>4. BankNow' = save.bank /\ ColNow' = save.col  BY DEF BankNow, ColNow
<1>5. save \in Transactions  BY <1>1 DEF TypeInv, TypeOK, ControllerTypeOK
<1>6. CellOfSave \in Cells  BY <1>5 DEF CellOfSave, Cells, Transactions
<1>7. save.row # Closed  BY <1>5, SentinelAssumption DEF Transactions
<1> QED  BY <1>2, <1>3, <1>4, <1>6, <1>7 DEF CellNow, CellOfSave

(* A READ finds the word of its cell and changes none.                     *)
LEMMA ReadPerformed ==
  ASSUME ServeInv, Chip, state = "read_1",
         iob'.cmd = "READ", iob'.bank = save.bank, iob'.addr = save.col
  PROVE  MemNow' = MemNow /\ ChipOut' = MemNow[CellOfSave]
<1>1. mem' = MemNow /\ chip_stream'.kind = "none"  BY NoStream DEF Chip, Idle
<1>2. ~WritesNow' /\ ReadsNow'  BY <1>1 DEF WritesNow, ReadsNow
<1>3. open_row'[BankNow'] # Closed /\ CellNow' = CellOfSave  BY CellAtHand
<1> QED  BY <1>1, <1>2, <1>3 DEF MemNow, ChipOut

(* A WRITE stores its bytes in its cell.                                   *)
LEMMA WritePerformed ==
  ASSUME ServeInv, Chip, state = "write_1",
         iob' = [cmd |-> "WRITE", addr |-> save.col, bank |-> save.bank,
                 lanes |-> save.lanes, data |-> save.data]
  PROVE  MemNow' = [MemNow EXCEPT ![CellOfSave] = Merge(@, save.data, save.lanes)]
<1>1. mem' = MemNow  BY DEF Chip
<1>2. WritesNow'  BY DEF WritesNow
<1>3. open_row'[BankNow'] # Closed /\ CellNow' = CellOfSave  BY CellAtHand
<1>4. iob'.data = save.data /\ iob'.lanes = save.lanes  OBVIOUS
<1> QED  BY <1>1, <1>2, <1>3, <1>4 DEF MemNow

-----------------------------------------------------------------------------
(* The queue, and the steps of SDRAMServer.                                *)
Queue == IF Queued THEN <<save>> ELSE <<>>

(* What HandOut asks for, from what the delay line does.                   *)
LEMMA WordsHandedOut ==
  ASSUME ServeInv, NEW issue \in BOOLEAN, Chip, DelayLine(issue)
  PROVE  /\ ~issue => Server!HandOut(<<>>)
         /\ issue =>
              \/ Owed # <<>> /\ Handed' = Head(Owed) /\ Owed' = Tail(Owed) \o <<ChipOut'>>
              \/ Handed' = NoData /\ Owed' = Owed \o <<ChipOut'>>
<1>1. TypeInv  BY DEF ServeInv, SafeInv
<1>2. /\ Owed' = Rest \o Slot(3)'
      /\ Slot(3)' = IF issue THEN <<ChipOut'>> ELSE <<>>
      /\ \/ Owed # <<>> /\ Handed' = Head(Owed) /\ Rest = Tail(Owed)
         \/ Handed' = NoData /\ Rest = Owed
  BY <1>1, WordsMoveUp
<1>3. ~issue => Server!HandOut(<<>>)
  BY <1>2 DEF Server!HandOut, Owed, Handed
<1> QED  BY <1>2, <1>3

(* An edge that puts nothing on the pins is a step of the server's Wait.   *)
LEMMA HoldingWaits ==
  ASSUME ServeInv, NEW in \in ClientInputs, SDRAMClock(in), Holding(in)
  PROVE  Server!Wait
<1>0. Latch(in) /\ Chip /\ TypeInv  BY DEF SDRAMClock, ServeInv, SafeInv
<1>1. MemNow' = MemNow  BY <1>0, MemHeld DEF Holding
<1>2. Server!HandOut(<<>>)  BY <1>0, WordsHandedOut DEF Holding
<1>3. save' \in Transactions  BY <1>0, LatchType
<1>4. Queued <=> got_transaction  BY DEF Queued, Holding
<1>5. \/ Queue' = Queue
      \/ Queue = <<>> /\ Queue' = <<save'>>
  <2>1. CASE got_transaction
    <3>1. Queued'  BY <2>1 DEF Queued, Holding
    <3>2. save' = save  BY <2>1, HeldByInv
    <3> QED  BY <1>4, <2>1, <3>1, <3>2 DEF Queue
  <2>2. CASE ~got_transaction
    <3>1. Queue = <<>>  BY <1>4, <2>2 DEF Queue
    <3> QED  BY <3>1 DEF Queue
  <2> QED  BY <2>1, <2>2
<1>6. Server!Take(Queue)
  <2>1. CASE Queue' = Queue  BY <2>1 DEF Server!Take, Queue
  <2>2. CASE Queue = <<>> /\ Queue' = <<save'>>
    <3>1. Len(Queue') = 1 /\ Head(Queue') \in Transactions  BY <1>3, <2>2
    <3> QED  BY <2>2, <3>1 DEF Server!Take, Queue
  <2> QED  BY <1>5, <2>1, <2>2
<1> QED  BY <1>1, <1>2, <1>6 DEF Server!Wait, Queue

(* An edge that puts a transaction on the pins performs it.                *)
LEMMA PerformingPerforms ==
  ASSUME ServeInv, NEW in \in ClientInputs, SDRAMClock(in), Performing(in)
  PROVE  Server!Perform
<1>0. Latch(in) /\ Chip /\ TypeInv  BY DEF SDRAMClock, ServeInv, SafeInv
<1>1. /\ save' \in Transactions /\ save \in Transactions /\ iob \in Pins
  BY <1>0, LatchType DEF TypeInv, TypeOK, ControllerTypeOK
<1>2. /\ state \in {"read_1", "write_1"} /\ state' \in {"read_2", "write_2"}
  BY DEF Performing
<1>3. Queue = <<save>> /\ Queue # <<>> /\ Head(Queue) = save /\ Tail(Queue) = <<>>
  BY <1>2 DEF Queue, Queued
<1>4. Queue' = <<>> \/ Queue' = <<save'>>
  BY DEF Queue
<1>5. Server!Take(Tail(Queue))
  <2>1. Queue' = <<save'>> => Len(Queue') = 1 /\ Head(Queue') \in Transactions  BY <1>1
  <2> QED  BY <1>3, <1>4, <2>1 DEF Server!Take, Queue
<1>6. MemNow' = Server!Effect(save) /\ Server!HandOut(Server!Answer(save))
  <2>1. CASE state = "read_1"
    <3>1. /\ DelayLine(TRUE) /\ iob'.cmd = "READ" /\ iob'.bank = save.bank
          /\ iob'.addr = save.col
      BY <1>1, <2>1 DEF Performing, Pins
    <3>2. ~save.wr  BY <2>1 DEF ServeInv, InHand
    <3>3. MemNow' = MemNow /\ ChipOut' = MemNow[CellOfSave]
      BY <1>0, <2>1, <3>1, ReadPerformed
    <3>4. MemNow' = Server!Effect(save)  BY <3>2, <3>3 DEF Server!Effect
    <3>5. Server!Answer(save) = <<ChipOut'>>
      BY <3>2, <3>3 DEF Server!Answer, Server!CellOf, CellOfSave
    <3>6. \/ Owed # <<>> /\ Handed' = Head(Owed) /\ Owed' = Tail(Owed) \o <<ChipOut'>>
          \/ Handed' = NoData /\ Owed' = Owed \o <<ChipOut'>>
      BY <1>0, <3>1, WordsHandedOut
    <3> QED  BY <3>4, <3>5, <3>6 DEF Server!HandOut, Owed, Handed
  <2>2. CASE state = "write_1"
    <3>1. /\ DelayLine(FALSE)
          /\ iob' = [cmd |-> "WRITE", addr |-> save.col, bank |-> save.bank,
                     lanes |-> save.lanes, data |-> save.data]
      BY <2>2 DEF Performing
    <3>2. save.wr  BY <2>2 DEF ServeInv, InHand
    <3>3. MemNow' = [MemNow EXCEPT ![CellOfSave] = Merge(@, save.data, save.lanes)]
      BY <1>0, <2>2, <3>1, WritePerformed
    <3>4. MemNow' = Server!Effect(save)
      BY <3>2, <3>3 DEF Server!Effect, Server!CellOf, CellOfSave, Merge
    <3>5. Server!Answer(save) = <<>>  BY <3>2 DEF Server!Answer
    <3>6. Server!HandOut(<<>>)  BY <1>0, <3>1, WordsHandedOut
    <3> QED  BY <3>4, <3>5, <3>6
  <2> QED  BY <1>2, <2>1, <2>2
<1> QED  BY <1>3, <1>5, <1>6 DEF Server!Perform, Queue

-----------------------------------------------------------------------------
(* Initially nothing is queued or owed, and the invariant holds.           *)
LEMMA InitServes ==
  ASSUME SingleAccesses
  PROVE  SDRAMInit => ServeInv /\ Server!ServerInit
<1> SUFFICES ASSUME SDRAMInit PROVE ServeInv /\ Server!ServerInit  OBVIOUS
<1> USE DEF SDRAMInit, ControllerInit, ChipInit
<1>1. SafeInv  BY InitSafe
<1>2. NoBursts /\ InHand  BY DEF SingleAccesses, NoBursts, InHand
<1>3. MemNow = InitMem  BY DEF MemNow, WritesNow, Idle
<1>4. Queue = <<>>  BY DEF Queue, Queued
<1>5. Owed = <<>> /\ Handed = NoData
  <2>1. \A i \in 0 .. 3 : Slot(i) = <<>>  BY DEF Slot
  <2>2. Owed = <<>> \o <<>> \o <<>> \o <<>>  BY <2>1 DEF Owed
  <2> QED  BY <2>2 DEF Handed
<1>6. Server!ServerInit  BY <1>3, <1>4, <1>5 DEF Server!ServerInit, Queue, Owed, Handed
<1> QED  BY <1>1, <1>2, <1>6 DEF ServeInv

(* Every step of the controller is a step of the server or a stutter of it. *)
LEMMA StepServes ==
  ASSUME SingleAccesses
  PROVE  ServeInv /\ [SDRAMNext]_sdramVars
           => ServeInv' /\ [Server!ServerNext]_(Server!serverVars)
<1> SUFFICES ASSUME ServeInv, [SDRAMNext]_sdramVars
             PROVE  ServeInv' /\ [Server!ServerNext]_(Server!serverVars)
  OBVIOUS
<1>1. CASE SDRAMNext
  <2>1. PICK in \in Inputs : SDRAMClock(in)  BY <1>1 DEF SDRAMNext
  <2>2. in \in ClientInputs /\ ~in.reset /\ in.burst = 0
    BY InputsAssumption DEF SingleAccesses
  <2>3. ServeInv'  BY <2>1, <2>2, ClockServes
  <2>4. Holding(in) \/ Performing(in)  BY <2>1, <2>2, EdgeKinds
  <2>5. Server!ServerNext
    BY <2>1, <2>2, <2>4, HoldingWaits, PerformingPerforms DEF Server!ServerNext
  <2> QED  BY <2>3, <2>5
<1>2. CASE UNCHANGED sdramVars
  <2>1. NoReset  BY DEF SingleAccesses, NoReset
  <2>2. SafeInv'  BY <1>2, <2>1, StepSafe DEF ServeInv
  <2>3. NoBursts' /\ InHand'
    BY <1>2 DEF sdramVars, ctrlVars, chipVars, ServeInv, NoBursts, InHand
  <2>4. MemNow' = MemNow
    BY <1>2 DEF sdramVars, ctrlVars, chipVars, MemNow, WritesNow, BankNow, ColNow, CellNow
  <2>5. Queue' = Queue /\ Handed' = Handed
    BY <1>2 DEF sdramVars, ctrlVars, chipVars, Queue, Queued, Handed
  <2>6. Owed' = Owed
    <3>1. ChipOut' = ChipOut
      BY <1>2 DEF sdramVars, ctrlVars, chipVars, ChipOut, ReadsNow, BankNow, ColNow, CellNow
    <3>2. \A i \in 0 .. 3 : Slot(i)' = Slot(i)
      BY <1>2, <3>1 DEF sdramVars, ctrlVars, chipVars, Slot
    <3> QED  BY <3>2 DEF Owed
  <2>7. UNCHANGED Server!serverVars
    BY <2>4, <2>5, <2>6 DEF Server!serverVars, Queue, Owed, Handed
  <2> QED  BY <2>2, <2>3, <2>7 DEF ServeInv
<1> QED  BY <1>1, <1>2

(* For every geometry and every client that makes single accesses, without *)
(* a reset: each transaction accepted is performed once, in order and on   *)
(* its cell, and each read is answered once, in order, with the word its   *)
(* cell held when it was performed.                                        *)
THEOREM ServerImplemented ==
  ASSUME SingleAccesses
  PROVE  SDRAMSpec => ServesInOrder
<1>1. SDRAMInit => ServeInv /\ Server!ServerInit  BY InitServes
<1>2. ServeInv /\ [SDRAMNext]_sdramVars
        => ServeInv' /\ [Server!ServerNext]_(Server!serverVars)
  BY StepServes
<1> QED  BY <1>1, <1>2, PTL DEF SDRAMSpec, ServesInOrder, Server!ServerSpec
=============================================================================
